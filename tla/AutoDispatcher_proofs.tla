------------------------ MODULE AutoDispatcher_proofs ------------------------
(***************************************************************************)
(* Proofs about AutoDispatcher, for every set of threads and any number of *)
(* dispatchers, in all behaviours: calls of several threads may overlap.   *)
(* There are two invariants.  ObjectInv always holds, and OneDispatcher    *)
(* follows from it; SerialInv says what holds until two calls have met.    *)
(***************************************************************************)
EXTENDS AutoDispatcher, TLAPS

Steps == {"create", "launch", "await_start", "tickets", "shutdown", "await", "reset", "close"}

\* What changing a field of a call leaves of it.
LEMMA FieldLemma ==
  ASSUME NEW c \in Call, NEW step \in Steps, NEW k \in 0 .. MaxRuns
  PROVE  /\ [c EXCEPT !.step = step] \in Call
         /\ [c EXCEPT !.step = step, !.tmp = k] \in Call
         /\ c.tries > 1 => [c EXCEPT !.tries = @ - 1, !.step = step] \in Call
<1>1. [c EXCEPT !.step = step] \in Call
  BY DEF Call, Steps
<1>2. [c EXCEPT !.step = step, !.tmp = k] \in Call
  BY DEF Call, Steps
<1>3. c.tries > 1 => [c EXCEPT !.tries = @ - 1, !.step = step] \in Call
  <2>1. c.tries > 1 => c.tries - 1 \in 0 .. 3
    BY DEF Call
  <2> QED
    BY <2>1 DEF Call, Steps
<1> QED
  BY <1>1, <1>2, <1>3

\* A call that is replaced, and the others.
LEMMA ReplaceLemma ==
  ASSUME TypeOK, NEW th \in Thread, NEW c \in Call
  PROVE  /\ [call EXCEPT ![th] = c] \in [Thread -> Call \cup {None}]
         /\ [call EXCEPT ![th] = c][th] = c /\ c # None
         /\ \A u \in Thread \ {th} : [call EXCEPT ![th] = c][u] = call[u]
  BY DispatchAssumption DEF TypeOK

\* What a call that goes on to another step keeps.
Onward(th, step) ==
  /\ call' \in [Thread -> Call \cup {None}]
  /\ call'[th] # None /\ call'[th].step = step
  /\ call'[th].was = call[th].was /\ call'[th].closing = call[th].closing
  /\ \A u \in Thread \ {th} : call'[u] = call[u]

\* A call that goes on to a step,
LEMMA StepLemma ==
  ASSUME TypeOK, NEW th \in Thread, call[th] # None, NEW step \in Steps,
         call' = [call EXCEPT ![th].step = step]
  PROVE  Onward(th, step) /\ call'[th].tmp = call[th].tmp
<1> DEFINE c == [call[th] EXCEPT !.step = step]
<1>1. call[th] \in Call
  BY DEF TypeOK
<1>2. c \in Call
  <2>1. 0 \in 0 .. MaxRuns
    BY DispatchAssumption
  <2> QED
    BY <1>1, <2>1, FieldLemma
<1>3. /\ c.step = step /\ c.was = call[th].was
      /\ c.closing = call[th].closing /\ c.tmp = call[th].tmp
  BY <1>1 DEF Call
<1>4. call' = [call EXCEPT ![th] = c]
  OBVIOUS
<1>5. /\ call' \in [Thread -> Call \cup {None}] /\ call'[th] = c /\ c # None
      /\ \A u \in Thread \ {th} : call'[u] = call[u]
  <2>1. /\ [call EXCEPT ![th] = c] \in [Thread -> Call \cup {None}]
        /\ [call EXCEPT ![th] = c][th] = c /\ c # None
        /\ \A u \in Thread \ {th} : [call EXCEPT ![th] = c][u] = call[u]
    <3> HIDE DEF c
    <3> QED
      BY <1>2, ReplaceLemma
  <2> QED
    BY <2>1, <1>4
<1> QED
  BY <1>3, <1>5 DEF Onward

\* with the object it has just looked up,
LEMMA HoldLemma ==
  ASSUME TypeOK, NEW th \in Thread, call[th] # None, NEW step \in Steps, NEW k \in 0 .. MaxRuns,
         call' = [call EXCEPT ![th].step = step, ![th].tmp = k]
  PROVE  Onward(th, step) /\ call'[th].tmp = k
<1> DEFINE c == [call[th] EXCEPT !.step = step, !.tmp = k]
<1>1. call[th] \in Call
  BY DEF TypeOK
<1>2. c \in Call
  BY <1>1, FieldLemma
<1>3. /\ c.step = step /\ c.was = call[th].was
      /\ c.closing = call[th].closing /\ c.tmp = k
  BY <1>1 DEF Call
<1>4. call' = [call EXCEPT ![th] = c]
  OBVIOUS
<1>5. /\ call' \in [Thread -> Call \cup {None}] /\ call'[th] = c /\ c # None
      /\ \A u \in Thread \ {th} : call'[u] = call[u]
  <2>1. /\ [call EXCEPT ![th] = c] \in [Thread -> Call \cup {None}]
        /\ [call EXCEPT ![th] = c][th] = c /\ c # None
        /\ \A u \in Thread \ {th} : [call EXCEPT ![th] = c][u] = call[u]
    <3> HIDE DEF c
    <3> QED
      BY <1>2, ReplaceLemma
  <2> QED
    BY <2>1, <1>4
<1> QED
  BY <1>3, <1>5 DEF Onward

\* or after one more wait, is that call.
LEMMA RetryLemma ==
  ASSUME TypeOK, NEW th \in Thread, call[th] # None, NEW step \in Steps, call[th].tries > 1,
         call' = [call EXCEPT ![th].tries = @ - 1, ![th].step = step]
  PROVE  Onward(th, step) /\ call'[th].tmp = call[th].tmp
<1> DEFINE c == [call[th] EXCEPT !.tries = @ - 1, !.step = step]
<1>1. call[th] \in Call
  BY DEF TypeOK
<1>2. c \in Call
  <2>1. 0 \in 0 .. MaxRuns
    BY DispatchAssumption
  <2> QED
    BY <1>1, <2>1, FieldLemma
<1>3. /\ c.step = step /\ c.was = call[th].was
      /\ c.closing = call[th].closing /\ c.tmp = call[th].tmp
  BY <1>1 DEF Call
<1>4. call' = [call EXCEPT ![th] = c]
  OBVIOUS
<1>5. /\ call' \in [Thread -> Call \cup {None}] /\ call'[th] = c /\ c # None
      /\ \A u \in Thread \ {th} : call'[u] = call[u]
  <2>1. /\ [call EXCEPT ![th] = c] \in [Thread -> Call \cup {None}]
        /\ [call EXCEPT ![th] = c][th] = c /\ c # None
        /\ \A u \in Thread \ {th} : [call EXCEPT ![th] = c][u] = call[u]
    <3> HIDE DEF c
    <3> QED
      BY <1>2, ReplaceLemma
  <2> QED
    BY <2>1, <1>4
<1> QED
  BY <1>3, <1>5 DEF Onward

\* A call that returns.
LEMMA ReturnLemma ==
  ASSUME TypeOK, NEW th \in Thread, call' = [call EXCEPT ![th] = None]
  PROVE  /\ call' \in [Thread -> Call \cup {None}]
         /\ call'[th] = None
         /\ \A u \in Thread \ {th} : call'[u] = call[u]
  BY DEF TypeOK

\* The end of a stop().
LEMMA ReturnsLemma ==
  ASSUME TypeOK, NEW th \in Thread, call[th] # None, NEW answer \in BOOLEAN, Returns(th, answer)
  PROVE  /\ call' \in [Thread -> Call \cup {None}]
         /\ answers' \subseteq [was : BOOLEAN, over : BOOLEAN, answer : BOOLEAN]
         /\ \A u \in Thread \ {th} : call'[u] = call[u]
         /\ call'[th] = None \/ Onward(th, "close")
<1>1. CASE call[th].closing
  <2>1. Onward(th, "close")
    BY <1>1, StepLemma DEF Returns, Steps
  <2> QED
    BY <1>1, <2>1 DEF Returns, Onward, TypeOK
<1>2. CASE ~call[th].closing
  <2>1. call' = [call EXCEPT ![th] = None]
    BY <1>2 DEF Returns
  <2>2. call[th] \in Call
    BY DEF TypeOK
  <2>3. call[th].was \in BOOLEAN
    BY <2>2 DEF Call
  <2>4. answers' \subseteq [was : BOOLEAN, over : BOOLEAN, answer : BOOLEAN]
    <3> DEFINE over == call[th].tmp # 0 /\ disp[call[th].tmp] = "ended"
    <3>1. answers' = {[was |-> call[th].was, answer |-> answer, over |-> over]}
      BY <1>2 DEF Returns
    <3>2. over \in BOOLEAN
      OBVIOUS
    <3> HIDE DEF over
    <3> QED
      BY <2>3, <3>1, <3>2 DEF TypeOK
  <2> QED
    BY <2>1, <2>4, ReturnLemma
<1> QED
  BY <1>1, <1>2

\* An attempt of stop() that has failed.
LEMMA AttemptLemma ==
  ASSUME TypeOK, NEW th \in Thread, call[th] # None, Retry(th)
  PROVE  /\ call' \in [Thread -> Call \cup {None}]
         /\ answers' \subseteq [was : BOOLEAN, over : BOOLEAN, answer : BOOLEAN]
         /\ \A u \in Thread \ {th} : call'[u] = call[u]
         /\ \/ call'[th] = None
            \/ Onward(th, "close")
            \/ Onward(th, "shutdown") /\ call'[th].tmp = call[th].tmp
<1>1. CASE isRunning /\ call[th].tries > 1
  <2>1. Onward(th, "shutdown") /\ call'[th].tmp = call[th].tmp
    BY <1>1, RetryLemma DEF Retry, Steps
  <2> QED
    BY <1>1, <2>1 DEF Retry, Onward, TypeOK
<1>2. CASE ~(isRunning /\ call[th].tries > 1)
  <2>1. Returns(th, ~isRunning)
    BY <1>2 DEF Retry
  <2>2. (~isRunning) \in BOOLEAN
    OBVIOUS
  <2> QED
    BY <2>1, <2>2, ReturnsLemma
<1> QED
  BY <1>1, <1>2

\* A call begins: the others go on, and the history has it if there are any.
LEMMA BeginLemma ==
  ASSUME TypeOK, NEW th \in Thread, NEW step \in {"create", "tickets", "close"}, NEW wait \in BOOLEAN,
         NEW closing \in BOOLEAN, call[th] = None,
         call' = [call EXCEPT ![th] = NewCall(step, wait, closing)]
  PROVE  /\ call' \in [Thread -> Call \cup {None}]
         /\ call'[th] # None /\ call'[th].step = step
         /\ \A u \in Thread \ {th} : call'[u] = call[u]
         /\ Serial' => Overlap = {} /\ StartRace = {}
<1>1. 0 \in 0 .. MaxRuns
  BY DispatchAssumption
<1>2. NewCall(step, wait, closing) \in Call /\ NewCall(step, wait, closing).step = step
  BY <1>1 DEF NewCall, Call, TypeOK
<1>3. /\ call' \in [Thread -> Call \cup {None}] /\ call'[th] = NewCall(step, wait, closing) /\ call'[th] # None
      /\ \A u \in Thread \ {th} : call'[u] = call[u]
  BY <1>2, ReplaceLemma
<1>4. Serial' => \A u \in Thread : call[u] = None
  BY <1>3 DEF Serial
<1> QED
  BY <1>2, <1>3, <1>4 DEF Overlap, StartRace, At

\* A call that is alone, before and after a step of it.
LEMMA AloneLemma ==
  ASSUME Serial, NEW th \in Thread, call[th] # None, NEW steps
  PROVE  /\ \A u \in Thread \ {th} : call[u] = None
         /\ Within(steps) <=> call[th].step \in steps
  BY DEF Serial, Within

\* It is the only one.
LEMMA OnwardLemma ==
  ASSUME Serial, NEW th \in Thread, call[th] # None, NEW step, Onward(th, step), NEW steps
  PROVE  /\ \A u \in Thread \ {th} : call'[u] = None
         /\ Within(steps)' <=> step \in steps
  BY DEF Serial, Within, Onward

\* start() begins only when there is no object.
LEMMA StartCheckInv ==
  ASSUME DispatchInv, Answers, Serial, Serial', NEW th \in Thread, StartCheck(th)
  PROVE  DispatchInv' /\ Answers'
<1> USE DispatchAssumption DEF DispatchInv, StartCheck, Begins, Idle, link, handle, dispatcher, history
<1>1. TypeOK'
  <2>1. call' \in [Thread -> Call \cup {None}]
    BY BeginLemma
  <2>2. lapses' \subseteq {"timeout", "spurious", "overlap", "race"}
    BY DEF TypeOK, Overlap, StartRace
  <2> QED
    BY <2>1, <2>2 DEF TypeOK
<1>2. ObjectsFit'
  BY DEF ObjectsFit
<1>3. CallsFit'
  BY DEF CallsFit, NewCall
<1>4. OnlyShared'
  BY DEF OnlyShared, Within, Alive, NewCall
<1>5. InStep'
  BY DEF InStep, Undisturbed
<1>6. Answers'
  BY DEF Answers, TrueMeansStopped, StopSucceeds, Undisturbed
<1>7. destroyed' => ~connected'
  BY DEF CallsFit
<1> QED
  BY <1>1, <1>2, <1>3, <1>4, <1>5, <1>6, <1>7

\* The object is new: its thread has not been started.
LEMMA StartCreateInv ==
  ASSUME DispatchInv, Answers, Serial, NEW th \in Thread, StartCreate(th)
  PROVE  DispatchInv' /\ Answers'
<1> USE DispatchAssumption DEF DispatchInv, StartCreate, At, link, dispatcher, history
<1>0. Onward(th, "launch")
  BY StepLemma DEF StartCreate, At, Steps
<1>1. TypeOK'
  BY <1>0 DEF TypeOK, Run, Onward
<1>2. ObjectsFit'
  BY DEF ObjectsFit, TypeOK, Run
<1>3. CallsFit'
  BY DEF TypeOK, CallsFit, Serial, Run, ObjectsFit
<1>4. OnlyShared'
  BY DEF OnlyShared, CallsFit, Within, Alive, Run
<1>5. InStep'
  <2>1. /\ Within({"launch"})' /\ ~Within({"close"})' /\ ~Within({"await_start"})'
        /\ ~Within({"launch"})
    BY <1>0, AloneLemma, OnwardLemma DEF At
  <2>2. connected' /\ shared' # 0 /\ shared = 0
    BY DEF CallsFit, At, TypeOK, link
  <2> QED
    BY <2>1, <2>2 DEF InStep, Undisturbed, history
<1>6. Answers'
  BY DEF Answers, TrueMeansStopped, StopSucceeds, Undisturbed
<1>7. destroyed' => ~connected'
  BY DEF CallsFit
<1> QED
  BY <1>1, <1>2, <1>3, <1>4, <1>5, <1>6, <1>7

\* The thread of the object starts; no other has not ended.
LEMMA StartLaunchInv ==
  ASSUME DispatchInv, Answers, Serial, NEW th \in Thread, StartLaunch(th)
  PROVE  DispatchInv' /\ Answers'
<1> USE DispatchAssumption DEF DispatchInv, StartLaunch, At, link, history
<1>0. Onward(th, "await_start") /\ call'[th].tmp = shared
  BY HoldLemma DEF StartLaunch, At, Steps, TypeOK
<1>00. /\ shared \in Run /\ disp[shared] = "none"
       /\ disp' = [disp EXCEPT ![shared] = "begin"]
  BY DEF CallsFit, At, TypeOK, Run
<1>1. TypeOK'
  BY <1>0 DEF TypeOK, Run, Onward
<1>2. ObjectsFit'
  BY <1>00 DEF ObjectsFit, TypeOK, dispatcher, handle
<1>3. CallsFit'
  <2>1. \A u \in Thread \ {th} : call'[u] = None
    BY <1>0, OnwardLemma DEF At
  <2> QED
    BY <1>0, <1>00, <2>1 DEF CallsFit, Onward, At, link
<1>4. OnlyShared'
  BY DEF TypeOK, OnlyShared, Within, Alive
<1>5. InStep'
  <2>1. /\ ~Within({"launch"})' /\ ~Within({"close"})' /\ Within({"await_start"})'
    BY <1>0, OnwardLemma DEF At
  <2>2. connected'
    BY DEF CallsFit, At
  <2>3. Alive(shared)' /\ disp'[shared'] = "begin"
    BY <1>00 DEF Alive, TypeOK
  <2> QED
    BY <1>00, <2>1, <2>2, <2>3, 0 \notin Run DEF InStep, Run
<1>6. Answers'
  BY DEF Answers, TrueMeansStopped, StopSucceeds, Undisturbed
<1>7. destroyed' => ~connected'
  BY DEF CallsFit
<1> QED
  BY <1>1, <1>2, <1>3, <1>4, <1>5, <1>6, <1>7

\* start() has seen the object's thread begin.
LEMMA StartReturnsInv ==
  ASSUME DispatchInv, Answers, Serial, NEW th \in Thread, StartReturns(th)
  PROVE  DispatchInv' /\ Answers'
<1> USE DispatchAssumption DEF DispatchInv, StartReturns, At, link, handle, dispatcher, history
<1>1. TypeOK'
  BY DEF TypeOK
<1>2. ObjectsFit'
  BY DEF ObjectsFit
<1>3. CallsFit'
  BY DEF CallsFit
<1>4. OnlyShared'
  BY DEF OnlyShared, Within, Alive
<1>5. InStep'
  BY DEF InStep, CallsFit, Within, Alive, Undisturbed
<1>6. Answers'
  BY DEF Answers, TrueMeansStopped, StopSucceeds, Undisturbed
<1>7. destroyed' => ~connected'
  BY DEF CallsFit
<1> QED
  BY <1>1, <1>2, <1>3, <1>4, <1>5, <1>6, <1>7

\* A timeout is a lapse.
LEMMA StartTimesOutInv ==
  ASSUME DispatchInv, Answers, Serial, NEW th \in Thread, StartTimesOut(th)
  PROVE  DispatchInv' /\ Answers'
<1> USE DispatchAssumption DEF DispatchInv, StartTimesOut, At, link, dispatcher
<1>1. TypeOK'
  BY DEF TypeOK
<1>2. ObjectsFit'
  BY DEF ObjectsFit
<1>3. CallsFit'
  BY DEF CallsFit, Serial
<1>4. OnlyShared'
  BY DEF OnlyShared, Within, Alive
<1>5. InStep'
  BY DEF InStep, Undisturbed
<1>6. Answers'
  BY DEF Answers, TrueMeansStopped, StopSucceeds, Undisturbed
<1>7. destroyed' => ~connected'
  BY DEF CallsFit
<1> QED
  BY <1>1, <1>2, <1>3, <1>4, <1>5, <1>6, <1>7

\* So is a spurious wakeup.
LEMMA StartWakesEarlyInv ==
  ASSUME DispatchInv, Answers, Serial, NEW th \in Thread, StartWakesEarly(th)
  PROVE  DispatchInv' /\ Answers'
<1> USE DispatchAssumption DEF DispatchInv, StartWakesEarly, At, link, handle, dispatcher
<1>1. TypeOK'
  BY DEF TypeOK
<1>2. ObjectsFit'
  BY DEF ObjectsFit
<1>3. CallsFit'
  BY DEF CallsFit
<1>4. OnlyShared'
  BY DEF OnlyShared
<1>5. InStep'
  BY DEF InStep, Undisturbed
<1>6. Answers'
  BY DEF Answers, TrueMeansStopped, StopSucceeds, Undisturbed
<1>7. destroyed' => ~connected'
  BY DEF CallsFit
<1> QED
  BY <1>1, <1>2, <1>3, <1>4, <1>5, <1>6, <1>7

\* stop() begins.
LEMMA StopInv ==
  ASSUME DispatchInv, Answers, Serial, Serial',
         NEW th \in Thread, NEW wait \in BOOLEAN, Stop(th, wait)
  PROVE  DispatchInv' /\ Answers'
<1> USE DispatchAssumption DEF DispatchInv, Stop, Begins, Idle, link, handle, dispatcher, history
<1>1. TypeOK'
  <2>1. call' \in [Thread -> Call \cup {None}]
    BY BeginLemma
  <2>2. lapses' \subseteq {"timeout", "spurious", "overlap", "race"}
    BY DEF TypeOK, Overlap
  <2> QED
    BY <2>1, <2>2 DEF TypeOK
<1>2. ObjectsFit'
  BY DEF ObjectsFit
<1>3. CallsFit'
  BY DEF CallsFit, NewCall
<1>4. OnlyShared'
  BY DEF OnlyShared, Within, Alive, NewCall
<1>5. InStep'
  BY DEF InStep, Within, Alive, NewCall, Undisturbed
<1>6. Answers'
  BY DEF Answers, TrueMeansStopped, StopSucceeds, Undisturbed
<1>7. destroyed' => ~connected'
  BY DEF CallsFit
<1> QED
  BY <1>1, <1>2, <1>3, <1>4, <1>5, <1>6, <1>7

\* stop() finds the object, or none.
LEMMA StopTicketsInv ==
  ASSUME DispatchInv, Answers, Serial, NEW th \in Thread, StopTickets(th)
  PROVE  DispatchInv' /\ Answers'
<1> USE DispatchAssumption DEF DispatchInv, StopTickets, At, Returns, link, handle, dispatcher
<1>0. \/ /\ shared = 0
         /\ call' \in [Thread -> Call \cup {None}]
         /\ answers' \subseteq [was : BOOLEAN, over : BOOLEAN, answer : BOOLEAN]
         /\ \A u \in Thread \ {th} : call'[u] = call[u]
         /\ call'[th] = None \/ Onward(th, "close")
      \/ /\ shared # 0
         /\ Onward(th, "shutdown") /\ call'[th].tmp = shared
         /\ UNCHANGED answers
  <2>1. CASE shared = 0
    BY <2>1, ReturnsLemma DEF At
  <2>2. CASE shared # 0
    BY <2>2, HoldLemma DEF At, Steps, TypeOK
  <2> QED
    BY <2>1, <2>2
<1>1. TypeOK'
  BY <1>0 DEF TypeOK, Onward
<1>2. ObjectsFit'
  BY DEF ObjectsFit
<1>3. CallsFit'
  BY DEF TypeOK, CallsFit, Call
<1>4. OnlyShared'
  BY DEF TypeOK, OnlyShared, Within, Alive, Call
<1>5. InStep'
  <2>1. \A u \in Thread \ {th} : call[u] = None /\ call'[u] = None
    BY <1>0, AloneLemma DEF At, Onward
  <2>2. /\ ~Within({"launch"}) /\ ~Within({"close"}) /\ ~Within({"await_start"})
        /\ ~Within({"await", "reset"})
    BY AloneLemma DEF At
  <2>3. /\ ~Within({"launch"})' /\ ~Within({"await_start"})'
        /\ ~Within({"await", "reset"})'
        /\ Within({"close"})' => shared = 0
    BY <1>0, <2>1 DEF Within, Onward
  <2> QED
    BY <2>2, <2>3 DEF InStep, Undisturbed, Alive, link, handle, dispatcher
<1>6. Answers'
  BY DEF Answers, TrueMeansStopped, StopSucceeds, InStep, CallsFit, Undisturbed
<1>7. destroyed' => ~connected'
  BY DEF CallsFit
<1> QED
  BY <1>1, <1>2, <1>3, <1>4, <1>5, <1>6, <1>7

\* The flag is cleared, and it is this stop() that waits for the end.
LEMMA ShutdownInv ==
  ASSUME DispatchInv, Answers, Serial, NEW th \in Thread, Shutdown(th)
  PROVE  DispatchInv' /\ Answers'
<1> USE DispatchAssumption DEF DispatchInv, Shutdown, At, link, handle, history
<1>0. Onward(th, "await") /\ call'[th].tmp = call[th].tmp
  BY StepLemma DEF Shutdown, At, Steps
<1>1. TypeOK'
  BY <1>0 DEF TypeOK, Run, Onward
<1>2. ObjectsFit'
  BY DEF ObjectsFit
<1>3. CallsFit'
  BY DEF CallsFit
<1>4. OnlyShared'
  BY DEF OnlyShared, Within, Alive
<1>5. InStep'
  <2>1. /\ ~Within({"launch"}) /\ ~Within({"await_start"})
        /\ ~Within({"launch"})' /\ ~Within({"close"})' /\ ~Within({"await_start"})'
        /\ Within({"await", "reset"})'
    BY <1>0, AloneLemma, OnwardLemma DEF At
  <2>2. connected'
    BY DEF CallsFit, At
  <2> QED
    BY <2>1, <2>2 DEF InStep, Undisturbed, handle, dispatcher, history
<1>6. Answers'
  BY DEF Answers, TrueMeansStopped, StopSucceeds, Undisturbed
<1>7. destroyed' => ~connected'
  BY DEF CallsFit
<1> QED
  BY <1>1, <1>2, <1>3, <1>4, <1>5, <1>6, <1>7

\* A flag that is FALSE already: the attempt has failed.
LEMMA ShutdownRefusedInv ==
  ASSUME DispatchInv, Answers, Serial, NEW th \in Thread, ShutdownRefused(th)
  PROVE  DispatchInv' /\ Answers'
<1> USE DispatchAssumption DEF DispatchInv, ShutdownRefused, At, Returns, Retry, link, handle,
        dispatcher
<1>0. /\ call' \in [Thread -> Call \cup {None}]
      /\ answers' \subseteq [was : BOOLEAN, over : BOOLEAN, answer : BOOLEAN]
      /\ \A u \in Thread \ {th} : call'[u] = call[u]
      /\ \/ call'[th] = None
         \/ Onward(th, "close")
         \/ Onward(th, "shutdown") /\ call'[th].tmp = call[th].tmp
  BY AttemptLemma
<1>1. TypeOK'
  BY <1>0 DEF TypeOK, Run
<1>2. ObjectsFit'
  BY DEF ObjectsFit
<1>3. CallsFit'
  BY DEF TypeOK, CallsFit, Serial, Call
<1>4. OnlyShared'
  BY DEF TypeOK, OnlyShared, Within, Alive, Call
<1>5. InStep'
  BY DEF TypeOK, InStep, CallsFit, ObjectsFit, Serial, Within, Run, Undisturbed
<1>6. Answers'
  <2>1. CASE UNCHANGED answers
    BY <2>1 DEF Answers, TrueMeansStopped, StopSucceeds, Undisturbed
  <2>2. CASE ~UNCHANGED answers
    <3> DEFINE over == call[th].tmp # 0 /\ disp[call[th].tmp] = "ended"
    <3>1. answers' = {[was |-> call[th].was, answer |-> ~isRunning, over |-> over]}
      BY <2>2 DEF Retry, Returns
    <3>2. call[th].was = isRunning
      BY DEF CallsFit, At
    <3>3. Undisturbed => ~call[th].was
      <4>1. ~Within({"await", "reset"}) /\ ~Within({"await_start"}) /\ ~Within({"launch"})
        BY AloneLemma DEF At
      <4>2. shared # 0 /\ shared = call[th].tmp /\ ~running[shared]
        BY DEF CallsFit, At
      <4>3. shared \in Run
        BY <4>2 DEF TypeOK, Run
      <4> QED
        BY <3>2, <4>1, <4>2, <4>3 DEF InStep, ObjectsFit
    <3> HIDE DEF over
    <3>4. ASSUME NEW a \in answers', a \notin answers
          PROVE  ~(a.was /\ a.answer) /\ (Undisturbed => ~a.was)
      <4>1. a.was = isRunning /\ a.answer = ~isRunning
        BY <3>1, <3>2, <3>4
      <4> QED
        BY <4>1, <3>2, <3>3
    <3> QED
      BY <3>4 DEF Answers, TrueMeansStopped, StopSucceeds, Undisturbed
  <2> QED
    BY <2>1, <2>2
<1>7. destroyed' => ~connected'
  BY DEF CallsFit
<1> QED
  BY <1>1, <1>2, <1>3, <1>4, <1>5, <1>6, <1>7

\* The latch is counted down by a thread that ends.
LEMMA StopAwaitedInv ==
  ASSUME DispatchInv, Answers, Serial, NEW th \in Thread, StopAwaited(th)
  PROVE  DispatchInv' /\ Answers'
<1> USE DispatchAssumption DEF DispatchInv, StopAwaited, At, link, handle, dispatcher, history,
        Completed
<1>0. Onward(th, "reset") /\ call'[th].tmp = call[th].tmp
  BY StepLemma DEF StopAwaited, At, Steps
<1>1. TypeOK'
  BY <1>0 DEF TypeOK, Run, Onward
<1>2. ObjectsFit'
  BY DEF ObjectsFit
<1>3. CallsFit'
  BY DEF CallsFit
<1>4. OnlyShared'
  BY DEF TypeOK, OnlyShared, CallsFit, ObjectsFit, Alive, Run
<1>5. InStep'
  <2>1. /\ ~Within({"launch"}) /\ ~Within({"await_start"})
        /\ ~Within({"launch"})' /\ ~Within({"close"})' /\ ~Within({"await_start"})'
        /\ Within({"await", "reset"})'
    BY <1>0, AloneLemma, OnwardLemma DEF At
  <2>2. connected'
    BY DEF CallsFit, At
  <2> QED
    BY <2>1, <2>2 DEF InStep, Undisturbed, handle, dispatcher, history
<1>6. Answers'
  BY DEF Answers, TrueMeansStopped, StopSucceeds, Undisturbed
<1>7. destroyed' => ~connected'
  BY DEF CallsFit
<1> QED
  BY <1>1, <1>2, <1>3, <1>4, <1>5, <1>6, <1>7

\* The attempt has failed, and there is a lapse.
LEMMA StopTimesOutInv ==
  ASSUME DispatchInv, Answers, Serial, NEW th \in Thread, StopTimesOut(th)
  PROVE  DispatchInv' /\ Answers'
<1> USE DispatchAssumption DEF DispatchInv, StopTimesOut, At, Returns, Retry, link, handle,
        dispatcher
<1>0. /\ call' \in [Thread -> Call \cup {None}]
      /\ answers' \subseteq [was : BOOLEAN, over : BOOLEAN, answer : BOOLEAN]
      /\ \A u \in Thread \ {th} : call'[u] = call[u]
      /\ \/ call'[th] = None
         \/ Onward(th, "close")
         \/ Onward(th, "shutdown") /\ call'[th].tmp = call[th].tmp
  BY AttemptLemma
<1>1. TypeOK'
  BY <1>0 DEF TypeOK, Run
<1>2. ObjectsFit'
  BY DEF ObjectsFit
<1>3. CallsFit'
  BY DEF TypeOK, CallsFit, Serial, NewCall, Call, Run, ObjectsFit
<1>4. OnlyShared'
  BY DEF TypeOK, OnlyShared, CallsFit, ObjectsFit, Serial, Within, Alive, NewCall, Call, Run
<1>5. InStep'
  BY DEF InStep, Undisturbed
<1>6. Answers'
  BY DEF Answers, TrueMeansStopped, StopSucceeds, TypeOK, InStep, OnlyShared, CallsFit, Serial,
         Within, Alive, Run, Undisturbed
<1>7. destroyed' => ~connected'
  BY DEF CallsFit
<1> QED
  BY <1>1, <1>2, <1>3, <1>4, <1>5, <1>6, <1>7

\* The wait ends for nothing.
LEMMA StopWakesEarlyInv ==
  ASSUME DispatchInv, Answers, Serial, NEW th \in Thread, StopWakesEarly(th)
  PROVE  DispatchInv' /\ Answers'
<1> USE DispatchAssumption DEF DispatchInv, StopWakesEarly, At, link, handle, dispatcher
<1>0. Onward(th, "reset") /\ call'[th].tmp = call[th].tmp
  BY StepLemma DEF StopWakesEarly, At, Steps
<1>1. TypeOK'
  BY <1>0 DEF TypeOK, Run, Onward
<1>2. ObjectsFit'
  BY DEF ObjectsFit
<1>3. CallsFit'
  BY DEF CallsFit
<1>4. OnlyShared'
  BY DEF OnlyShared
<1>5. InStep'
  BY DEF InStep, Undisturbed
<1>6. Answers'
  BY DEF Answers, TrueMeansStopped, StopSucceeds, Undisturbed
<1>7. destroyed' => ~connected'
  BY DEF CallsFit
<1> QED
  BY <1>1, <1>2, <1>3, <1>4, <1>5, <1>6, <1>7

\* The object that is let go has no thread any more.
LEMMA StopResetInv ==
  ASSUME DispatchInv, Answers, Serial, NEW th \in Thread, StopReset(th)
  PROVE  DispatchInv' /\ Answers'
<1> USE DispatchAssumption DEF DispatchInv, StopReset, At, Returns, link, dispatcher
<1>0. /\ call' \in [Thread -> Call \cup {None}]
      /\ answers' \subseteq [was : BOOLEAN, over : BOOLEAN, answer : BOOLEAN]
      /\ \A u \in Thread \ {th} : call'[u] = call[u]
      /\ call'[th] = None \/ Onward(th, "close")
  BY ReturnsLemma DEF At
<1>1. TypeOK'
  BY <1>0 DEF TypeOK
<1>2. ObjectsFit'
  BY DEF ObjectsFit, TypeOK
<1>3. CallsFit'
  BY DEF TypeOK, CallsFit, Serial, Call
<1>4. OnlyShared'
  <2>1. Within({"reset"}) /\ ~Within({"reset"})'
    <3>1. \A u \in Thread \ {th} : call'[u] = None
      BY <1>0, AloneLemma DEF At
    <3> QED
      BY <1>0, <3>1 DEF Within, Onward, At
  <2>2. "spurious" \notin lapses => \A k \in Run : ~Alive(k)
    BY <2>1 DEF OnlyShared, Alive
  <2> QED
    BY <2>1, <2>2 DEF OnlyShared, Alive
<1>5. InStep'
  BY DEF InStep
<1>6. Answers'
  BY DEF Answers, TrueMeansStopped, StopSucceeds, TypeOK, OnlyShared, CallsFit, Within,
         Undisturbed
<1>7. destroyed' => ~connected'
  BY DEF CallsFit
<1> QED
  BY <1>1, <1>2, <1>3, <1>4, <1>5, <1>6, <1>7

\* disconnect() begins with a stop() if there is a dispatcher.
LEMMA DisconnectInv ==
  ASSUME DispatchInv, Answers, Serial, Serial', NEW th \in Thread, Disconnect(th)
  PROVE  DispatchInv' /\ Answers'
<1> USE DispatchAssumption DEF DispatchInv, Disconnect, Begins, Idle, link, handle, dispatcher, history
<1>1. TypeOK'
  <2>1. call' \in [Thread -> Call \cup {None}]
    BY BeginLemma
  <2>2. lapses' \subseteq {"timeout", "spurious", "overlap", "race"}
    BY DEF TypeOK, Overlap
  <2> QED
    BY <2>1, <2>2 DEF TypeOK
<1>2. ObjectsFit'
  BY DEF ObjectsFit
<1>3. CallsFit'
  BY DEF CallsFit, NewCall
<1>4. OnlyShared'
  BY DEF OnlyShared, Within, Alive, NewCall
<1>5. InStep'
  <2>1. call'[th] # None /\ call'[th].step = IF isRunning THEN "tickets" ELSE "close"
    <3> DEFINE c == NewCall(IF isRunning THEN "tickets" ELSE "close", TRUE, TRUE)
    <3>1. c \in Call /\ c.step = IF isRunning THEN "tickets" ELSE "close"
      BY DEF NewCall, Call, TypeOK
    <3>2. call'[th] = c
      BY DEF TypeOK
    <3> QED
      BY <3>1, <3>2
  <2>2. \A u \in Thread : call[u] = None /\ (u # th => call'[u] = None)
    BY <2>1 DEF Serial, TypeOK
  <2>3. \A steps : ~Within(steps)
    BY <2>2 DEF Within
  <2>4. /\ ~Within({"launch"})' /\ ~Within({"await_start"})'
        /\ ~Within({"await", "reset"})'
        /\ Within({"close"})' => ~isRunning
    <3>1. call'[th].step \in {"tickets", "close"} /\ (isRunning => call'[th].step = "tickets")
      BY <2>1
    <3> QED
      BY <2>2, <3>1 DEF Within
  <2> QED
    BY <2>3, <2>4 DEF InStep, Undisturbed, Alive
<1>6. Answers'
  BY DEF Answers, TrueMeansStopped, StopSucceeds, Undisturbed
<1>7. destroyed' => ~connected'
  BY DEF CallsFit
<1> QED
  BY <1>1, <1>2, <1>3, <1>4, <1>5, <1>6, <1>7

\* The link is closed when the object has gone.
LEMMA CloseInv ==
  ASSUME DispatchInv, Answers, Serial, NEW th \in Thread, Close(th)
  PROVE  DispatchInv' /\ Answers'
<1> USE DispatchAssumption DEF DispatchInv, Close, At, handle, dispatcher, history
<1>1. TypeOK'
  BY DEF TypeOK
<1>2. ObjectsFit'
  BY DEF ObjectsFit
<1>3. CallsFit'
  BY DEF TypeOK, CallsFit, Serial
<1>4. OnlyShared'
  BY DEF OnlyShared, Within, Alive
<1>5. InStep'
  BY DEF InStep, Within, Undisturbed
<1>6. Answers'
  BY DEF Answers, TrueMeansStopped, StopSucceeds, Undisturbed
<1>7. destroyed' => ~connected'
  BY DEF CallsFit
<1> QED
  BY <1>1, <1>2, <1>3, <1>4, <1>5, <1>6, <1>7

\* connect() changes no more than the link.
LEMMA ConnectInv ==
  ASSUME DispatchInv, Answers, Serial, NEW th \in Thread, Connect(th)
  PROVE  DispatchInv' /\ Answers'
<1> USE DispatchAssumption DEF DispatchInv, Connect, Idle, handle, dispatcher, history
<1>1. TypeOK'
  BY DEF TypeOK
<1>2. ObjectsFit'
  BY DEF ObjectsFit
<1>3. CallsFit'
  BY DEF CallsFit
<1>4. OnlyShared'
  BY DEF OnlyShared, Within, Alive
<1>5. InStep'
  BY DEF InStep, Undisturbed
<1>6. Answers'
  BY DEF Answers, TrueMeansStopped, StopSucceeds, Undisturbed
<1>7. destroyed' => ~connected'
  BY DEF CallsFit
<1> QED
  BY <1>1, <1>2, <1>3, <1>4, <1>5, <1>6, <1>7

\* The destructor changes no more than `destroyed`.
LEMMA DestroyInv ==
  ASSUME DispatchInv, Answers, Serial, Destroy
  PROVE  DispatchInv' /\ Answers'
<1> USE DispatchAssumption DEF DispatchInv, Destroy, Idle, handle, dispatcher, history
<1>1. TypeOK'
  BY DEF TypeOK
<1>2. ObjectsFit'
  BY DEF ObjectsFit
<1>3. CallsFit'
  BY DEF CallsFit
<1>4. OnlyShared'
  BY DEF OnlyShared, Within, Alive
<1>5. InStep'
  BY DEF InStep, Undisturbed
<1>6. Answers'
  BY DEF Answers, TrueMeansStopped, StopSucceeds, Undisturbed
<1>7. destroyed' => ~connected'
  BY DEF CallsFit
<1> QED
  BY <1>1, <1>2, <1>3, <1>4, <1>5, <1>6, <1>7

\* The thread of an object begins.
LEMMA BeginInv ==
  ASSUME DispatchInv, Answers, Serial, NEW k \in Run, Begin(k)
  PROVE  DispatchInv' /\ Answers'
<1> USE DispatchAssumption DEF DispatchInv, Begin, link, handle, history
<1>1. TypeOK'
  BY DEF TypeOK
<1>2. ObjectsFit'
  BY DEF ObjectsFit, TypeOK
<1>3. CallsFit'
  BY DEF TypeOK, CallsFit, Run
<1>4. OnlyShared'
  BY DEF TypeOK, OnlyShared, Within, Alive
<1>5. InStep'
  <2> SUFFICES ASSUME Undisturbed PROVE InStep'
    BY DEF InStep, Undisturbed
  <2>1. \A steps : Within(steps)' <=> Within(steps)
    BY DEF Within
  <2>2. k = shared
    BY DEF OnlyShared, Undisturbed, Alive
  <2>3. /\ disp'[k] \in {"began", "loop"} /\ Alive(k)'
        /\ startup[k] => startup'[k]
        /\ running'[k]
    <3>1. CASE disp[k] = "begin"
      BY <3>1 DEF TypeOK, Alive
    <3>2. CASE disp[k] = "began"
      <4>1. running[k]
        <5>1. ~startup[k]
          BY <3>2 DEF ObjectsFit
        <5>2. shared # 0 /\ ~Within({"launch"})
          BY <2>2, <3>2 DEF Run, Within, CallsFit
        <5>3. Within({"await_start"})
          BY <2>2, <5>1, <5>2 DEF InStep
        <5>4. ~Within({"await", "reset"})
          BY <5>3 DEF Within, Serial
        <5> QED
          BY <2>2, <3>2, <5>2, <5>4 DEF InStep
      <4> QED
        BY <3>2, <4>1 DEF TypeOK, Alive
    <3> QED
      BY <3>1, <3>2
  <2> QED
    BY <2>1, <2>2, <2>3 DEF InStep, Undisturbed
<1>6. Answers'
  BY DEF Answers, TrueMeansStopped, StopSucceeds, Undisturbed
<1>7. destroyed' => ~connected'
  BY DEF CallsFit
<1> QED
  BY <1>1, <1>2, <1>3, <1>4, <1>5, <1>6, <1>7

\* It enters its loop.
LEMMA LoopInv ==
  ASSUME DispatchInv, Answers, Serial, NEW k \in Run, Loop(k)
  PROVE  DispatchInv' /\ Answers'
<1> USE DispatchAssumption DEF DispatchInv, Loop, link, handle, history
<1>1. TypeOK'
  BY DEF TypeOK
<1>2. ObjectsFit'
  BY DEF ObjectsFit
<1>3. CallsFit'
  BY DEF CallsFit
<1>4. OnlyShared'
  BY DEF OnlyShared, Within, Alive
<1>5. InStep'
  BY DEF InStep, Within, Alive, Undisturbed
<1>6. Answers'
  BY DEF Answers, TrueMeansStopped, StopSucceeds, Undisturbed
<1>7. destroyed' => ~connected'
  BY DEF CallsFit
<1> QED
  BY <1>1, <1>2, <1>3, <1>4, <1>5, <1>6, <1>7

\* It ends, and says so.
LEMMA LoopEndsInv ==
  ASSUME DispatchInv, Answers, Serial, NEW k \in Run, LoopEnds(k)
  PROVE  DispatchInv' /\ Answers'
<1> USE DispatchAssumption DEF DispatchInv, LoopEnds, link, handle, history
<1>1. TypeOK'
  BY DEF TypeOK
<1>2. ObjectsFit'
  BY DEF ObjectsFit, TypeOK
<1>3. CallsFit'
  BY DEF CallsFit
<1>4. OnlyShared'
  BY DEF TypeOK, OnlyShared, Alive
<1>5. InStep'
  BY DEF InStep, Within, Alive, Undisturbed
<1>6. Answers'
  BY DEF Answers, TrueMeansStopped, StopSucceeds, Undisturbed
<1>7. destroyed' => ~connected'
  BY DEF CallsFit
<1> QED
  BY <1>1, <1>2, <1>3, <1>4, <1>5, <1>6, <1>7

\* It ends without saying so: only after a lapse.
LEMMA AutoThrowsInv ==
  ASSUME DispatchInv, Answers, Serial, NEW k \in Run, AutoThrows(k)
  PROVE  DispatchInv' /\ Answers'
<1> USE DispatchAssumption DEF DispatchInv, AutoThrows, link, handle, history
<1>1. TypeOK'
  BY DEF TypeOK
<1>2. ObjectsFit'
  BY DEF ObjectsFit
<1>3. CallsFit'
  BY DEF CallsFit
<1>4. OnlyShared'
  BY DEF TypeOK, OnlyShared, Alive
<1>5. InStep'
  BY DEF InStep, Within, Undisturbed
<1>6. Answers'
  BY DEF Answers, TrueMeansStopped, StopSucceeds, Undisturbed
<1>7. destroyed' => ~connected'
  BY DEF CallsFit
<1> QED
  BY <1>1, <1>2, <1>3, <1>4, <1>5, <1>6, <1>7

\* It takes the ticket.
LEMMA AutoDispatchInv ==
  ASSUME DispatchInv, Answers, Serial, NEW k \in Run, AutoDispatch(k)
  PROVE  DispatchInv' /\ Answers'
<1> USE DispatchAssumption DEF DispatchInv, AutoDispatch, link, handle, history
<1>1. TypeOK'
  BY DEF TypeOK, Run
<1>2. ObjectsFit'
  BY DEF ObjectsFit
<1>3. CallsFit'
  <2>1. shared \in Run /\ disp[shared] = "none" => disp'[shared] = "none"
    BY DEF TypeOK
  <2>2. UNCHANGED <<connected, isRunning, shared, call>>
    OBVIOUS
  <2>3. shared # 0 => shared \in Run
    BY DEF TypeOK, Run
  <2> HIDE DEF AutoDispatch
  <2> QED
    BY <2>1, <2>2, <2>3 DEF CallsFit
<1>4. OnlyShared'
  BY DEF OnlyShared, Within, Alive
<1>5. InStep'
  BY DEF InStep, Within, Alive, Undisturbed
<1>6. Answers'
  BY DEF Answers, TrueMeansStopped, StopSucceeds, Undisturbed
<1>7. destroyed' => ~connected'
  BY DEF CallsFit
<1> QED
  BY <1>1, <1>2, <1>3, <1>4, <1>5, <1>6, <1>7

\* It calls back.
LEMMA DeliverInv ==
  ASSUME DispatchInv, Answers, Serial, NEW k \in Run, Deliver(k)
  PROVE  DispatchInv' /\ Answers'
<1> USE DispatchAssumption DEF DispatchInv, Deliver, link, handle, history
<1>1. TypeOK'
  BY DEF TypeOK
<1>2. ObjectsFit'
  BY DEF ObjectsFit
<1>3. CallsFit'
  BY DEF CallsFit
<1>4. OnlyShared'
  BY DEF OnlyShared, Within, Alive
<1>5. InStep'
  BY DEF InStep, Within, Alive, Undisturbed
<1>6. Answers'
  BY DEF Answers, TrueMeansStopped, StopSucceeds, Undisturbed
<1>7. destroyed' => ~connected'
  BY DEF CallsFit
<1> QED
  BY <1>1, <1>2, <1>3, <1>4, <1>5, <1>6, <1>7

\* It leaves the ticket.
LEMMA RoundEndsInv ==
  ASSUME DispatchInv, Answers, Serial, NEW k \in Run, RoundEnds(k)
  PROVE  DispatchInv' /\ Answers'
<1> USE DispatchAssumption DEF DispatchInv, RoundEnds, link, handle, history
<1>1. TypeOK'
  BY DEF TypeOK
<1>2. ObjectsFit'
  BY DEF ObjectsFit
<1>3. CallsFit'
  BY DEF CallsFit
<1>4. OnlyShared'
  BY DEF OnlyShared, Within, Alive
<1>5. InStep'
  BY DEF InStep, Within, Alive, Undisturbed
<1>6. Answers'
  BY DEF Answers, TrueMeansStopped, StopSucceeds, Undisturbed
<1>7. destroyed' => ~connected'
  BY DEF CallsFit
<1> QED
  BY <1>1, <1>2, <1>3, <1>4, <1>5, <1>6, <1>7

\* Every step keeps the invariant.
LEMMA StepInv ==
  ASSUME DispatchInv, Answers, Serial, Serial', [Next]_vars
  PROVE  DispatchInv' /\ Answers'
<1>1. ASSUME NEW th \in Thread, StartSteps(th)
      PROVE  DispatchInv' /\ Answers'
  BY <1>1, StartCheckInv, StartCreateInv, StartLaunchInv, StartReturnsInv, StartTimesOutInv,
     StartWakesEarlyInv DEF StartSteps
<1>2. ASSUME NEW th \in Thread, NEW wait \in Waits, Stop(th, wait)
      PROVE  DispatchInv' /\ Answers'
  BY <1>2, StopInv, DispatchAssumption
<1>3. ASSUME NEW th \in Thread, StopSteps(th)
      PROVE  DispatchInv' /\ Answers'
  BY <1>3, StopTicketsInv, ShutdownInv, ShutdownRefusedInv, StopAwaitedInv, StopResetInv
     DEF StopSteps
<1>4. ASSUME NEW th \in Thread, StopTimesOut(th) \/ StopWakesEarly(th)
      PROVE  DispatchInv' /\ Answers'
  BY <1>4, StopTimesOutInv, StopWakesEarlyInv
<1>5. ASSUME NEW th \in Thread, Disconnect(th) \/ Close(th) \/ Connect(th)
      PROVE  DispatchInv' /\ Answers'
  BY <1>5, DisconnectInv, CloseInv, ConnectInv
<1>6. ASSUME NEW k \in Run, DispatcherSteps(k)
      PROVE  DispatchInv' /\ Answers'
  BY <1>6, BeginInv, LoopInv, LoopEndsInv, AutoThrowsInv, AutoDispatchInv, DeliverInv, RoundEndsInv
     DEF DispatcherSteps
<1>7. CASE Destroy
  BY <1>7, DestroyInv
<1>8. CASE UNCHANGED vars
  <2> USE <1>8 DEF DispatchInv, vars, link, handle, dispatcher, history
  <2>1. TypeOK' /\ ObjectsFit' /\ (destroyed' => ~connected')
    BY DEF TypeOK, ObjectsFit
  <2>2. CallsFit'
    BY DEF CallsFit
  <2>3. OnlyShared' /\ InStep'
    BY DEF OnlyShared, InStep, Within, Alive, Undisturbed
  <2>4. Answers'
    BY DEF Answers, TrueMeansStopped, StopSucceeds, Undisturbed
  <2> QED
    BY <2>1, <2>2, <2>3, <2>4
<1> QED
  BY <1>1, <1>2, <1>3, <1>4, <1>5, <1>6, <1>7, <1>8 DEF Next

\* The invariant holds to begin with.
LEMMA InitInv ==
  ASSUME Init
  PROVE  DispatchInv /\ Answers
<1> USE DispatchAssumption DEF Init
<1>1. TypeOK
  <2>1. shared \in 0 .. MaxRuns /\ created \in 0 .. MaxRuns /\ ticket \in 0 .. MaxRuns
    OBVIOUS
  <2>2. call \in [Thread -> Call \cup {None}]
    OBVIOUS
  <2> QED
    BY <2>1, <2>2 DEF TypeOK
<1>2. ObjectsFit /\ CallsFit
  BY DEF ObjectsFit, CallsFit, Run
<1>3. \A steps : ~Within(steps)
  BY DEF Within
<1>4. OnlyShared /\ InStep
  BY <1>3 DEF OnlyShared, InStep, Alive, Run
<1>5. Answers
  BY DEF Answers, TrueMeansStopped, StopSucceeds
<1> QED
  BY <1>1, <1>2, <1>4, <1>5 DEF DispatchInv

\* The variables stay in their types, however calls overlap: a step of start(),
LEMMA StartType ==
  ASSUME TypeOK, NEW th \in Thread, StartSteps(th)
  PROVE  TypeOK'
<1> USE DispatchAssumption DEF link, handle, dispatcher, history
<1>1. CASE StartCheck(th)
  <2>1. call' \in [Thread -> Call \cup {None}]
    BY <1>1, BeginLemma DEF StartCheck, Begins, Idle
  <2>2. lapses' \subseteq {"timeout", "spurious", "overlap", "race"}
    BY <1>1 DEF StartCheck, TypeOK, Overlap, StartRace
  <2> QED
    BY <1>1, <2>1, <2>2 DEF StartCheck, TypeOK
<1>2. CASE StartCreate(th)
  <2>1. Onward(th, "launch")
    BY <1>2, StepLemma DEF StartCreate, At, Steps
  <2> QED
    BY <1>2, <2>1 DEF StartCreate, TypeOK, Onward
<1>3. CASE StartLaunch(th)
  <2>1. Onward(th, "await_start")
    BY <1>3, HoldLemma DEF StartLaunch, At, Steps, TypeOK
  <2>2. shared \in Run
    BY <1>3 DEF StartLaunch, TypeOK, Run
  <2> QED
    BY <1>3, <2>1, <2>2 DEF StartLaunch, TypeOK, Onward
<1>4. CASE StartReturns(th)
  BY <1>4 DEF StartReturns, TypeOK
<1>5. CASE StartTimesOut(th)
  BY <1>5 DEF StartTimesOut, TypeOK
<1>6. CASE StartWakesEarly(th)
  BY <1>6 DEF StartWakesEarly, TypeOK
<1> QED
  BY <1>1, <1>2, <1>3, <1>4, <1>5, <1>6 DEF StartSteps

\* of stop(),
LEMMA StopType ==
  ASSUME TypeOK, Holds, NEW th \in Thread,
         \/ \E wait \in Waits : Stop(th, wait)
         \/ StopSteps(th) \/ StopTimesOut(th) \/ StopWakesEarly(th)
  PROVE  TypeOK'
<1> USE DispatchAssumption DEF link, handle, dispatcher, history
<1>1. CASE \E wait \in Waits : Stop(th, wait)
  <2>1. PICK wait \in Waits : Stop(th, wait)
    BY <1>1
  <2>2. call' \in [Thread -> Call \cup {None}]
    BY <2>1, BeginLemma DEF Stop, Begins, Idle
  <2>3. lapses' \subseteq {"timeout", "spurious", "overlap", "race"}
    BY <2>1 DEF Stop, TypeOK, Overlap
  <2> QED
    BY <2>1, <2>2, <2>3 DEF Stop, TypeOK
<1>2. CASE StopTickets(th)
  <2>1. CASE shared = 0
    BY <1>2, <2>1, ReturnsLemma DEF StopTickets, At, TypeOK
  <2>2. CASE shared # 0
    <3>1. Onward(th, "shutdown")
      BY <1>2, <2>2, HoldLemma DEF StopTickets, At, Steps, TypeOK
    <3> QED
      BY <1>2, <2>2, <3>1 DEF StopTickets, TypeOK, Onward
  <2> QED
    BY <2>1, <2>2
<1>3. CASE Shutdown(th)
  <2>1. Onward(th, "await")
    BY <1>3, StepLemma DEF Shutdown, At, Steps
  <2> QED
    BY <1>3, <2>1 DEF Shutdown, TypeOK, Onward
<1>4. CASE ShutdownRefused(th)
  BY <1>4, AttemptLemma DEF ShutdownRefused, At, TypeOK
<1>5. CASE StopAwaited(th)
  <2>1. Onward(th, "reset")
    BY <1>5, StepLemma DEF StopAwaited, At, Steps
  <2> QED
    BY <1>5, <2>1 DEF StopAwaited, TypeOK, Onward
<1>6. CASE StopReset(th)
  BY <1>6, ReturnsLemma DEF StopReset, At, TypeOK
<1>7. CASE StopTimesOut(th)
  BY <1>7, AttemptLemma DEF StopTimesOut, At, TypeOK
<1>8. CASE StopWakesEarly(th)
  <2>1. Onward(th, "reset")
    BY <1>8, StepLemma DEF StopWakesEarly, At, Steps
  <2> QED
    BY <1>8, <2>1 DEF StopWakesEarly, TypeOK, Onward
<1> QED
  BY <1>1, <1>2, <1>3, <1>4, <1>5, <1>6, <1>7, <1>8 DEF StopSteps

\* of disconnect(), connect() and the destructor,
LEMMA LinkType ==
  ASSUME TypeOK, NEW th \in Thread, Disconnect(th) \/ Close(th) \/ Connect(th) \/ Destroy
  PROVE  TypeOK'
<1> USE DispatchAssumption DEF link, handle, dispatcher, history
<1>1. CASE Disconnect(th)
  <2>1. call' \in [Thread -> Call \cup {None}]
    BY <1>1, BeginLemma DEF Disconnect, Begins, Idle
  <2>2. lapses' \subseteq {"timeout", "spurious", "overlap", "race"}
    BY <1>1 DEF Disconnect, TypeOK, Overlap
  <2> QED
    BY <1>1, <2>1, <2>2 DEF Disconnect, TypeOK
<1>2. CASE Close(th)
  BY <1>2 DEF Close, TypeOK
<1>3. CASE Connect(th)
  BY <1>3 DEF Connect, TypeOK
<1>4. CASE Destroy
  BY <1>4 DEF Destroy, TypeOK
<1> QED
  BY <1>1, <1>2, <1>3, <1>4

\* or of an object's thread.
LEMMA ThreadType ==
  ASSUME TypeOK, NEW k \in Run, DispatcherSteps(k)
  PROVE  TypeOK'
<1> USE DispatchAssumption DEF link, handle, history
<1>1. k \in 0 .. MaxRuns
  BY DEF Run
<1>2. CASE Begin(k) \/ Loop(k) \/ LoopEnds(k) \/ AutoThrows(k)
  BY <1>2 DEF Begin, Loop, LoopEnds, AutoThrows, TypeOK
<1>3. CASE AutoDispatch(k)
  BY <1>1, <1>3 DEF AutoDispatch, TypeOK
<1>4. CASE Deliver(k)
  BY <1>4 DEF Deliver, TypeOK
<1>5. CASE RoundEnds(k)
  BY <1>5 DEF RoundEnds, TypeOK
<1> QED
  BY <1>2, <1>3, <1>4, <1>5 DEF DispatcherSteps

\* The parts of ObjectInv beside the types.
Parts == OneStarter /\ OneObject /\ ThreadsFit /\ Holds

\* A step by which a call ends, or goes to a place where it does not touch the object.
LEMMA LeaveLemma ==
  ASSUME ObjectInv, NEW th \in Thread,
         UNCHANGED <<shared, running, shutdown, disp>>, lapses \subseteq lapses',
         \A u \in Thread \ {th} : call'[u] = call[u],
         \/ call'[th] = None
         \/ call'[th].step \in {"tickets", "close"}
         \/ call'[th].step = "shutdown" /\ call'[th].tmp # 0
  PROVE  Parts'
<1> USE DEF ObjectInv
<1>1. OneStarter'
  BY DEF OneStarter, At
<1>2. OneObject'
  <2>1. ~Stopping(th)'
    BY DEF Stopping
  <2>2. \A u \in Thread \ {th} : Stopping(u)' <=> Stopping(u)
    BY DEF Stopping
  <2> QED
    BY <2>1, <2>2 DEF OneObject, Alive
<1>3. ThreadsFit' /\ Holds'
  BY DEF ThreadsFit, Holds
<1> QED
  BY <1>1, <1>2, <1>3 DEF Parts

\* A step of the thread of an object.
LEMMA ThreadLemma ==
  ASSUME ObjectInv, NEW k \in Run, Alive(k), NEW d, d \notin {"none", "begin"},
         disp' = [disp EXCEPT ![k] = d], UNCHANGED <<shared, call, lapses>>,
         \A j \in Run : running'[j] => running[j] \/ j = k,
         \A j \in Run : shutdown'[j] => shutdown[j] \/ (j = k /\ d = "ended"),
         running'[k] => running[k] \/ disp[k] = "begin"
  PROVE  Parts'
<1> USE DEF ObjectInv
<1>1. /\ disp'[k] = d
      /\ \A j \in Run \ {k} : disp'[j] = disp[j]
  BY DEF TypeOK
<1>2. OneStarter' /\ Holds'
  BY DEF OneStarter, Holds, At
<1>3. ThreadsFit'
  BY <1>1 DEF ThreadsFit, Alive
<1>4. OneObject'
  <2> SUFFICES ASSUME lapses \cap {"spurious", "race"} = {}
               PROVE  /\ \A j \in Run : Alive(j)' \/ running'[j] => j = shared
                      /\ \A th \in Thread : Stopping(th) =>
                           /\ shared # 0 /\ call[th].tmp = shared
                           /\ ~running'[shared] /\ disp'[shared] \notin {"none", "begin"}
                           /\ \A u \in Thread : Stopping(u) => u = th
                           /\ call[th].step = "reset" => disp'[shared] = "ended"
    BY DEF OneObject, Stopping
  <2>1. k = shared
    BY DEF OneObject
  <2>2. \A j \in Run : Alive(j)' \/ running'[j] => j = shared
    BY <1>1, <2>1 DEF OneObject, Alive
  <2>3. ASSUME NEW th \in Thread, Stopping(th)
        PROVE  /\ shared # 0 /\ call[th].tmp = shared
               /\ ~running'[shared] /\ disp'[shared] \notin {"none", "begin"}
               /\ \A u \in Thread : Stopping(u) => u = th
               /\ call[th].step = "reset" => disp'[shared] = "ended"
    BY <1>1, <2>1, <2>3 DEF OneObject, Alive
  <2> QED
    BY <2>2, <2>3
<1> QED
  BY <1>2, <1>3, <1>4 DEF Parts

\* start() makes an object when there is none, and nobody else does.
LEMMA StartParts ==
  ASSUME ObjectInv, NEW th \in Thread, StartSteps(th)
  PROVE  Parts'
<1> USE DispatchAssumption DEF ObjectInv, link, handle, dispatcher, history
<1>1. CASE StartCheck(th)
  <2>1. /\ call'[th] # None /\ call'[th].step = "create"
        /\ \A u \in Thread \ {th} : call'[u] = call[u]
    BY <1>1, BeginLemma DEF StartCheck, Begins, Idle
  <2>2. OneStarter'
    BY <1>1, <2>1 DEF StartCheck, OneStarter, StartRace, At
  <2>3. ~Stopping(th)' /\ \A u \in Thread \ {th} : Stopping(u)' <=> Stopping(u)
    BY <2>1 DEF Stopping
  <2>4. OneObject'
    BY <1>1, <2>1, <2>3 DEF StartCheck, OneObject, Alive
  <2>5. ThreadsFit' /\ Holds'
    BY <1>1, <2>1 DEF StartCheck, ThreadsFit, Holds
  <2> QED
    BY <2>2, <2>4, <2>5 DEF Parts
<1>2. CASE StartCreate(th)
  <2>1. Onward(th, "launch")
    BY <1>2, StepLemma DEF StartCreate, At, Steps
  <2>2. OneStarter'
    BY <1>2, <2>1 DEF StartCreate, OneStarter, At, Onward
  <2>3. lapses \cap {"spurious", "race"} = {} =>
          /\ \A k \in Run : ~Alive(k) /\ ~running[k]
          /\ \A u \in Thread : ~Stopping(u)
    <3>1. lapses \cap {"spurious", "race"} = {} => shared = 0
      BY <1>2 DEF StartCreate, OneStarter
    <3> QED
      BY <3>1 DEF OneObject, Run
  <2>4. \A u \in Thread : Stopping(u)' => Stopping(u)
    BY <2>1 DEF Stopping, Onward
  <2>5. OneObject'
    BY <1>2, <2>3, <2>4 DEF StartCreate, OneObject, Alive
  <2>6. ThreadsFit' /\ Holds'
    BY <1>2, <2>1 DEF StartCreate, ThreadsFit, Holds, Onward
  <2> QED
    BY <2>2, <2>5, <2>6 DEF Parts
<1>3. CASE StartLaunch(th)
  <2>1. Onward(th, "await_start")
    BY <1>3, HoldLemma DEF StartLaunch, At, Steps, TypeOK
  <2>2. shared \in Run
    BY <1>3 DEF StartLaunch, TypeOK, Run
  <2>3. OneStarter'
    BY <1>3, <2>1 DEF StartLaunch, OneStarter, At, Onward
  <2>4. /\ \A k \in Run : disp'[k] # disp[k] => k = shared /\ disp[k] = "none"
        /\ \A k \in Run : disp[k] = "none" /\ running[k] => FALSE
    BY <1>3, <2>2 DEF StartLaunch, TypeOK, ThreadsFit
  <2>5. ~Stopping(th)' /\ \A u \in Thread \ {th} : Stopping(u)' <=> Stopping(u)
    BY <2>1 DEF Stopping, Onward
  <2>6. OneObject'
    BY <1>3, <2>1, <2>2, <2>4, <2>5 DEF StartLaunch, OneObject, Alive, Onward
  <2>7. ThreadsFit' /\ Holds'
    BY <1>3, <2>1, <2>4 DEF StartLaunch, ThreadsFit, Holds, Onward
  <2> QED
    BY <2>3, <2>6, <2>7 DEF Parts
<1>4. CASE StartReturns(th) \/ StartTimesOut(th) \/ StartWakesEarly(th)
  <2>1. call' = [call EXCEPT ![th] = None]
    BY <1>4 DEF StartReturns, StartTimesOut, StartWakesEarly
  <2>2. UNCHANGED <<shared, running, shutdown, disp>> /\ lapses \subseteq lapses'
    BY <1>4 DEF StartReturns, StartTimesOut, StartWakesEarly
  <2> QED
    BY <2>1, <2>2, ReturnLemma, LeaveLemma
<1> QED
  BY <1>1, <1>2, <1>3, <1>4 DEF StartSteps

\* One stop() at a time gets to tell the thread to end, and lets go of the object when
\* the thread has.
LEMMA StopParts ==
  ASSUME ObjectInv, NEW th \in Thread,
         \/ \E wait \in Waits : Stop(th, wait)
         \/ StopSteps(th) \/ StopTimesOut(th) \/ StopWakesEarly(th)
  PROVE  Parts'
<1> USE DispatchAssumption DEF ObjectInv, link, handle, dispatcher, history
<1>1. CASE \E wait \in Waits : Stop(th, wait)
  <2>1. PICK wait \in Waits : Stop(th, wait)
    BY <1>1
  <2>2. /\ call'[th].step = "tickets"
        /\ \A u \in Thread \ {th} : call'[u] = call[u]
    BY <2>1, BeginLemma DEF Stop, Begins, Idle
  <2> QED
    BY <2>1, <2>2, LeaveLemma DEF Stop
<1>2. CASE StopTickets(th)
  <2>1. CASE shared = 0
    <3>1. /\ \A u \in Thread \ {th} : call'[u] = call[u]
          /\ call'[th] = None \/ call'[th].step = "close"
      BY <1>2, <2>1, ReturnsLemma DEF StopTickets, At, Onward
    <3> QED
      BY <1>2, <3>1, LeaveLemma DEF StopTickets
  <2>2. CASE shared # 0
    <3>1. Onward(th, "shutdown") /\ call'[th].tmp = shared
      BY <1>2, <2>2, HoldLemma DEF StopTickets, At, Steps, TypeOK
    <3> QED
      BY <1>2, <2>2, <3>1, LeaveLemma DEF StopTickets, Onward
  <2> QED
    BY <2>1, <2>2
<1>3. CASE Shutdown(th)
  <2>1. Onward(th, "await") /\ call'[th].tmp = call[th].tmp
    BY <1>3, StepLemma DEF Shutdown, At, Steps
  <2>2. call[th].tmp \in Run
    <3>1. call[th] \in Call
      BY <1>3 DEF TypeOK, Shutdown, At
    <3>2. call[th].tmp # 0 /\ call[th].tmp \in 0 .. MaxRuns
      BY <1>3, <3>1 DEF Holds, Shutdown, At, Call
    <3> QED
      BY <3>2 DEF Run
  <2>3. /\ ~running'[call[th].tmp]
        /\ \A k \in Run : running'[k] => running[k]
    BY <1>3, <2>2 DEF Shutdown, TypeOK
  <2>4. OneStarter'
    BY <1>3, <2>1 DEF Shutdown, OneStarter, At, Onward
  <2>5. lapses \cap {"spurious", "race"} = {} =>
          /\ call[th].tmp = shared /\ shared # 0 /\ disp[shared] \notin {"none", "begin"}
          /\ \A u \in Thread : ~Stopping(u)
    <3>1. running[call[th].tmp]
      BY <1>3 DEF Shutdown
    <3> QED
      BY <2>2, <3>1, 0 \notin Run DEF OneObject, ThreadsFit, Run
  <2>6. \A u \in Thread \ {th} : Stopping(u)' <=> Stopping(u)
    BY <2>1 DEF Stopping, Onward
  <2>7. OneObject'
    BY <1>3, <2>1, <2>2, <2>3, <2>5, <2>6 DEF Shutdown, OneObject, Alive, Onward
  <2>8. ThreadsFit' /\ Holds'
    BY <1>3, <2>1, <2>2, <2>3 DEF Shutdown, ThreadsFit, Holds, Onward, Run
  <2> QED
    BY <2>4, <2>7, <2>8 DEF Parts
<1>4. CASE ShutdownRefused(th) \/ StopTimesOut(th)
  <2>1. /\ \A u \in Thread \ {th} : call'[u] = call[u]
        /\ \/ call'[th] = None
           \/ Onward(th, "close")
           \/ Onward(th, "shutdown") /\ call'[th].tmp = call[th].tmp
    BY <1>4, AttemptLemma DEF ShutdownRefused, StopTimesOut, At
  <2>2. call[th].tmp # 0
    BY <1>4 DEF Holds, ShutdownRefused, StopTimesOut, At
  <2>3. UNCHANGED <<shared, running, shutdown, disp>> /\ lapses \subseteq lapses'
    BY <1>4 DEF ShutdownRefused, StopTimesOut
  <2> QED
    BY <2>1, <2>2, <2>3, LeaveLemma DEF Onward
<1>5. CASE StopAwaited(th) \/ StopWakesEarly(th)
  <2>1. Onward(th, "reset") /\ call'[th].tmp = call[th].tmp
    BY <1>5, StepLemma DEF StopAwaited, StopWakesEarly, At, Steps
  <2>2. \A u \in Thread : Stopping(u)' <=> Stopping(u)
    BY <1>5, <2>1 DEF Stopping, Onward, StopAwaited, StopWakesEarly, At
  <2>3. OneStarter' /\ ThreadsFit' /\ Holds'
    BY <1>5, <2>1 DEF StopAwaited, StopWakesEarly, OneStarter, ThreadsFit, Holds, At, Onward
  <2>4. OneObject'
    <3>1. CASE StopAwaited(th)
      <4>1. lapses \cap {"spurious", "race"} = {} => disp[shared] = "ended"
        <5>1. Stopping(th) /\ shutdown[call[th].tmp]
          BY <3>1 DEF StopAwaited, Stopping, At, Completed
        <5> QED
          BY <5>1 DEF OneObject, ThreadsFit, TypeOK, Run
      <4> QED
        BY <3>1, <2>1, <2>2, <4>1 DEF StopAwaited, OneObject, Alive, Onward
    <3>2. CASE StopWakesEarly(th)
      BY <3>2 DEF StopWakesEarly, OneObject
    <3> QED
      BY <1>5, <3>1, <3>2
  <2> QED
    BY <2>3, <2>4 DEF Parts
<1>6. CASE StopReset(th)
  <2>1. /\ \A u \in Thread \ {th} : call'[u] = call[u]
        /\ call'[th] = None \/ Onward(th, "close")
    BY <1>6, ReturnsLemma DEF StopReset, At
  <2>2. OneStarter' /\ ThreadsFit' /\ Holds'
    BY <1>6, <2>1 DEF StopReset, OneStarter, ThreadsFit, Holds, At, Onward
  <2>3. Stopping(th) /\ ~Stopping(th)' /\ \A u \in Thread \ {th} : Stopping(u)' <=> Stopping(u)
    BY <1>6, <2>1 DEF StopReset, Stopping, At, Onward
  <2>4. lapses \cap {"spurious", "race"} = {} =>
          /\ \A k \in Run : ~Alive(k) /\ ~running[k]
          /\ \A u \in Thread : Stopping(u) => u = th
    BY <1>6, <2>3 DEF StopReset, OneObject, At, Alive
  <2>5. OneObject'
    BY <1>6, <2>3, <2>4 DEF StopReset, OneObject, Alive
  <2> QED
    BY <2>2, <2>5 DEF Parts
<1> QED
  BY <1>1, <1>2, <1>3, <1>4, <1>5, <1>6 DEF StopSteps

\* disconnect(), connect() and the destructor leave the object alone.
LEMMA LinkParts ==
  ASSUME ObjectInv, NEW th \in Thread, Disconnect(th) \/ Close(th) \/ Connect(th) \/ Destroy
  PROVE  Parts'
<1> USE DispatchAssumption DEF ObjectInv, link, handle, dispatcher, history
<1>1. CASE Disconnect(th)
  <2>1. /\ call'[th].step \in {"tickets", "close"}
        /\ \A u \in Thread \ {th} : call'[u] = call[u]
    BY <1>1, BeginLemma DEF Disconnect, Begins, Idle
  <2> QED
    BY <1>1, <2>1, LeaveLemma DEF Disconnect
<1>2. CASE Close(th)
  BY <1>2, ReturnLemma, LeaveLemma DEF Close
<1>3. CASE Connect(th) \/ Destroy
  <2>1. UNCHANGED <<shared, running, shutdown, disp, call, lapses>>
    BY <1>3 DEF Connect, Destroy
  <2> QED
    BY <2>1 DEF Parts, OneStarter, OneObject, ThreadsFit, Holds, Alive, Stopping, At
<1> QED
  BY <1>1, <1>2, <1>3

\* The thread of an object sets `running` only when it begins.
LEMMA ThreadParts ==
  ASSUME ObjectInv, NEW k \in Run, DispatcherSteps(k)
  PROVE  Parts'
<1> USE DEF link, handle, history, Alive
<1>0. TypeOK
  BY DEF ObjectInv
<1>1. CASE Begin(k)
  <2>1. CASE disp[k] = "begin"
    <3>1. /\ running' = [running EXCEPT ![k] = TRUE]
          /\ disp' = [disp EXCEPT ![k] = "began"]
      BY <1>1, <2>1 DEF Begin
    <3> QED
      BY <1>0, <1>1, <2>1, <3>1, ThreadLemma DEF Begin, TypeOK
  <2>2. CASE disp[k] = "began"
    <3>1. disp' = [disp EXCEPT ![k] = "loop"] /\ UNCHANGED running
      BY <1>1, <2>2 DEF Begin
    <3> QED
      BY <1>1, <2>2, <3>1, ThreadLemma DEF Begin
  <2> QED
    BY <1>1, <2>1, <2>2 DEF Begin
<1>2. CASE Loop(k)
  BY <1>2, ThreadLemma DEF Loop
<1>3. CASE LoopEnds(k)
  BY <1>0, <1>3, ThreadLemma DEF LoopEnds, TypeOK
<1>4. CASE AutoThrows(k)
  BY <1>4, ThreadLemma DEF AutoThrows
<1>5. CASE AutoDispatch(k)
  BY <1>5, ThreadLemma DEF AutoDispatch
<1>6. CASE Deliver(k)
  BY <1>6, ThreadLemma DEF Deliver
<1>7. CASE RoundEnds(k)
  BY <1>7, ThreadLemma DEF RoundEnds
<1> QED
  BY <1>1, <1>2, <1>3, <1>4, <1>5, <1>6, <1>7 DEF DispatcherSteps

\* The inductive invariant of all behaviours: one start() at a time makes an object,
\* only the object m_dispatchShared has a thread that works, and one stop() at a time
\* tells that thread to end.
THEOREM ObjectHolds == Spec => []ObjectInv
<1>1. Init => ObjectInv
  <2> SUFFICES ASSUME Init
               PROVE  ObjectInv
    OBVIOUS
  <2>1. TypeOK
    BY InitInv DEF DispatchInv
  <2>2. OneStarter /\ OneObject /\ ThreadsFit /\ Holds
    BY DEF Init, OneStarter, OneObject, ThreadsFit, Holds, At, Alive, Stopping
  <2> QED
    BY <2>1, <2>2 DEF ObjectInv
<1>2. ObjectInv /\ [Next]_vars => ObjectInv'
  <2> SUFFICES ASSUME ObjectInv, [Next]_vars
               PROVE  ObjectInv'
    OBVIOUS
  <2> USE DEF ObjectInv, Parts
  <2>1. ASSUME NEW th \in Thread, StartSteps(th)
        PROVE  ObjectInv'
    BY <2>1, StartType, StartParts
  <2>2. ASSUME NEW th \in Thread, \/ \E wait \in Waits : Stop(th, wait)
                                  \/ StopSteps(th) \/ StopTimesOut(th) \/ StopWakesEarly(th)
        PROVE  ObjectInv'
    BY <2>2, StopType, StopParts
  <2>3. ASSUME NEW th \in Thread, Disconnect(th) \/ Close(th) \/ Connect(th)
        PROVE  ObjectInv'
    BY <2>3, LinkType, LinkParts
  <2>4. CASE Destroy
    <3>1. TypeOK'
      BY <2>4 DEF Destroy, TypeOK, link, handle, dispatcher, history
    <3>2. UNCHANGED <<shared, running, shutdown, disp, call, lapses>>
      BY <2>4 DEF Destroy, handle, dispatcher, history
    <3> QED
      BY <3>1, <3>2 DEF OneStarter, OneObject, ThreadsFit, Holds, Alive, Stopping, At
  <2>5. ASSUME NEW k \in Run, DispatcherSteps(k)
        PROVE  ObjectInv'
    BY <2>5, ThreadType, ThreadParts
  <2>6. CASE UNCHANGED vars
    BY <2>6 DEF vars, link, handle, dispatcher, history, TypeOK, OneStarter, OneObject,
                ThreadsFit, Holds, Alive, Stopping, At
  <2> QED
    BY <2>1, <2>2, <2>3, <2>4, <2>5, <2>6 DEF Next
<1> QED
  BY <1>1, <1>2, PTL DEF Spec

\* The variables stay in their types.
THEOREM TypeCorrect == Spec => []TypeOK
<1>1. ObjectInv => TypeOK
  BY DEF ObjectInv
<1> QED
  BY <1>1, ObjectHolds, PTL

\* Messages are dispatched by one thread at a time, whatever timed out before and
\* however start(), stop() and disconnect() overlap, unless two start()s have found no
\* object at once (AutoDispatcher.cpp:53) or a wait has ended for nothing.
THEOREM OneDispatcherHolds == Spec => []OneDispatcher
<1>1. ObjectInv => OneDispatcher
  BY DEF ObjectInv, OneObject, OneDispatcher
<1> QED
  BY <1>1, ObjectHolds, PTL

\* The history forgets nothing.
LEMMA LapsesLemma ==
  ASSUME [Next]_vars
  PROVE  lapses \subseteq lapses'
<1> USE DEF history
<1>1. ASSUME NEW th \in Thread, StartSteps(th)
      PROVE  lapses \subseteq lapses'
  BY <1>1 DEF StartSteps, StartCheck, StartCreate, StartLaunch, StartReturns, StartTimesOut,
              StartWakesEarly
<1>2. ASSUME NEW th \in Thread, \/ \E wait \in Waits : Stop(th, wait)
                                \/ StopSteps(th) \/ StopTimesOut(th) \/ StopWakesEarly(th)
      PROVE  lapses \subseteq lapses'
  BY <1>2 DEF Stop, StopSteps, StopTickets, Shutdown, ShutdownRefused, StopAwaited, StopReset,
              StopTimesOut, StopWakesEarly
<1>3. ASSUME NEW th \in Thread, Disconnect(th) \/ Close(th) \/ Connect(th) \/ Destroy
      PROVE  lapses \subseteq lapses'
  BY <1>3 DEF Disconnect, Close, Connect, Destroy
<1>4. ASSUME NEW k \in Run, DispatcherSteps(k)
      PROVE  lapses \subseteq lapses'
  BY <1>4 DEF DispatcherSteps, Begin, Loop, LoopEnds, AutoThrows, AutoDispatch, Deliver, RoundEnds
<1>5. CASE Destroy
  BY <1>5 DEF Destroy
<1>6. CASE UNCHANGED vars
  BY <1>6 DEF vars
<1> QED
  BY <1>1, <1>2, <1>3, <1>4, <1>5, <1>6 DEF Next

\* A call is alone until the history says that another has met it.
LEMMA SerialLemma ==
  ASSUME TypeOK, Serial, [Next]_vars, "overlap" \notin lapses'
  PROVE  Serial'
<1>1. ASSUME NEW th \in Thread, call[th] # None, \A u \in Thread \ {th} : call'[u] = call[u]
      PROVE  Serial'
  BY <1>1 DEF Serial
<1>2. ASSUME NEW th \in Thread, NEW step \in {"create", "tickets", "close"}, NEW wait \in BOOLEAN,
             NEW closing \in BOOLEAN, call[th] = None, Overlap = {},
             call' = [call EXCEPT ![th] = NewCall(step, wait, closing)]
      PROVE  Serial'
  <2>1. \A u \in Thread \ {th} : call'[u] = call[u]
    BY <1>2, BeginLemma
  <2>2. \A u \in Thread : call[u] = None
    BY <1>2 DEF Overlap
  <2> QED
    BY <2>1, <2>2 DEF Serial
<1>3. ASSUME NEW th \in Thread, StartSteps(th)
      PROVE  Serial'
  <2>1. CASE StartCheck(th)
    BY <1>2, <2>1 DEF StartCheck, Begins, Idle, Overlap
  <2>2. CASE ~StartCheck(th)
    BY <1>1, <1>3, <2>2 DEF StartSteps, StartCreate, StartLaunch, StartReturns, StartTimesOut,
                            StartWakesEarly, At, TypeOK
  <2> QED
    BY <2>1, <2>2
<1>4. ASSUME NEW th \in Thread, NEW wait \in Waits, Stop(th, wait)
      PROVE  Serial'
  BY <1>2, <1>4, DispatchAssumption DEF Stop, Begins, Idle, Overlap
<1>5. ASSUME NEW th \in Thread, StopSteps(th) \/ StopTimesOut(th) \/ StopWakesEarly(th)
      PROVE  Serial'
  <2>1. call[th] # None
    BY <1>5 DEF StopSteps, StopTickets, Shutdown, ShutdownRefused, StopAwaited, StopReset,
                StopTimesOut, StopWakesEarly, At
  <2>2. \A u \in Thread \ {th} : call'[u] = call[u]
    BY <1>5 DEF StopSteps, StopTickets, Shutdown, ShutdownRefused, StopAwaited, StopReset,
                StopTimesOut, StopWakesEarly, Retry, Returns, TypeOK
  <2> QED
    BY <1>1, <2>1, <2>2
<1>6. ASSUME NEW th \in Thread, Disconnect(th)
      PROVE  Serial'
  BY <1>2, <1>6 DEF Disconnect, Begins, Idle, Overlap
<1>7. ASSUME NEW th \in Thread, Close(th) \/ Connect(th)
      PROVE  Serial'
  BY <1>1, <1>7 DEF Close, Connect, At, Serial, TypeOK
<1>8. CASE Destroy \/ (\E k \in Run : DispatcherSteps(k)) \/ UNCHANGED vars
  <2>1. UNCHANGED call
    BY <1>8 DEF Destroy, DispatcherSteps, Begin, Loop, LoopEnds, AutoThrows, AutoDispatch, Deliver,
                RoundEnds, vars
  <2> QED
    BY <2>1 DEF Serial
<1> QED
  BY <1>3, <1>4, <1>5, <1>6, <1>7, <1>8 DEF Next

\* The inductive invariant as long as no calls have overlapped: "overlap" is in
\* `lapses` from the step on by which a call begins during another.
THEOREM DispatchHolds == Spec => []SerialInv
<1>1. Init => SerialInv
  <2>1. Init => Serial
    BY DEF Init, Serial
  <2> QED
    BY <2>1, InitInv DEF SerialInv
<1>2. TypeOK /\ SerialInv /\ [Next]_vars => SerialInv'
  <2> SUFFICES ASSUME TypeOK, SerialInv, [Next]_vars, "overlap" \notin lapses'
               PROVE  Serial' /\ DispatchInv' /\ Answers'
    BY DEF SerialInv
  <2>1. "overlap" \notin lapses
    BY LapsesLemma
  <2>2. Serial'
    BY <2>1, SerialLemma DEF SerialInv
  <2> QED
    BY <2>1, <2>2, StepInv DEF SerialInv
<1> QED
  BY <1>1, <1>2, TypeCorrect, PTL DEF Spec

\* Between calls, a dispatcher that is not said to be running has ended.
THEOREM StoppedIsQuietHolds == Spec => []StoppedIsQuiet
<1>1. ASSUME DispatchInv, Undisturbed, NoCalls, ~isRunning
      PROVE  \A k \in Run : ~Alive(k)
  <2>1. shared = 0
    BY <1>1 DEF DispatchInv, InStep, NoCalls, Within
  <2> QED
    BY <1>1, <2>1 DEF DispatchInv, OnlyShared, Undisturbed, Run
<1>2. SerialInv => StoppedIsQuiet
  BY <1>1 DEF StoppedIsQuiet, SerialInv, Undisturbed
<1> QED
  BY <1>2, DispatchHolds, PTL

\* Between calls, receive() and dispatch() are refused only if there is a dispatcher,
\* as long as nothing has timed out and no calls have overlapped.
THEOREM RefusalsAreJustified == Spec => []RefusalsJustified
<1>1. ASSUME DispatchInv, Undisturbed, NoCalls, isRunning
      PROVE  \E k \in Run : Alive(k)
  <2>1. shared # 0 /\ Alive(shared)
    BY <1>1 DEF DispatchInv, InStep, NoCalls, Within
  <2>2. shared \in Run
    BY <1>1, <2>1 DEF DispatchInv, TypeOK, Run
  <2> QED
    BY <2>1, <2>2
<1>2. SerialInv => RefusalsJustified
  BY <1>1 DEF RefusalsJustified, RefusedOnlyInUse, SerialInv, Undisturbed
<1> QED
  BY <1>2, DispatchHolds, PTL

\* A stop() that answers true has stopped the auto-dispatcher it found running,
\* whatever timed out before, as long as no calls have overlapped (Connection.h:359).
THEOREM TrueMeansItStopped == Spec => []TrueMeansStopped
<1>1. SerialInv => TrueMeansStopped
  BY DEF SerialInv, Answers, TrueMeansStopped
<1> QED
  BY <1>1, DispatchHolds, PTL

\* A stop() of a running auto-dispatcher succeeds unless its time is up or calls overlap.
THEOREM StopDoesSucceed == Spec => []StopSucceeds
<1>1. SerialInv => StopSucceeds
  BY DEF SerialInv, Answers, StopSucceeds, Undisturbed
<1> QED
  BY <1>1, DispatchHolds, PTL

\* The thread of a dispatcher never works on a Connection that has been freed.
THEOREM NothingDoesOutlive == Spec => []NothingOutlives
<1>1. ASSUME DispatchInv, Undisturbed, destroyed
      PROVE  \A k \in Run : ~Alive(k)
  <2>1. shared = 0
    BY <1>1 DEF DispatchInv, InStep
  <2> QED
    BY <1>1, <2>1 DEF DispatchInv, OnlyShared, Undisturbed, Run
<1>2. SerialInv => NothingOutlives
  BY <1>1 DEF NothingOutlives, SerialInv, Undisturbed
<1> QED
  BY <1>2, DispatchHolds, PTL
=============================================================================
