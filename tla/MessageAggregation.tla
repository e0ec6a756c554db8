------------------------- MODULE MessageAggregation -------------------------
(***************************************************************************)
(* Message bins (MessageAggregationToolkit.cpp, and what publish(),        *)
(* connect() and disconnect() of InternalConnection have to do with them): *)
(* publish() puts a copy of the message into the bin of its subject.  The  *)
(* toolkit's thread publishes what a bin holds, as one aggregated message  *)
(* for each subject, when the bin is full or its time has come, and        *)
(* disconnect() publishes what is left and stops the thread.               *)
(*                                                                         *)
(* One recursive mutex guards the bins; its condition has one register,    *)
(* the reason of the last broadcast.  What runs under the mutex between    *)
(* two waits is one step.                                                  *)
(***************************************************************************)
EXTENDS Integers, Sequences

CONSTANTS Thread,       \* application threads, which publish
          Owner,        \* those that connect and disconnect
          Toolkit,      \* the toolkit's thread
          Subject,
          Excluded,     \* GMSEC-MSG-BIN-EXCLUDE-SUBJECT-N: the subjects they match
          Bin,          \* GMSEC-MSG-BIN-SUBJECT-N
          BinFor,       \* the first of them that matches a subject, or None
          None,
          BinSize,      \* GMSEC-MSG-BIN-SIZE
          Quota,        \* bound: messages published by each thread
          MaxFailures,  \* bound: calls of mwPublish() that fail
          MaxLinks      \* bound: connections established

Message == [from : Thread, n : Nat \ {0}, subject : Subject]

\* Messages that travel as one, by the positions they had in their bin.
Bundle == UNION {[positions -> Message] : positions \in SUBSET (Nat \ {0})}

ASSUME AggregationAssumption ==
  /\ Owner \subseteq Thread /\ Toolkit \notin Thread /\ Excluded \subseteq Subject
  /\ BinFor \in [Subject -> Bin \cup {None}] /\ None \notin Bin \cup Subject \cup Message
  /\ BinSize \in Nat \ {0} /\ Quota \in [Thread -> Nat]
  /\ MaxFailures \in Nat /\ MaxLinks \in Nat

VARIABLES
  connected,  \* m_state = CONNECTED, and the middleware is
  shared,     \* m_msgAggregationToolkitShared is not null
  crashed,    \* it was used when it was
  all,        \* m_aggregateAllMsgs: no bins are configured
  bins,       \* the keys of m_messageBins
  messages, ready, late,  \* m_messages and m_readyToProcess of a bin, m_flushTime is past
  failed,     \* m_publishStatus has an error
  reason,     \* the register of m_condition
  waits,      \* what each thread waits in, if it does: its wait, or the return from it
  at,         \* where the toolkit's thread is
  step, msg,  \* where each application thread is, and the message it publishes
  tries,      \* what is left of the waits of its shutdown()
  wire,       \* for each subject, what the middleware was given: bundles of messages
  \* history
  published,  \* messages each thread has published
  accepted,   \* those of which publish() returned without exception
  reported,   \* those with a MSG_PUBLISH_FAILURE_EVENT
  failures, links, lapses

store == <<bins, messages, ready, late, failed>>
link == <<connected, shared, crashed, links, all>>
sent == <<wire, reported, failures>>
condition == <<reason, waits>>
caller == <<step, msg, tries, published, accepted>>
vars == <<store, link, sent, condition, caller, at, lapses>>

Key == Bin \cup Subject

TypeOK ==
  /\ {connected, shared, crashed, all, failed} \subseteq BOOLEAN
  /\ bins \subseteq Key /\ messages \in [Key -> Seq(Message)]
  /\ ready \in [Key -> BOOLEAN] /\ late \in [Key -> BOOLEAN]
  /\ reason \in {"INVALID", "UNMANAGED", "QUIT", "FLUSH_BIN", "MANAGED"}
  /\ waits \in [Thread \cup {Toolkit} -> {"no", "asleep", "woken", "timeout"}]
  /\ at \in {"begin", "run", "ended"}
  /\ step \in [Thread -> {"idle", "status", "add", "direct", "stop", "await", "reset", "close"}]
  /\ msg \in [Thread -> Message \cup {None}] /\ tries \in [Thread -> 0 .. 3]
  /\ wire \in [Subject -> Seq(Bundle)]
  /\ published \in [Thread -> Nat] /\ accepted \subseteq Message /\ reported \subseteq Message
  /\ failures \in 0 .. MaxFailures /\ links \in 0 .. MaxLinks
  /\ lapses \subseteq {"overlap", "unstopped"}

\* The constructor, with GMSEC-USE-MSG-BINS, once its thread has been started; the
\* configured bins have a flush time of 0.
Init ==
  /\ connected = FALSE /\ shared = TRUE /\ crashed = FALSE
  /\ all \in BOOLEAN
  /\ bins = IF all THEN {} ELSE Bin
  /\ messages = [b \in Key |-> <<>>]
  /\ ready = [b \in Key |-> FALSE] /\ late = [b \in Key |-> TRUE]
  /\ failed = FALSE /\ reason = "INVALID"
  /\ waits = [t \in Thread \cup {Toolkit} |-> "no"] /\ at = "begin"
  /\ step = [th \in Thread |-> "idle"] /\ msg = [th \in Thread |-> None]
  /\ tries = [th \in Thread |-> 0]
  /\ wire = [s \in Subject |-> <<>>]
  /\ published = [th \in Thread |-> 0] /\ accepted = {} /\ reported = {}
  /\ failures = 0 /\ links = 0 /\ lapses = {}

Goes(th, there) ==
  /\ step' = [step EXCEPT ![th] = there]
  /\ UNCHANGED <<msg, tries, published, accepted>>

\* publish() returns, or throws.
Returns(th) ==
  /\ step' = [step EXCEPT ![th] = "idle"]
  /\ msg' = [msg EXCEPT ![th] = None]
  /\ accepted' = accepted \cup {msg[th]}
  /\ UNCHANGED <<tries, published>>

Throws(th) ==
  /\ step' = [step EXCEPT ![th] = "idle"]
  /\ msg' = [msg EXCEPT ![th] = None]
  /\ UNCHANGED <<tries, published, accepted>>

\* The null pointer is used, and the program ends.
Crashes ==
  /\ crashed' = TRUE
  /\ UNCHANGED <<store, sent, condition, caller, at, connected, shared, links, all, lapses>>
-----------------------------------------------------------------------------
\* m_condition: everybody asleep on it is woken by a broadcast,
Woken == [t \in DOMAIN waits |-> IF waits[t] = "asleep" THEN "woken" ELSE waits[t]]

Broadcast(r) == reason' = r /\ waits' = Woken

\* or for nothing, or by its timer: then the wait returns TIMEOUT, whatever is
\* broadcast before the thread has the mutex again.
WaitEnds(t, how) ==
  /\ waits[t] = "asleep"
  /\ waits' = [waits EXCEPT ![t] = how]
  /\ UNCHANGED <<store, link, sent, reason, caller, at, lapses>>

Returned(t) == IF waits[t] = "timeout" THEN "TIMEOUT" ELSE reason

Back(t) == waits[t] \in {"woken", "timeout"}
-----------------------------------------------------------------------------
\* The messages of a bin with subject s: what one aggregated message carries, in
\* the order of the bin.
Aggregated(b, s) ==
  [i \in {j \in DOMAIN messages[b] : messages[b][j].subject = s} |-> messages[b][i]]

Carried(bundle) == {bundle[i] : i \in DOMAIN bundle}

\* Mutant: m_messages is not cleared.
Emptied_Kept(bs) == UNCHANGED messages

Emptied(bs) == messages' = [b \in Key |-> IF b \in bs THEN <<>> ELSE messages[b]]

\* processBin() for the bins bs: for each subject, publish() of the aggregated message,
\* which looks at the state and at m_publishStatus as every publish() does.  What the
\* middleware does not take is reported, and lost.  m_publishStatus is reset only by
\* a publish() that returns, which it does no more once there was an error.  All
\* messages on a subject are in one bin.
Process(bs) ==
  LET aggregates == {p \in bs \X Subject : Carried(Aggregated(p[1], p[2])) # {}}
      refused == failed \/ ~connected
  IN  \E out \in SUBSET aggregates :
        /\ refused => out = {}
        /\ failures' = IF refused \/ out = aggregates THEN failures ELSE failures + 1
        /\ failures' <= MaxFailures
        /\ wire' = [s \in Subject |->
             IF \E p \in out : p[2] = s
             THEN Append(wire[s], Aggregated((CHOOSE p \in out : p[2] = s)[1], s))
             ELSE wire[s]]
        /\ reported' = reported \cup UNION {Carried(Aggregated(p[1], p[2])) : p \in aggregates \ out}
        /\ failed' = (failed \/ out # aggregates)
        /\ Emptied(bs)

\* That publish() comes to the toolkit by the Connection's pointer.
ProcessCrashes(bs) == connected /\ ~shared /\ \E b \in bs : messages[b] # <<>>
-----------------------------------------------------------------------------
Disconnecting(th) == step[th] \in {"stop", "await", "reset", "close"}

\* Bound: nothing is begun after a lapse.
Bounded == lapses = {}

\* publish(), with the test of the state.
Publish(th, s) ==
  /\ step[th] = "idle" /\ connected /\ published[th] < Quota[th] /\ Bounded
  /\ published' = [published EXCEPT ![th] = @ + 1]
  /\ msg' = [msg EXCEPT ![th] = [from |-> th, n |-> published'[th], subject |-> s]]
  /\ step' = [step EXCEPT ![th] = "status"]
  /\ lapses' = IF \E u \in Thread : Disconnecting(u) THEN lapses \cup {"overlap"} ELSE lapses
  /\ UNCHANGED <<store, link, sent, condition, tries, accepted, at>>

\* getPublishStatus(), whose error is thrown.
CheckStatus(th) ==
  /\ step[th] = "status" /\ shared
  /\ IF failed THEN Throws(th) ELSE Goes(th, "add")
  /\ UNCHANGED <<store, link, sent, condition, at, lapses>>

\* The bin addMessage() finds or creates, or None.
BinOf(s) == IF s \in Excluded THEN None
            ELSE IF all THEN s
            ELSE IF BinFor[s] \in bins THEN BinFor[s] ELSE None

Full(b) == Len(messages[b]) + 1 >= BinSize

\* addMessage(); a full bin is announced.
AddMessage(th) ==
  /\ step[th] = "add" /\ shared
  /\ LET b == BinOf(msg[th].subject)
     IN  IF b = None
         THEN Goes(th, "direct") /\ UNCHANGED <<store, condition>>
         ELSE /\ bins' = bins \cup {b}
              /\ messages' = [messages EXCEPT ![b] = Append(@, msg[th])]
              /\ late' = [late EXCEPT ![b] = @ /\ messages[b] # <<>>]
              /\ IF Full(b)
                 THEN ready' = [ready EXCEPT ![b] = TRUE] /\ Broadcast("FLUSH_BIN")
                 ELSE UNCHANGED <<ready, condition>>
              /\ Returns(th)
              /\ UNCHANGED failed
  /\ UNCHANGED <<link, sent, at, lapses>>

\* Either, when disconnect() has reset the pointer.
PublishCrashes(th) == step[th] \in {"status", "add"} /\ ~shared /\ Crashes

\* mwPublish() of a message that goes into no bin.
PublishNow(th) ==
  /\ step[th] = "direct" /\ connected
  /\ wire' = [wire EXCEPT ![msg[th].subject] = Append(@, <<msg[th]>>)]
  /\ Returns(th)
  /\ UNCHANGED <<store, link, reported, failures, condition, at, lapses>>

\* Its exception is publish()'s.
PublishNowFails(th) ==
  /\ step[th] = "direct"
  /\ failures' = IF connected THEN failures + 1 ELSE failures
  /\ failures' <= MaxFailures
  /\ Throws(th)
  /\ UNCHANGED <<store, link, wire, reported, condition, at, lapses>>
-----------------------------------------------------------------------------
\* run(), up to its first wait.
Start ==
  /\ at = "begin"
  /\ at' = "run"
  /\ reason' = "MANAGED"
  /\ waits' = [Woken EXCEPT ![Toolkit] = "asleep"]
  /\ UNCHANGED <<store, link, sent, caller, lapses>>

\* The flush time of a bin is over.
Elapse(b) ==
  /\ b \in bins /\ ~late[b]
  /\ late' = [late EXCEPT ![b] = TRUE]
  /\ UNCHANGED <<bins, messages, ready, failed, link, sent, condition, caller, at, lapses>>

\* Mutant: the bins whose time has come are not marked.
Expired_Unmarked == {}

\* checkForExpiredBins().
Expired == {b \in bins : late[b]}

\* One round of run() after its wait: processBins() when a bin may be ready.  A bin
\* without messages stays ready.
Round ==
  /\ at = "run" /\ Back(Toolkit)
  /\ LET why == Returned(Toolkit)
         expired == IF why = "TIMEOUT" THEN Expired ELSE {}
         due == {b \in bins : messages[b] # <<>> /\ (ready[b] \/ b \in expired)}
     IN  /\ why # "QUIT"
         /\ late' = [b \in Key |-> late[b] /\ b \notin expired]
         /\ IF why = "FLUSH_BIN" \/ expired # {}
            THEN /\ ~ProcessCrashes(due)
                 /\ Process(due)
                 /\ ready' = [b \in Key |-> (ready[b] \/ b \in expired) /\ b \notin due]
            ELSE UNCHANGED <<messages, ready, failed, sent>>
  /\ waits' = [waits EXCEPT ![Toolkit] = "asleep"]
  /\ UNCHANGED <<bins, link, reason, caller, at, lapses>>

RoundCrashes ==
  /\ at = "run" /\ Back(Toolkit) /\ Returned(Toolkit) \in {"TIMEOUT", "FLUSH_BIN"}
  /\ ProcessCrashes({b \in bins : ready[b] \/ (Returned(Toolkit) = "TIMEOUT" /\ late[b])})
  /\ Crashes

Quit ==
  /\ at = "run" /\ Back(Toolkit) /\ Returned(Toolkit) = "QUIT"
  /\ at' = "ended"
  /\ reason' = "UNMANAGED"
  /\ waits' = [Woken EXCEPT ![Toolkit] = "no"]
  /\ UNCHANGED <<store, link, sent, caller, lapses>>
-----------------------------------------------------------------------------
Connect(th) ==
  /\ step[th] = "idle" /\ ~connected /\ links < MaxLinks /\ Bounded /\ at # "begin"
  /\ connected' = TRUE /\ links' = links + 1
  /\ UNCHANGED <<store, shared, crashed, all, sent, condition, caller, at, lapses>>

\* disconnect(), as far as the bins are concerned.
Disconnect(th) ==
  /\ step[th] = "idle" /\ connected
  /\ Goes(th, "stop")
  /\ lapses' = IF \E u \in Thread \ {th} : step[u] # "idle" THEN lapses \cup {"overlap"} ELSE lapses
  /\ UNCHANGED <<store, link, sent, condition, at>>

\* Mutant: only what is marked is published.
Left_Ready == {b \in bins : ready[b]}

\* What destroyBins() publishes.
Left == bins

\* shutdown(), up to its first wait.
Shutdown(th) ==
  /\ step[th] = "stop" /\ shared
  /\ Process(Left)
  /\ bins' = {}
  /\ ready' = [b \in Key |-> FALSE] /\ late' = [b \in Key |-> TRUE]
  /\ reason' = "QUIT"
  /\ waits' = [Woken EXCEPT ![th] = "asleep"]
  /\ step' = [step EXCEPT ![th] = "await"] /\ tries' = [tries EXCEPT ![th] = 2]
  /\ UNCHANGED <<link, msg, published, accepted, at, lapses>>

\* A wait for UNMANAGED is over; there are three.
Awaited(th) ==
  /\ step[th] = "await" /\ Back(th)
  /\ IF Returned(th) # "UNMANAGED" /\ tries[th] > 0
     THEN /\ waits' = [waits EXCEPT ![th] = "asleep"]
          /\ tries' = [tries EXCEPT ![th] = @ - 1]
          /\ UNCHANGED <<step, lapses>>
     ELSE /\ waits' = [waits EXCEPT ![th] = "no"]
          /\ step' = [step EXCEPT ![th] = "reset"]
          /\ lapses' = IF at = "ended" THEN lapses ELSE lapses \cup {"unstopped"}
          /\ UNCHANGED tries
  /\ UNCHANGED <<store, link, sent, reason, msg, published, accepted, at>>

\* The pointer is null from here on; that to the thread is not.
Reset(th) ==
  /\ step[th] = "reset"
  /\ shared' = FALSE
  /\ Goes(th, "close")
  /\ UNCHANGED <<store, connected, crashed, links, all, sent, condition, at, lapses>>

Close(th) ==
  /\ step[th] = "close"
  /\ connected' = FALSE
  /\ Goes(th, "idle")
  /\ UNCHANGED <<store, shared, crashed, links, all, sent, condition, at, lapses>>

DisconnectCrashes(th) == step[th] = "stop" /\ ~shared /\ Crashes
-----------------------------------------------------------------------------
PublishSteps(th) == CheckStatus(th) \/ AddMessage(th) \/ PublishNow(th) \/ PublishNowFails(th)

DisconnectSteps(th) == Shutdown(th) \/ Awaited(th) \/ Reset(th) \/ Close(th)

ToolkitSteps == Start \/ Round \/ Quit

CrashSteps == \/ RoundCrashes
              \/ \E th \in Thread : PublishCrashes(th) \/ DisconnectCrashes(th)

Next ==
  /\ ~crashed
  /\ \/ \E th \in Thread, s \in Subject : Publish(th, s)
     \/ \E th \in Thread : PublishSteps(th)
     \/ \E th \in Owner : Connect(th) \/ Disconnect(th) \/ DisconnectSteps(th)
     \/ \E t \in DOMAIN waits, how \in {"woken", "timeout"} : WaitEnds(t, how)
     \/ \E b \in bins : Elapse(b)
     \/ ToolkitSteps
     \/ CrashSteps

Spec == Init /\ [][Next]_vars

\* Threads run, the clock does, and the timers of the waits go off: that of the
\* toolkit's thread in spite of the spurious wakeups in between.
FairSpec ==
  /\ Spec
  /\ \A th \in Thread : WF_vars(~crashed /\ (PublishSteps(th) \/ DisconnectSteps(th)))
  /\ \A th \in Thread : WF_vars(~crashed /\ WaitEnds(th, "timeout"))
  /\ SF_vars(~crashed /\ WaitEnds(Toolkit, "timeout"))
  /\ \A b \in Key : WF_vars(~crashed /\ Elapse(b))
  /\ WF_vars(~crashed /\ ToolkitSteps)
-----------------------------------------------------------------------------
\* processAggregatedMsg(): a subscriber unpacks what it receives, bundle by bundle.
Earlier(a, i, c, j) == a < c \/ (a = c /\ i < j)

Arrived(m) ==
  \E a \in DOMAIN wire[m.subject] : m \in Carried(wire[m.subject][a])

Before(m, later) == m.from = later.from => m.n < later.n

\* A subscriber gets the messages of a thread on a subject in the order they were
\* published in, and none of them twice, through bins, direct publishes, failures and
\* reconnections.
InOrder ==
  \A s \in Subject : \A a, c \in DOMAIN wire[s] :
    \A i \in DOMAIN wire[s][a], j \in DOMAIN wire[s][c] :
      Earlier(a, i, c, j) => Before(wire[s][a][i], wire[s][c][j])

Binned(m) == \E b \in bins : \E i \in DOMAIN messages[b] : messages[b][i] = m

\* No message is lost in silence: once its publish() has returned, it is in a bin, has
\* gone to the middleware, or its failure was reported.  When disconnect() has returned,
\* and no publish() overlapped it, it is in no bin; and the thread has ended, unless the
\* three waits for it were over.
Flushed ==
  /\ \A m \in accepted : Binned(m) \/ Arrived(m) \/ m \in reported
  /\ ~connected /\ links > 0 /\ "overlap" \notin lapses =>
       /\ \A m \in accepted : ~Binned(m)
       /\ at = "ended" \/ "unstopped" \in lapses

\* A message does not wait in its bin for others to fill it: the bin is emptied when its
\* time has come, although the reasons of the condition hide each other.
Flushes ==
  \A b \in Key \ Excluded : messages[b] # <<>> ~> messages[b] = <<>> \/ crashed \/ "overlap" \in lapses
-----------------------------------------------------------------------------
\* The message a publish() has in hand is the last of its thread.
InHand ==
  \A th \in Thread :
    /\ step[th] \in {"status", "add", "direct"} <=> msg[th] # None
    /\ msg[th] # None => msg[th].from = th /\ msg[th].n = published[th]

\* How many messages of a thread have left its hands.
Given(th) == IF msg[th] = None THEN published[th] ELSE published[th] - 1

\* A message is in the bin of its subject; one that goes into no bin leaves none of its
\* subject behind.
RightBin ==
  /\ \A b \in Key : \A i \in DOMAIN messages[b] :
       b \in bins /\ BinOf(messages[b][i].subject) = b
  /\ \A th \in Thread : step[th] = "direct" => BinOf(msg[th].subject) = None

\* What the middleware has been given, the bins, and what is in hand stand in this
\* order.
InLine ==
  /\ InOrder
  /\ \A b \in Key : \A i, j \in DOMAIN messages[b] : i < j => Before(messages[b][i], messages[b][j])
  /\ \A s \in Subject : \A a \in DOMAIN wire[s] : \A i \in DOMAIN wire[s][a] :
       /\ \A b \in Key : \A j \in DOMAIN messages[b] :
            messages[b][j].subject = s => Before(wire[s][a][i], messages[b][j])
       /\ wire[s][a][i].n <= Given(wire[s][a][i].from)
  /\ \A b \in Key : \A j \in DOMAIN messages[b] : messages[b][j].n <= Given(messages[b][j].from)

NoneLost == \A m \in accepted : Binned(m) \/ Arrived(m) \/ m \in reported

\* From shutdown() on, disconnect() finds and leaves the bins empty, and from the end
\* of its waits on the thread has ended.
Alone ==
  "overlap" \notin lapses =>
    /\ \A th, u \in Thread : Disconnecting(th) /\ u # th => step[u] = "idle"
    /\ ~connected => \A th \in Thread : step[th] = "idle"
    /\ \A th \in Thread : step[th] \in {"await", "reset", "close"} =>
         \A b \in Key : messages[b] = <<>>
    /\ \A th \in Thread : step[th] \in {"reset", "close"} => at = "ended" \/ "unstopped" \in lapses
    /\ ~connected => \A b \in Key : messages[b] = <<>>
    /\ ~connected /\ links > 0 => at = "ended" \/ "unstopped" \in lapses

\* The inductive invariant.
AggregationInv == TypeOK /\ InHand /\ RightBin /\ InLine /\ NoneLost /\ Alone
=============================================================================
