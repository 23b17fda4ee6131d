---------------------------- MODULE DBusConnection ----------------------------
(***************************************************************************)
(* One NativeBleInternal object on Linux and the D-Bus connection its      *)
(* threads share: SimpleDBus::Connection (src-ble/linux/simpledbus/base),  *)
(* the dispatch loop of BluezService::run_async, and the construction and  *)
(* destruction of the object.                                              *)
(*                                                                         *)
(* Application threads make blocking method calls through                  *)
(* Connection::send_with_reply_and_block; the async thread pops one        *)
(* message at a time and runs the handlers, whose user callbacks may make  *)
(* blocking calls too.  There is no lock: the threads share the queue of   *)
(* incoming messages and the single error record Connection::err.          *)
(*                                                                         *)
(* libdbus and the two peers (bus and BlueZ) are external: the queue, the  *)
(* matching of a reply to a blocked call, its timeout, and the refusal of  *)
(* a call made while the caller's error record is already set.             *)
(***************************************************************************)
EXTENDS Naturals, SequencesExt, Selection

CONSTANTS AppThreads,   \* the threads of the application that use the object
          AsyncThread,  \* the thread the object starts for itself
          HasAdapter,   \* was an adapter exported when the object was constructed?
          MaxSignals,   \* bound: the signals BlueZ sends
          MaxCalls      \* bound: the method calls made before destruction

ASSUME ThreadsAssumption == AsyncThread \notin AppThreads /\ AppThreads # {}
ASSUME HasAdapterAssumption == HasAdapter \in BOOLEAN
ASSUME BoundsAssumption == MaxSignals \in Nat /\ MaxCalls \in Nat

Threads == AppThreads \cup {AsyncThread}

\* Calls are numbered by their serial; the last serial is the RemoveMatch call
\* of the destructor.
RemovalCall == MaxCalls + 1
Serials == 1..RemovalCall
NoReply == [kind |-> "none", id |-> 0]
NoSignal == 0

Signal == [kind : {"signal"}, id : 1..MaxSignals]
Reply == [kind : {"return", "error"}, id : Serials]
Message == Signal \cup Reply

IsSignal(m) == m.kind = "signal"

VARIABLES
    incoming,    \* the connection's queue of received messages
    subscribed,  \* is the match rule for BlueZ's signals installed at the bus?
    emitted,     \* number of signals the bus has routed to this connection
    requests,    \* serials of the calls the peer has not answered
    answer,      \* serial -> what the peer answered: "none", "return" or "error"
    calls,       \* number of calls made before the RemoveMatch call
    pc,          \* thread -> where it is in send_with_reply_and_block
    mine,        \* thread -> serial of its latest call
    got,         \* thread -> the message libdbus handed it, or NoReply for NULL
    result,      \* thread -> the message its latest call returned, or NoReply
    err,         \* is the shared Connection::err set?
    crossed,     \* history: the threads that were blocked in their latest call
                 \* when the error of another call was put into err
    loop,        \* where the async thread is in async_thread_function
    current,     \* the signal being handled, or NoSignal
    handled,     \* the signals handled, in order
    active,      \* NativeBleInternal::async_thread_active
    life         \* the life of the object

callVars == <<requests, answer, calls, pc, mine, got, result, err, crossed>>
loopVars == <<loop, current, handled>>
vars == <<incoming, subscribed, emitted, callVars, loopVars, active, life>>

TypeOK ==
    /\ incoming \in Seq(Message)
    /\ subscribed \in BOOLEAN
    /\ emitted \in 0..MaxSignals
    /\ requests \subseteq Serials
    /\ answer \in [Serials -> {"none", "return", "error"}]
    /\ calls \in 0..MaxCalls
    /\ pc \in [Threads -> {"idle", "blocked", "returned", "clearing"}]
    /\ mine \in [Threads -> Serials \cup {0}]
    /\ got \in [Threads -> Reply \cup {NoReply}]
    /\ result \in [Threads -> Reply \cup {NoReply}]
    /\ err \in BOOLEAN
    /\ crossed \subseteq Threads
    /\ loop \in {"check", "pop", "handling", "ended", "absent"}
    /\ current \in (1..MaxSignals) \cup {NoSignal}
    /\ handled \in Seq(1..MaxSignals)
    /\ active \in BOOLEAN
    /\ life \in {"open", "joining", "removing", "flushing", "closed", "faulted"}

(* NativeBleInternal(): BluezService::init has installed the match rule, and *)
(* the async thread is started only if there is an adapter.                  *)
Init ==
    /\ incoming = <<>>
    /\ subscribed = TRUE
    /\ emitted = 0
    /\ requests = {}
    /\ answer = [s \in Serials |-> "none"]
    /\ calls = 0
    /\ pc = [t \in Threads |-> "idle"]
    /\ mine = [t \in Threads |-> 0]
    /\ got = [t \in Threads |-> NoReply]
    /\ result = [t \in Threads |-> NoReply]
    /\ err = FALSE
    /\ crossed = {}
    /\ loop = IF HasAdapter THEN "check" ELSE "absent"
    /\ current = NoSignal
    /\ handled = <<>>
    /\ active = TRUE
    /\ life = "open"

-------------------------------------------------------------------------------
(* The peers (external).                                                     *)

Emit ==
    /\ subscribed
    /\ life # "closed"
    /\ emitted < MaxSignals
    /\ emitted' = emitted + 1
    /\ incoming' = Append(incoming, [kind |-> "signal", id |-> emitted + 1])
    /\ UNCHANGED <<subscribed, callVars, loopVars, active, life>>

\* The bus carries out RemoveMatch before it answers it.
Answer(s, kind) ==
    /\ s \in requests
    /\ life # "closed"
    /\ requests' = requests \ {s}
    /\ answer' = [answer EXCEPT ![s] = kind]
    /\ incoming' = Append(incoming, [kind |-> kind, id |-> s])
    /\ subscribed' = (subscribed /\ ~(s = RemovalCall /\ kind = "return"))
    /\ UNCHANGED <<emitted, calls, pc, mine, got, result, err, crossed, loopVars,
                   active, life>>

-------------------------------------------------------------------------------
(* Connection::send_with_reply_and_block.                                    *)

\* Entering libdbus with serial s: the call is sent and the thread blocks,
\* unless the shared error record is set, in which case libdbus returns NULL
\* without sending anything.
Enter(t, s) ==
    /\ pc[t] = "idle"
    /\ mine' = [mine EXCEPT ![t] = s]
    /\ got' = [got EXCEPT ![t] = NoReply]
    /\ result' = [result EXCEPT ![t] = NoReply]
    /\ pc' = [pc EXCEPT ![t] = IF err THEN "returned" ELSE "blocked"]
    /\ requests' = IF err THEN requests ELSE requests \cup {s}
    /\ crossed' = crossed \ {t}
    /\ UNCHANGED <<incoming, subscribed, emitted, answer, err, loopVars, active>>

\* An application thread calls while the object is open; the async thread
\* calls from a user callback, that is, while it handles a signal.
Call(t) ==
    /\ calls < MaxCalls
    /\ IF t = AsyncThread THEN loop = "handling" ELSE life = "open"
    /\ Enter(t, calls + 1)
    /\ calls' = calls + 1
    /\ UNCHANGED life

IsReplyTo(m, s) == ~IsSignal(m) /\ m.id = s

\* dbus_set_error_from_message: an error message becomes NULL and its text goes
\* into err, unless err is set already; then libdbus refuses to overwrite it and
\* hands the error message itself back as the reply.
HandOver(t, m) ==
    /\ got' = [got EXCEPT ![t] = IF m.kind = "error" /\ ~err THEN NoReply ELSE m]
    /\ err' = (err \/ m.kind = "error")
    /\ crossed' = IF err' /\ ~err
                  THEN crossed \cup {u \in Threads \ {t} : pc[u] = "blocked"}
                  ELSE crossed
    /\ pc' = [pc EXCEPT ![t] = "returned"]

\* Mutant of TakeReply: the serial of the reply is not compared.
TakeAnyReply(t) ==
    /\ pc[t] = "blocked"
    /\ \E i \in DOMAIN incoming :
          /\ ~IsSignal(incoming[i])
          /\ incoming' = RemoveAt(incoming, i)
          /\ HandOver(t, incoming[i])
    /\ UNCHANGED <<subscribed, emitted, requests, answer, calls, mine, result,
                   loopVars, active, life>>

TakeReply(t) ==
    /\ pc[t] = "blocked"
    /\ \E i \in DOMAIN incoming :
          /\ IsReplyTo(incoming[i], mine[t])
          /\ incoming' = RemoveAt(incoming, i)
          /\ HandOver(t, incoming[i])
    /\ UNCHANGED <<subscribed, emitted, requests, answer, calls, mine, result,
                   loopVars, active, life>>

\* Mutant of TimeOut: the call waits for its reply for ever.
NoTimeOut(t) == FALSE

\* After the default 25 s libdbus makes an error message of its own, NoReply, and
\* treats it as the reply.
TimeOut(t) ==
    /\ pc[t] = "blocked"
    /\ \A i \in DOMAIN incoming : ~IsReplyTo(incoming[i], mine[t])
    /\ HandOver(t, [kind |-> "error", id |-> mine[t]])
    /\ UNCHANGED <<incoming, subscribed, emitted, requests, answer, calls, mine, result,
                   loopVars, active, life>>

\* dbus_error_is_set(&err): the reply is returned, or the error is reported.
CheckError(t) ==
    /\ pc[t] = "returned"
    /\ IF err
       THEN /\ pc' = [pc EXCEPT ![t] = "clearing"]
            /\ UNCHANGED result
       ELSE /\ pc' = [pc EXCEPT ![t] = "idle"]
            /\ result' = [result EXCEPT ![t] = got[t]]
    /\ UNCHANGED <<incoming, subscribed, emitted, requests, answer, calls, mine, got,
                   err, crossed, loopVars, active, life>>

\* Mutant of FreeError: the error is reported and not freed.
KeepError(t) ==
    /\ pc[t] = "clearing"
    /\ pc' = [pc EXCEPT ![t] = "idle"]
    /\ UNCHANGED <<incoming, subscribed, emitted, requests, answer, calls, mine, got,
                   result, err, crossed, loopVars, active, life>>

\* dbus_error_free(&err); return Message(): a reply that came is dropped.
FreeError(t) ==
    /\ pc[t] = "clearing"
    /\ err' = FALSE
    /\ pc' = [pc EXCEPT ![t] = "idle"]
    /\ UNCHANGED <<incoming, subscribed, emitted, requests, answer, calls, mine, got,
                   result, crossed, loopVars, active, life>>

-------------------------------------------------------------------------------
(* NativeBleInternal::async_thread_function and BluezService::run_async.     *)

CheckActive ==
    /\ loop = "check"
    /\ loop' = IF active THEN "pop" ELSE "ended"
    /\ UNCHANGED <<incoming, subscribed, emitted, callVars, current, handled, active, life>>

\* Mutant of Pop: the queue is served newest first.
PopNewest ==
    /\ loop = "pop"
    /\ IF incoming = <<>>
       THEN /\ loop' = "check"
            /\ UNCHANGED <<incoming, current>>
       ELSE /\ incoming' = Front(incoming)
            /\ IF IsSignal(Last(incoming))
               THEN loop' = "handling" /\ current' = Last(incoming).id
               ELSE loop' = "check" /\ UNCHANGED current
    /\ UNCHANGED <<subscribed, emitted, callVars, handled, active, life>>

\* Mutant of Pop: a message that is not a signal is left for its caller.
PopSignalsOnly ==
    /\ loop = "pop"
    /\ IF incoming # <<>> /\ IsSignal(Head(incoming))
       THEN /\ incoming' = Tail(incoming)
            /\ loop' = "handling"
            /\ current' = Head(incoming).id
       ELSE loop' = "check" /\ UNCHANGED <<incoming, current>>
    /\ UNCHANGED <<subscribed, emitted, callVars, handled, active, life>>

\* read_write_pop takes the head of the queue whatever it is; everything that
\* is not a signal is dropped, the reply another thread waits for included.
Pop ==
    /\ loop = "pop"
    /\ IF incoming = <<>>
       THEN /\ loop' = "check"
            /\ UNCHANGED <<incoming, current>>
       ELSE /\ incoming' = Tail(incoming)
            /\ IF IsSignal(Head(incoming))
               THEN loop' = "handling" /\ current' = Head(incoming).id
               ELSE loop' = "check" /\ UNCHANGED current
    /\ UNCHANGED <<subscribed, emitted, callVars, handled, active, life>>

\* Mutant of FinishHandling: every pass of the loop counts as a signal.
FinishAnyPass ==
    /\ loop \in {"pop", "handling"}
    /\ pc[AsyncThread] = "idle"
    /\ handled' = Append(handled, current)
    /\ current' = NoSignal
    /\ loop' = "check"
    /\ UNCHANGED <<incoming, subscribed, emitted, callVars, active, life>>

\* process_received_signal returns, the user callbacks it ran included.
FinishHandling ==
    /\ loop = "handling"
    /\ pc[AsyncThread] = "idle"
    /\ handled' = Append(handled, current)
    /\ current' = NoSignal
    /\ loop' = "check"
    /\ UNCHANGED <<incoming, subscribed, emitted, callVars, active, life>>

-------------------------------------------------------------------------------
(* ~NativeBleInternal, ~BluezService and ~Connection, in that order.         *)

\* Mutant of Destroy: async_thread_active is not cleared.
DestroyActive ==
    /\ life = "open"
    /\ \A t \in AppThreads : pc[t] = "idle"
    /\ life' = IF loop = "absent" THEN "faulted" ELSE "joining"
    /\ UNCHANGED <<incoming, subscribed, emitted, callVars, loopVars, active>>

\* The application destroys the object when none of its threads is using it.
\* Without an adapter async_thread is a null pointer and joinable() faults.
Destroy ==
    /\ life = "open"
    /\ \A t \in AppThreads : pc[t] = "idle"
    /\ active' = FALSE
    /\ life' = IF loop = "absent" THEN "faulted" ELSE "joining"
    /\ UNCHANGED <<incoming, subscribed, emitted, callVars, loopVars>>

\* Mutant of RemoveMatch: the thread is not joined.
RemoveMatchNoJoin(t) ==
    /\ life = "joining"
    /\ Enter(t, RemovalCall)
    /\ life' = "removing"
    /\ UNCHANGED calls

\* join() has returned; ~BluezService calls remove_match, a blocking call to
\* the bus that fails and reports its error the way every other call does.
RemoveMatch(t) ==
    /\ life = "joining"
    /\ loop = "ended"
    /\ Enter(t, RemovalCall)
    /\ life' = "removing"
    /\ UNCHANGED calls

StartFlush ==
    /\ life = "removing"
    /\ \A t \in AppThreads : pc[t] = "idle"
    /\ life' = "flushing"
    /\ UNCHANGED <<incoming, subscribed, emitted, callVars, loopVars, active>>

\* ~Connection pops until nothing is left, then drops the connection.
Flush ==
    /\ life = "flushing"
    /\ IF incoming = <<>>
       THEN life' = "closed" /\ UNCHANGED incoming
       ELSE incoming' = Tail(incoming) /\ UNCHANGED life
    /\ UNCHANGED <<subscribed, emitted, callVars, loopVars, active>>

Stopped ==
    /\ life \in {"closed", "faulted"}
    /\ UNCHANGED vars

-------------------------------------------------------------------------------
AsyncStep == CheckActive \/ Pop \/ FinishHandling

ReturnStep(t) == TakeReply(t) \/ TimeOut(t) \/ CheckError(t) \/ FreeError(t)

DestructorStep == (\E t \in AppThreads : RemoveMatch(t)) \/ StartFlush \/ Flush

Next ==
    \/ Emit
    \/ \E s \in Serials, kind \in {"return", "error"} : Answer(s, kind)
    \/ \E t \in Threads : Call(t) \/ ReturnStep(t)
    \/ AsyncStep
    \/ Destroy
    \/ DestructorStep
    \/ Stopped

\* The scheduler runs every thread, and a blocked call waits 25 s at most.
\* Nothing is assumed of the peers, nor of when the application calls.
Fairness ==
    /\ WF_vars(AsyncStep)
    /\ \A t \in Threads : WF_vars(ReturnStep(t))
    /\ WF_vars(DestructorStep)

Spec == Init /\ [][Next]_vars /\ Fairness

-------------------------------------------------------------------------------
(* Properties.                                                               *)

\* libdbus refuses a call made with the error record already set
\* (Connection.cpp:76), so a set record that nobody is about to look at would
\* refuse every later call.  Two threads may set, read and free the same
\* record in any order, and still the last of them leaves it clear.
NoPoisonedError ==
    (\A t \in Threads : pc[t] \in {"idle", "blocked"}) => ~err

\* A valid Message that a call returns (Connection.cpp:83) is the answer to that
\* call, never a late reply to an earlier one nor the reply another thread waits
\* for, and it is a success the peer sent.  A failed call looks good in one case
\* only: the error of another call was put into the shared record while this one
\* was blocked.
ReplyIsOwn ==
    \A t \in Threads :
        result[t] # NoReply =>
            /\ result[t].id = mine[t]
            /\ result[t].kind = "return" => answer[mine[t]] = "return"
            /\ result[t].kind = "error" => t \in crossed

\* While ~Connection flushes and drops the connection no other code uses it:
\* the async thread has left its loop, with every callback it was running,
\* and no thread is inside a call.
NoUseAfterClose ==
    life \in {"flushing", "closed"} =>
        /\ loop = "ended"
        /\ current = NoSignal
        /\ \A t \in Threads : pc[t] = "idle"

\* Signals are delivered as SignalChannel promises, although blocked calls take
\* their replies out of the middle of the queue the signals are in.
SignalsOf(queue) == LET signals == Selected(queue, Signal) IN [k \in DOMAIN signals |-> signals[k].id]

Channel == INSTANCE SignalChannel WITH
    sent <- emitted,
    pending <- (IF current = NoSignal THEN <<>> ELSE <<current>>) \o SignalsOf(incoming),
    delivered <- handled,
    open <- life \notin {"flushing", "closed"}

ChannelImplemented == Channel!Spec

\* Every call returns, even one whose reply the async thread has dropped.
CallReturns == \A t \in Threads : (pc[t] = "blocked") ~> (pc[t] = "idle")

\* The destructor returns whatever the async thread was doing.
DestroyReturns == (life = "joining") ~> (life = "closed")

\* A reply nobody waits for any more does not hold up the signals behind it:
\* the queue drains.
QueueDrains == (incoming # <<>>) ~> (incoming = <<>>)
===============================================================================
