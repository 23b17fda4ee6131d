------------------------- MODULE DBusConnection_proofs -------------------------
(***************************************************************************)
(* Theorems about DBusConnection, for any number of threads, signals and   *)
(* calls.                                                                  *)
(***************************************************************************)
EXTENDS DBusConnection, TLAPS, SequenceTheorems, QueueLemmas

\* Taking an element out of a sequence leaves a sequence of other elements of it.
LEMMA RemoveAtProperties ==
    ASSUME NEW S, NEW s \in Seq(S), NEW i \in DOMAIN s
    PROVE  /\ RemoveAt(s, i) \in Seq(S)
           /\ \A j \in DOMAIN RemoveAt(s, i) : \E k \in DOMAIN s : RemoveAt(s, i)[j] = s[k]
           /\ DOMAIN RemoveAt(s, i) = 1..(Len(s) - 1)
           /\ \A j \in 1..(Len(s) - 1) : RemoveAt(s, i)[j] = IF j < i THEN s[j] ELSE s[j + 1]
<1>1. i \in 1..Len(s) /\ Len(s) \in Nat
  OBVIOUS
<1> DEFINE a == SubSeq(s, 1, i - 1)
           b == SubSeq(s, i + 1, Len(s))
<1>2. /\ a \in Seq(S) /\ Len(a) = i - 1
      /\ \A j \in 1..(i - 1) : a[j] = s[j]
  BY <1>1
<1>3. /\ b \in Seq(S) /\ Len(b) = Len(s) - i
      /\ \A j \in 1..(Len(s) - i) : b[j] = s[i + j]
  BY <1>1
<1>4. RemoveAt(s, i) = a \o b
  BY DEF RemoveAt
<1> HIDE DEF a, b
<1>5. /\ a \o b \in Seq(S) /\ Len(a \o b) = Len(s) - 1
      /\ \A j \in 1..(Len(s) - 1) :
            (a \o b)[j] = IF j <= i - 1 THEN a[j] ELSE b[j - (i - 1)]
  BY <1>1, <1>2, <1>3, SMTT(20)
<1>6. ASSUME NEW j \in DOMAIN (a \o b)
      PROVE  \E k \in DOMAIN s : (a \o b)[j] = s[k]
  <2>1. j \in 1..(Len(s) - 1) /\ DOMAIN s = 1..Len(s)
    BY <1>1, <1>5
  <2>2. CASE j <= i - 1
    <3>1. (a \o b)[j] = s[j] /\ j \in 1..Len(s)
      BY <1>1, <1>2, <1>5, <2>1, <2>2
    <3> QED BY <2>1, <3>1
  <2>3. CASE ~(j <= i - 1)
    <3>1. (a \o b)[j] = b[j - (i - 1)]
      BY <1>5, <2>1, <2>3
    <3>2. j - (i - 1) \in 1..(Len(s) - i) /\ i + (j - (i - 1)) \in 1..Len(s)
      BY <1>1, <2>1, <2>3
    <3>3. b[j - (i - 1)] = s[i + (j - (i - 1))]
      BY <1>3, <3>2
    <3> QED BY <2>1, <3>1, <3>2, <3>3
  <2> QED BY <2>2, <2>3
<1>7. ASSUME NEW j \in 1..(Len(s) - 1)
      PROVE  (a \o b)[j] = IF j < i THEN s[j] ELSE s[j + 1]
  <2>1. CASE j < i
    <3>1. j <= i - 1 /\ j \in 1..(i - 1)
      BY <1>1, <2>1
    <3> QED BY <1>2, <1>5, <2>1, <3>1
  <2>2. CASE ~(j < i)
    <3>1. ~(j <= i - 1) /\ j - (i - 1) \in 1..(Len(s) - i) /\ i + (j - (i - 1)) = j + 1
      BY <1>1, <2>2
    <3> QED BY <1>3, <1>5, <2>2, <3>1
  <2> QED BY <2>1, <2>2
<1>8. DOMAIN (a \o b) = 1..(Len(s) - 1)
  BY <1>1, <1>5
<1> QED BY <1>4, <1>5, <1>6, <1>7, <1>8

-------------------------------------------------------------------------------
(* Type correctness.                                                         *)

\* The types, and what the async thread is doing: it holds a signal exactly while
\* it handles one, and only then is it inside a call.  A thread inside a call has
\* the serial of it.
LoopInv ==
    /\ (loop = "handling") <=> (current # NoSignal)
    /\ pc[AsyncThread] # "idle" => loop = "handling"
    /\ \A t \in Threads : pc[t] # "idle" => mine[t] \in Serials

TypeInv == TypeOK /\ LoopInv

\* A reply in the queue is a Reply, and a signal a Signal.
LEMMA MessageKinds ==
    ASSUME NEW m \in Message
    PROVE  /\ IsSignal(m) => m.id \in 1..MaxSignals
           /\ ~IsSignal(m) => m \in Reply /\ m.kind \in {"return", "error"} /\ m.id \in Serials
BY DEF Message, Signal, Reply, IsSignal

LEMMA SerialsAreNumbers == Serials \subseteq Nat \ {0} /\ RemovalCall \in Serials
BY BoundsAssumption DEF Serials, RemovalCall

LEMMA TypeInit == Init => TypeInv
<1> SUFFICES ASSUME Init PROVE TypeInv
  OBVIOUS
<1>1. TypeOK
  <2>1. /\ incoming \in Seq(Message) /\ handled \in Seq(1..MaxSignals)
        /\ emitted \in 0..MaxSignals /\ calls \in 0..MaxCalls
    BY BoundsAssumption DEF Init
  <2>2. loop \in {"check", "absent"}
    BY DEF Init
  <2> QED BY <2>1, <2>2 DEF Init, TypeOK, NoReply, NoSignal
<1>2. LoopInv
  BY DEF Init, LoopInv, Threads
<1> QED BY <1>1, <1>2 DEF TypeInv

\* Entering a call keeps the types of what it assigns.
LEMMA EnterType ==
    ASSUME TypeOK, NEW t \in Threads, NEW s \in Serials, Enter(t, s)
    PROVE  /\ mine' \in [Threads -> Serials \cup {0}]
           /\ got' \in [Threads -> Reply \cup {NoReply}]
           /\ result' \in [Threads -> Reply \cup {NoReply}]
           /\ crossed' \subseteq Threads
           /\ pc' \in [Threads -> {"idle", "blocked", "returned", "clearing"}]
           /\ requests' \subseteq Serials
BY DEF Enter, TypeOK

\* So does handing a message over.
LEMMA HandOverType ==
    ASSUME TypeOK, NEW t \in Threads, NEW m \in Reply, HandOver(t, m)
    PROVE  /\ got' \in [Threads -> Reply \cup {NoReply}]
           /\ err' \in BOOLEAN
           /\ crossed' \subseteq Threads
           /\ pc' \in [Threads -> {"idle", "blocked", "returned", "clearing"}]
           /\ \A u \in Threads : pc'[u] # "idle" => pc[u] # "idle" \/ u = t
BY DEF HandOver, TypeOK

LEMMA TypeNext == TypeInv /\ [Next]_vars => TypeInv'
<1> SUFFICES ASSUME TypeInv, [Next]_vars PROVE TypeInv'
  OBVIOUS
<1> USE DEF TypeInv
<1>0. /\ AsyncThread \in Threads /\ AppThreads \subseteq Threads /\ AsyncThread \notin AppThreads
      /\ MaxCalls \in Nat /\ MaxSignals \in Nat
  BY ThreadsAssumption, BoundsAssumption DEF Threads
<1>1. CASE Emit
  <2>1. [kind |-> "signal", id |-> emitted + 1] \in Message /\ emitted' \in 0..MaxSignals
    BY <1>0, <1>1 DEF Emit, TypeOK, Message, Signal
  <2>2. incoming' \in Seq(Message)
    BY <1>1, <2>1 DEF Emit, TypeOK
  <2> QED BY <1>1, <2>1, <2>2 DEF Emit, TypeOK, LoopInv, callVars, loopVars
<1>2. ASSUME NEW s \in Serials, NEW kind \in {"return", "error"}, Answer(s, kind)
      PROVE  TypeInv'
  <2>1. [kind |-> kind, id |-> s] \in Message
    BY DEF Message, Reply
  <2>2. incoming' \in Seq(Message)
    BY <1>2, <2>1 DEF Answer, TypeOK
  <2>3. answer' \in [Serials -> {"none", "return", "error"}]
    BY <1>2 DEF Answer, TypeOK
  <2> QED BY <1>2, <2>2, <2>3 DEF Answer, TypeOK, LoopInv, loopVars
<1>3. ASSUME NEW t \in Threads, Call(t)
      PROVE  TypeInv'
  <2>1. calls + 1 \in Serials /\ calls' \in 0..MaxCalls
    BY <1>0, <1>3 DEF Call, TypeOK, Serials, RemovalCall
  <2>2. Enter(t, calls + 1)
    BY <1>3 DEF Call
  <2>3. TypeOK'
    BY <1>3, <2>1, <2>2, EnterType DEF Call, Enter, TypeOK, loopVars
  <2>4. LoopInv'
    <3>1. /\ pc' = [pc EXCEPT ![t] = pc'[t]] /\ mine' = [mine EXCEPT ![t] = calls + 1]
          /\ UNCHANGED <<loop, current>> /\ (t = AsyncThread => loop = "handling")
      BY <1>3, <2>2 DEF Call, Enter, TypeOK, loopVars
    <3>2. \A u \in Threads : pc'[u] # "idle" => mine'[u] \in Serials
      BY <2>1, <3>1 DEF TypeOK, LoopInv
    <3>3. pc'[AsyncThread] # "idle" => loop' = "handling"
      BY <1>0, <3>1 DEF TypeOK, LoopInv
    <3> QED BY <3>1, <3>2, <3>3 DEF LoopInv
  <2> QED BY <2>3, <2>4
<1>4. ASSUME NEW t \in Threads, TakeReply(t)
      PROVE  TypeInv'
  <2>1. PICK i \in DOMAIN incoming :
          /\ IsReplyTo(incoming[i], mine[t])
          /\ incoming' = RemoveAt(incoming, i)
          /\ HandOver(t, incoming[i])
    BY <1>4 DEF TakeReply
  <2>2. incoming[i] \in Reply
    BY <2>1, MessageKinds DEF TypeOK, IsReplyTo
  <2>3. incoming' \in Seq(Message)
    BY <2>1, RemoveAtProperties DEF TypeOK
  <2>4. TypeOK'
    BY <1>4, <2>1, <2>2, <2>3, HandOverType DEF TakeReply, TypeOK, loopVars
  <2>5. LoopInv'
    BY <1>0, <1>4, <2>1, <2>2, HandOverType DEF TakeReply, LoopInv, loopVars
  <2> QED BY <2>4, <2>5
<1>5. ASSUME NEW t \in Threads, TimeOut(t)
      PROVE  TypeInv'
  <2>1. PICK m : m = [kind |-> "error", id |-> mine[t]]
    OBVIOUS
  <2>2. m \in Reply /\ HandOver(t, m)
    BY <1>5, <2>1 DEF TimeOut, Reply, LoopInv
  <2>3. TypeOK'
    BY <1>5, <2>2, HandOverType DEF TimeOut, TypeOK, loopVars
  <2>4. LoopInv'
    BY <1>0, <1>5, <2>2, HandOverType DEF TimeOut, LoopInv, loopVars
  <2> QED BY <2>3, <2>4
<1>6. ASSUME NEW t \in Threads, CheckError(t)
      PROVE  TypeInv'
  <2>1. TypeOK'
    BY <1>6 DEF CheckError, TypeOK, loopVars
  <2>2. LoopInv'
    <3>1. \A u \in Threads : pc'[u] # "idle" => pc[u] # "idle"
      BY <1>6 DEF CheckError, TypeOK
    <3> QED BY <1>0, <1>6, <3>1 DEF CheckError, LoopInv, loopVars
  <2> QED BY <2>1, <2>2
<1>7. ASSUME NEW t \in Threads, FreeError(t)
      PROVE  TypeInv'
  <2>1. TypeOK'
    BY <1>7 DEF FreeError, TypeOK, loopVars
  <2>2. LoopInv'
    BY <1>7 DEF FreeError, TypeOK, LoopInv, loopVars
  <2> QED BY <2>1, <2>2
<1>8. CASE CheckActive
  BY <1>8 DEF CheckActive, TypeOK, LoopInv, callVars
<1>9. CASE Pop
  <2>1. CASE incoming = <<>>
    BY <1>9, <2>1 DEF Pop, TypeOK, LoopInv, callVars
  <2>2. CASE incoming # <<>>
    <3>1. Head(incoming) \in Message /\ Tail(incoming) \in Seq(Message)
      BY <2>2 DEF TypeOK
    <3>2. IsSignal(Head(incoming)) => Head(incoming).id \in 1..MaxSignals
      BY <3>1, MessageKinds
    <3>3. current' \in (1..MaxSignals) \cup {NoSignal} /\ loop' \in {"check", "handling"}
      BY <1>9, <2>2, <3>2 DEF Pop, TypeOK
    <3>4. TypeOK'
      BY <1>9, <2>2, <3>1, <3>3 DEF Pop, TypeOK, callVars
    <3>5. LoopInv'
      BY <1>0, <1>9, <2>2, <3>2 DEF Pop, TypeOK, LoopInv, callVars, NoSignal
    <3> QED BY <3>4, <3>5
  <2> QED BY <2>1, <2>2
<1>10. CASE FinishHandling
  <2>1. current \in 1..MaxSignals
    BY <1>10 DEF FinishHandling, TypeOK, LoopInv
  <2>2. handled' \in Seq(1..MaxSignals)
    BY <1>10, <2>1 DEF FinishHandling, TypeOK
  <2> QED BY <1>10, <2>2 DEF FinishHandling, TypeOK, LoopInv, callVars
<1>11. CASE Destroy
  BY <1>11 DEF Destroy, TypeOK, LoopInv, callVars, loopVars
<1>12. ASSUME NEW t \in AppThreads, RemoveMatch(t)
       PROVE  TypeInv'
  <2>1. t \in Threads /\ RemovalCall \in Serials /\ Enter(t, RemovalCall)
    BY <1>0, <1>12, SerialsAreNumbers DEF RemoveMatch
  <2>2. TypeOK'
    BY <1>12, <2>1, EnterType DEF RemoveMatch, Enter, TypeOK, loopVars
  <2>3. LoopInv'
    BY <1>0, <1>12, <2>1 DEF RemoveMatch, Enter, TypeOK, LoopInv, loopVars
  <2> QED BY <2>2, <2>3
<1>13. CASE StartFlush
  BY <1>13 DEF StartFlush, TypeOK, LoopInv, callVars, loopVars
<1>14. CASE Flush
  <2>1. incoming' \in Seq(Message)
    <3>1. incoming # <<>> => Tail(incoming) \in Seq(Message)
      BY DEF TypeOK
    <3> QED BY <1>14, <3>1 DEF Flush, TypeOK
  <2> QED BY <1>14, <2>1 DEF Flush, TypeOK, LoopInv, callVars, loopVars
<1>15. CASE UNCHANGED vars
  BY <1>15 DEF vars, TypeOK, LoopInv, callVars, loopVars
<1> QED
  BY <1>1, <1>2, <1>3, <1>4, <1>5, <1>6, <1>7, <1>8, <1>9, <1>10, <1>11, <1>12, <1>13,
     <1>14, <1>15 DEF Next, ReturnStep, AsyncStep, DestructorStep, Stopped

\* In every behaviour the state has its types, and the async thread is inside a call
\* only while it handles a signal.
THEOREM TypeCorrect == Spec => []TypeOK
<1>1. TypeInv => TypeOK
  BY DEF TypeInv
<1> QED BY <1>1, TypeInit, TypeNext, PTL DEF Spec

-------------------------------------------------------------------------------
(* The shared error record.                                                  *)

\* A set error record has a thread that is about to look at it or to free it:
\* NoPoisonedError turned round, and inductive as it stands.
LEMMA ErrorInit == Init => NoPoisonedError
BY DEF Init, NoPoisonedError

LEMMA ErrorNext == TypeInv /\ NoPoisonedError /\ [Next]_vars => NoPoisonedError'
<1> SUFFICES ASSUME TypeInv, NoPoisonedError, [Next]_vars PROVE NoPoisonedError'
  OBVIOUS
<1> DEFINE Attended(t) == pc[t] \notin {"idle", "blocked"}
<1>0. pc \in [Threads -> {"idle", "blocked", "returned", "clearing"}] /\ AppThreads \subseteq Threads
  BY DEF TypeInv, TypeOK, Threads
<1>1. err => \E t \in Threads : Attended(t)
  BY DEF NoPoisonedError
<1> SUFFICES ASSUME err' PROVE \E t \in Threads : Attended(t)'
  BY DEF NoPoisonedError
<1>2. CASE err' = err /\ pc' = pc
  BY <1>1, <1>2
<1>3. ASSUME NEW t \in Threads, NEW s, Enter(t, s)
      PROVE  \E u \in Threads : Attended(u)'
  <2>1. err /\ pc' = [pc EXCEPT ![t] = "returned"]
    BY <1>3 DEF Enter
  <2> QED BY <1>0, <2>1
<1>4. ASSUME NEW t \in Threads, TakeReply(t) \/ TimeOut(t)
      PROVE  \E u \in Threads : Attended(u)'
  <2>1. pc' = [pc EXCEPT ![t] = "returned"]
    BY <1>4 DEF TakeReply, TimeOut, HandOver
  <2> QED BY <1>0, <2>1
<1>5. ASSUME NEW t \in Threads, CheckError(t)
      PROVE  \E u \in Threads : Attended(u)'
  <2>1. pc' = [pc EXCEPT ![t] = "clearing"]
    BY <1>5 DEF CheckError
  <2> QED BY <1>0, <2>1
<1>6. ASSUME NEW t \in Threads, FreeError(t)
      PROVE  FALSE
  BY <1>6 DEF FreeError
<1> QED
  <2>1. CASE Emit \/ AsyncStep \/ Destroy \/ StartFlush \/ Flush \/ Stopped \/ UNCHANGED vars
    BY <1>2, <2>1 DEF Emit, AsyncStep, CheckActive, Pop, FinishHandling, Destroy, StartFlush,
                      Flush, Stopped, vars, callVars
  <2>2. ASSUME NEW s \in Serials, NEW kind \in {"return", "error"}, Answer(s, kind)
        PROVE  \E t \in Threads : Attended(t)'
    BY <1>2, <2>2 DEF Answer
  <2>3. ASSUME NEW t \in Threads, Call(t)
        PROVE  \E u \in Threads : Attended(u)'
    BY <1>3, <2>3 DEF Call
  <2>4. ASSUME NEW t \in AppThreads, RemoveMatch(t)
        PROVE  \E u \in Threads : Attended(u)'
    BY <1>0, <1>3, <2>4 DEF RemoveMatch
  <2>5. ASSUME NEW t \in Threads, ReturnStep(t)
        PROVE  \E u \in Threads : Attended(u)'
    BY <1>4, <1>5, <1>6, <2>5 DEF ReturnStep
  <2> QED BY <2>1, <2>2, <2>3, <2>4, <2>5 DEF Next, DestructorStep

\* However the threads interleave, the shared error record is clear whenever nobody
\* is about to look at it: no call is refused because of an error long reported.
THEOREM ErrorNeverPoisoned == Spec => []NoPoisonedError
<1>1. TypeInv /\ NoPoisonedError /\ [Next]_vars => (TypeInv /\ NoPoisonedError)'
  BY TypeNext, ErrorNext
<1>2. Init => TypeInv /\ NoPoisonedError
  BY TypeInit, ErrorInit
<1> QED BY <1>1, <1>2, PTL DEF Spec

-------------------------------------------------------------------------------
(* Replies and their calls.                                                  *)

Answered(s) == answer[s] = "return"

\* A serial that no call has used: no answer can come for it.
Fresh(s) ==
    IF s = RemovalCall THEN life \in {"open", "joining"} ELSE s > calls

\* What libdbus handed a thread, or the thread returned, and what it may be.
Justified(m, t) ==
    m # NoReply =>
        /\ m.id = mine[t]
        /\ m.kind = "return" => Answered(mine[t])
        /\ m.kind = "error" => t \in crossed

\* Success travels with its serial: in the queue, in the hands of libdbus and in
\* the result of a call a reply is one the peer sent for that serial.  A serial is
\* answered once, so what holds of an answer goes on to hold.  A thread that is
\* blocked while the record is set was blocked when it was set, because libdbus
\* refuses a call that finds it set.
ReplyInv ==
    /\ \A i \in DOMAIN incoming : incoming[i].kind = "return" => Answered(incoming[i].id)
    /\ \A t \in Threads : Justified(got[t], t) /\ Justified(result[t], t)
    /\ \A t \in Threads : err /\ pc[t] = "blocked" => t \in crossed
    /\ \A s \in requests : answer[s] = "none"
    /\ \A s \in Serials : Fresh(s) => answer[s] = "none" /\ s \notin requests

LEMMA ReplyInit == Init => ReplyInv
BY DEF Init, ReplyInv, NoReply, Justified

\* Leaving answers, calls and hands alone, and putting nothing into the queue.
LEMMA ReplyFrame ==
    ASSUME TypeInv, ReplyInv, UNCHANGED <<callVars, life>>,
           \A i \in DOMAIN incoming' : \E k \in DOMAIN incoming :
              incoming'[i] = incoming[k]
    PROVE  ReplyInv'
BY DEF ReplyInv, Justified, Answered, Fresh, callVars

\* Entering a call with a fresh serial.
LEMMA ReplyEnter ==
    ASSUME TypeInv, ReplyInv, NEW t \in Threads, NEW s \in Serials, Fresh(s), Enter(t, s),
           \A u \in Serials : Fresh(u)' => Fresh(u) /\ u # s
    PROVE  ReplyInv'
<1>1. /\ mine \in [Threads -> Serials \cup {0}]
      /\ got \in [Threads -> Reply \cup {NoReply}]
      /\ result \in [Threads -> Reply \cup {NoReply}]
      /\ pc \in [Threads -> {"idle", "blocked", "returned", "clearing"}]
  BY DEF TypeInv, TypeOK
<1>2. \A r \in requests' : answer'[r] = "none"
  BY DEF Enter, ReplyInv
<1>3. \A u \in Serials : Fresh(u)' => answer'[u] = "none" /\ u \notin requests'
  BY DEF Enter, ReplyInv
<1>4. ASSUME NEW u \in Threads PROVE Justified(got[u], u)' /\ Justified(result[u], u)'
  <2>1. CASE u = t
    <3>1. got'[u] = NoReply /\ result'[u] = NoReply
      BY <1>1, <2>1 DEF Enter
    <3> QED BY <3>1 DEF Justified
  <2>2. CASE u # t
    <3>1. /\ got'[u] = got[u] /\ result'[u] = result[u] /\ mine'[u] = mine[u]
          /\ answer' = answer /\ (u \in crossed => u \in crossed')
      BY <1>1, <2>2 DEF Enter
    <3>2. Justified(got[u], u) /\ Justified(result[u], u)
      BY DEF ReplyInv
    <3> QED BY <3>1, <3>2 DEF Justified, Answered
  <2> QED BY <2>1, <2>2
<1>5. ASSUME NEW u \in Threads, err', pc'[u] = "blocked" PROVE u \in crossed'
  <2>1. err /\ u # t /\ pc'[u] = pc[u]
    BY <1>1, <1>5 DEF Enter
  <2> QED BY <1>5, <2>1 DEF Enter, ReplyInv
<1>6. \A i \in DOMAIN incoming' : incoming'[i].kind = "return" => Answered(incoming[i].id)'
  BY DEF Enter, ReplyInv, Answered
<1> QED BY <1>2, <1>3, <1>4, <1>5, <1>6 DEF ReplyInv, Enter

\* A thread that is handed an answer to its call, or an error, keeps the invariant.
LEMMA ReplyHandOver ==
    ASSUME TypeInv, ReplyInv, NEW t \in Threads, pc[t] = "blocked", NEW m \in Reply,
           m.id = mine[t], m.kind = "return" => Answered(mine[t]), HandOver(t, m),
           UNCHANGED <<requests, answer, calls, mine, result, life>>,
           \A i \in DOMAIN incoming' : \E k \in DOMAIN incoming :
              incoming'[i] = incoming[k]
    PROVE  ReplyInv'
<1>1. /\ got \in [Threads -> Reply \cup {NoReply}]
      /\ pc \in [Threads -> {"idle", "blocked", "returned", "clearing"}]
  BY DEF TypeInv, TypeOK
<1>2. \A u \in Threads : u \in crossed => u \in crossed'
  BY DEF HandOver
<1>3. ASSUME NEW u \in Threads PROVE Justified(got[u], u)'
  <2>1. CASE u # t
    <3>1. got'[u] = got[u] /\ Justified(got[u], u)
      BY <1>1, <2>1 DEF HandOver, ReplyInv
    <3> QED BY <1>2, <3>1 DEF Justified, Answered
  <2>2. CASE u = t
    <3>1. got'[u] = IF m.kind = "error" /\ ~err THEN NoReply ELSE m
      BY <1>1, <2>2 DEF HandOver
    <3>2. m.kind = "error" /\ err => t \in crossed'
      BY <1>2 DEF ReplyInv
    <3> QED BY <2>2, <3>1, <3>2 DEF Justified, Answered
  <2> QED BY <2>1, <2>2
<1>4. ASSUME NEW u \in Threads PROVE Justified(result[u], u)'
  BY <1>2 DEF ReplyInv, Justified, Answered
<1>5. ASSUME NEW u \in Threads, err', pc'[u] = "blocked" PROVE u \in crossed'
  <2>1. u # t /\ pc[u] = "blocked"
    BY <1>1, <1>5 DEF HandOver
  <2>2. CASE err
    BY <1>2, <2>1, <2>2 DEF ReplyInv
  <2>3. CASE ~err
    BY <1>5, <2>1, <2>3 DEF HandOver
  <2> QED BY <2>2, <2>3
<1>6. \A i \in DOMAIN incoming' : incoming'[i].kind = "return" => answer'[incoming'[i].id] = "return"
  BY DEF ReplyInv, Answered
<1>7. /\ \A s \in requests' : answer'[s] = "none"
      /\ \A s \in Serials : Fresh(s)' => answer'[s] = "none" /\ s \notin requests'
  BY DEF ReplyInv, Fresh
<1> QED BY <1>3, <1>4, <1>5, <1>6, <1>7 DEF ReplyInv, Answered

LEMMA ReplyNext == TypeInv /\ ReplyInv /\ [Next]_vars => ReplyInv'
<1> SUFFICES ASSUME TypeInv, ReplyInv, [Next]_vars PROVE ReplyInv'
  OBVIOUS
<1>0. /\ incoming \in Seq(Message)
      /\ answer \in [Serials -> {"none", "return", "error"}]
      /\ mine \in [Threads -> Serials \cup {0}]
      /\ got \in [Threads -> Reply \cup {NoReply}]
      /\ result \in [Threads -> Reply \cup {NoReply}]
      /\ pc \in [Threads -> {"idle", "blocked", "returned", "clearing"}]
      /\ requests \subseteq Serials /\ calls \in 0..MaxCalls
  BY DEF TypeInv, TypeOK
<1>1. CASE Emit
  <2>1. \A i \in DOMAIN incoming' : incoming'[i].kind = "return" =>
           i \in DOMAIN incoming /\ incoming'[i] = incoming[i]
    BY <1>0, <1>1 DEF Emit
  <2> QED BY <1>1, <2>1 DEF Emit, ReplyInv, Justified, Answered, Fresh, callVars
<1>2. ASSUME NEW s \in Serials, NEW kind \in {"return", "error"}, Answer(s, kind)
      PROVE  ReplyInv'
  <2>1. /\ s \in requests /\ answer[s] = "none" /\ ~Fresh(s)
        /\ answer' = [answer EXCEPT ![s] = kind]
        /\ requests' = requests \ {s}
        /\ UNCHANGED <<calls, pc, mine, got, result, err, crossed, life>>
    BY <1>2 DEF Answer, ReplyInv
  <2>2. \A u \in Serials : answer[u] = "return" => answer'[u] = "return"
    BY <1>0, <2>1
  <2>3. \A i \in DOMAIN incoming' :
           \/ i \in DOMAIN incoming /\ incoming'[i] = incoming[i]
           \/ incoming'[i] = [kind |-> kind, id |-> s]
    BY <1>0, <1>2 DEF Answer
  <2>4. \A i \in DOMAIN incoming : incoming[i].kind = "return" => incoming[i].id \in Serials
    BY <1>0, MessageKinds DEF IsSignal
  <2>5. \A i \in DOMAIN incoming' : incoming'[i].kind = "return" => answer'[incoming'[i].id] = "return"
    BY <1>0, <2>1, <2>2, <2>3, <2>4 DEF ReplyInv, Answered
  <2>6. ASSUME NEW t \in Threads, NEW m \in Reply \cup {NoReply}, Justified(m, t)
        PROVE  Justified(m, t)'
    <3>1. m # NoReply => m.id \in Serials
      BY DEF Reply
    <3>2. m # NoReply => mine[t] \in Serials
      BY <2>6, <3>1 DEF Justified
    <3> QED BY <2>1, <2>2, <2>6, <3>2 DEF Justified, Answered
  <2>7. \A t \in Threads : Justified(got[t], t)' /\ Justified(result[t], t)'
    BY <1>0, <2>1, <2>6 DEF ReplyInv
  <2>8. \A u \in Serials : Fresh(u)' => Fresh(u) /\ u # s
    BY <1>2, <2>1 DEF Answer, Fresh
  <2>9. /\ \A r \in requests' : answer'[r] = "none"
        /\ \A u \in Serials : Fresh(u)' => answer'[u] = "none" /\ u \notin requests'
    BY <1>0, <2>1, <2>8 DEF ReplyInv
  <2>10. \A t \in Threads : err' /\ pc'[t] = "blocked" => t \in crossed'
    BY <2>1 DEF ReplyInv
  <2> QED BY <2>5, <2>7, <2>9, <2>10 DEF ReplyInv, Answered
<1>3. ASSUME NEW t \in Threads, Call(t)
      PROVE  ReplyInv'
  <2>1. calls + 1 \in Serials /\ calls + 1 # RemovalCall /\ Fresh(calls + 1)
    BY <1>0, <1>3, BoundsAssumption DEF Call, Serials, RemovalCall, Fresh
  <2>2. \A u \in Serials : Fresh(u)' => Fresh(u) /\ u # calls + 1
    BY <1>0, <1>3, <2>1, BoundsAssumption DEF Call, Serials, RemovalCall, Fresh
  <2> QED BY <1>3, <2>1, <2>2, ReplyEnter DEF Call
<1>4. ASSUME NEW t \in Threads, TakeReply(t)
      PROVE  ReplyInv'
  <2>1. PICK i \in DOMAIN incoming :
          /\ IsReplyTo(incoming[i], mine[t])
          /\ incoming' = RemoveAt(incoming, i)
          /\ HandOver(t, incoming[i])
    BY <1>4 DEF TakeReply
  <2>2. \A j \in DOMAIN incoming' : \E k \in DOMAIN incoming : incoming'[j] = incoming[k]
    BY <1>0, <2>1, RemoveAtProperties
  <2>3. incoming[i] \in Reply /\ incoming[i].id = mine[t]
    BY <1>0, <2>1, MessageKinds DEF IsReplyTo
  <2>4. incoming[i].kind = "return" => Answered(mine[t])
    BY <2>3 DEF ReplyInv
  <2>5. UNCHANGED <<requests, answer, calls, mine, result, life>> /\ pc[t] = "blocked"
    BY <1>4 DEF TakeReply
  <2> QED BY <2>1, <2>2, <2>3, <2>4, <2>5, ReplyHandOver
<1>5. ASSUME NEW t \in Threads, TimeOut(t)
      PROVE  ReplyInv'
  <2>1. PICK m : m = [kind |-> "error", id |-> mine[t]]
    OBVIOUS
  <2>2. m \in Reply /\ m.id = mine[t] /\ m.kind = "error"
    BY <1>5, <2>1 DEF TimeOut, Reply, TypeInv, LoopInv
  <2>3. UNCHANGED <<incoming, requests, answer, calls, mine, result, life>> /\ pc[t] = "blocked"
    BY <1>5 DEF TimeOut
  <2>4. HandOver(t, m)
    BY <1>5, <2>1 DEF TimeOut
  <2> QED BY <2>2, <2>3, <2>4, ReplyHandOver
<1>6. ASSUME NEW t \in Threads, CheckError(t) \/ FreeError(t)
      PROVE  ReplyInv'
  <2>1. /\ UNCHANGED <<incoming, requests, answer, calls, mine, got, crossed, life>>
        /\ err' => err
    BY <1>6 DEF CheckError, FreeError
  <2>2. \A u \in Threads : result'[u] \in {result[u], got[u]} /\ (pc'[u] = "blocked" => pc[u] = "blocked")
    BY <1>0, <1>6 DEF CheckError, FreeError
  <2>3. \A u \in Threads : Justified(got[u], u)' /\ Justified(result[u], u)'
    BY <2>1, <2>2 DEF ReplyInv, Justified, Answered
  <2>4. \A u \in Threads : err' /\ pc'[u] = "blocked" => u \in crossed'
    BY <2>1, <2>2 DEF ReplyInv
  <2> QED BY <2>1, <2>3, <2>4 DEF ReplyInv, Answered, Fresh
<1>7. CASE Pop
  <2>1. \A j \in DOMAIN incoming' : \E k \in DOMAIN incoming : incoming'[j] = incoming[k]
    <3>1. incoming # <<>> => \A j \in DOMAIN Tail(incoming) :
             j + 1 \in DOMAIN incoming /\ Tail(incoming)[j] = incoming[j + 1]
      BY <1>0
    <3> QED BY <1>7, <3>1 DEF Pop
  <2> QED BY <1>7, <2>1, ReplyFrame DEF Pop
<1>8. CASE CheckActive \/ FinishHandling \/ Stopped \/ UNCHANGED vars
  BY <1>8, ReplyFrame DEF CheckActive, FinishHandling, Stopped, vars
<1>9. CASE Destroy \/ StartFlush
  <2>1. UNCHANGED <<incoming, callVars>> /\ (life' \in {"open", "joining"} => life = "open")
    BY <1>9 DEF Destroy, StartFlush
  <2> QED BY <2>1 DEF ReplyInv, Justified, Answered, Fresh, callVars
<1>10. ASSUME NEW t \in AppThreads, RemoveMatch(t)
       PROVE  ReplyInv'
  <2>1. t \in Threads /\ RemovalCall \in Serials /\ Fresh(RemovalCall)
    BY <1>10, SerialsAreNumbers DEF Threads, RemoveMatch, Fresh
  <2>2. \A u \in Serials : Fresh(u)' => Fresh(u) /\ u # RemovalCall
    BY <1>10 DEF RemoveMatch, Fresh
  <2> QED BY <1>10, <2>1, <2>2, ReplyEnter DEF RemoveMatch
<1>11. CASE Flush
  <2>1. \A j \in DOMAIN incoming' : \E k \in DOMAIN incoming : incoming'[j] = incoming[k]
    <3>1. incoming # <<>> => \A j \in DOMAIN Tail(incoming) :
             j + 1 \in DOMAIN incoming /\ Tail(incoming)[j] = incoming[j + 1]
      BY <1>0
    <3> QED BY <1>11, <3>1 DEF Flush
  <2>2. UNCHANGED callVars /\ (life' \in {"open", "joining"} => life \in {"open", "joining"})
    BY <1>11 DEF Flush
  <2> QED BY <2>1, <2>2 DEF ReplyInv, Justified, Answered, Fresh, callVars
<1> QED
  BY <1>1, <1>2, <1>3, <1>4, <1>5, <1>6, <1>7, <1>8, <1>9, <1>10, <1>11
     DEF Next, ReturnStep, AsyncStep, DestructorStep

\* A call that returns a valid message returns the answer to itself: not the reply
\* of another thread's call and not a late reply to an earlier call.  If it says
\* success the peer succeeded; if it is an error message that passed for a reply,
\* another call had put its error into the shared record while this one waited.
THEOREM RepliesAreOwn == Spec => []ReplyIsOwn
<1>1. TypeInv /\ ReplyInv /\ [Next]_vars => (TypeInv /\ ReplyInv)'
  BY TypeNext, ReplyNext
<1>2. Init => TypeInv /\ ReplyInv
  BY TypeInit, ReplyInit
<1>3. ReplyInv => ReplyIsOwn
  BY DEF ReplyInv, ReplyIsOwn, Justified, Answered
<1> QED BY <1>1, <1>2, <1>3, PTL DEF Spec

-------------------------------------------------------------------------------
(* Destruction.                                                              *)

\* From remove_match on the async thread has left its loop, for good; once the
\* connection is being flushed no thread is inside a call, and none enters one.
CloseInv ==
    /\ life \in {"removing", "flushing", "closed"} => loop = "ended"
    /\ life \in {"flushing", "closed"} => \A t \in Threads : pc[t] = "idle"

LEMMA CloseInit == Init => CloseInv
BY DEF Init, CloseInv

LEMMA CloseNext == TypeInv /\ CloseInv /\ [Next]_vars => CloseInv'
<1> SUFFICES ASSUME TypeInv, CloseInv, [Next]_vars PROVE CloseInv'
  OBVIOUS
<1>0. pc \in [Threads -> {"idle", "blocked", "returned", "clearing"}]
  BY DEF TypeInv, TypeOK
<1>1. CASE Emit \/ Stopped \/ UNCHANGED vars
  BY <1>1 DEF Emit, Stopped, vars, callVars, loopVars, CloseInv
<1>2. ASSUME NEW s \in Serials, NEW kind \in {"return", "error"}, Answer(s, kind)
      PROVE  CloseInv'
  BY <1>2 DEF Answer, loopVars, CloseInv
<1>3. ASSUME NEW t \in Threads, Call(t)
      PROVE  CloseInv'
  <2>1. life' = life /\ loop' = loop
    BY <1>3 DEF Call, Enter, loopVars
  <2>2. life \notin {"flushing", "closed"}
    BY <1>3 DEF Call, CloseInv
  <2> QED BY <2>1, <2>2 DEF CloseInv
<1>4. ASSUME NEW t \in Threads, ReturnStep(t)
      PROVE  CloseInv'
  <2>1. life' = life /\ loop' = loop /\ pc[t] # "idle"
    BY <1>4 DEF ReturnStep, TakeReply, TimeOut, HandOver, CheckError, FreeError, loopVars
  <2> QED BY <2>1 DEF CloseInv
<1>5. CASE AsyncStep
  <2>1. life' = life /\ pc' = pc /\ loop # "ended"
    BY <1>5 DEF AsyncStep, CheckActive, Pop, FinishHandling, callVars
  <2> QED BY <2>1 DEF CloseInv
<1>6. CASE Destroy
  BY <1>6 DEF Destroy, CloseInv
<1>7. ASSUME NEW t \in AppThreads, RemoveMatch(t)
      PROVE  CloseInv'
  BY <1>7 DEF RemoveMatch, Enter, loopVars, CloseInv
<1>8. CASE StartFlush
  <2>1. pc[AsyncThread] = "idle"
    BY <1>8 DEF StartFlush, CloseInv, TypeInv, LoopInv
  <2> QED BY <1>8, <2>1 DEF StartFlush, CloseInv, callVars, loopVars, Threads
<1>9. CASE Flush
  BY <1>9 DEF Flush, CloseInv, callVars, loopVars
<1> QED
  BY <1>1, <1>2, <1>3, <1>4, <1>5, <1>6, <1>7, <1>8, <1>9 DEF Next, DestructorStep

\* While the connection is flushed and dropped nothing else uses it, whatever the
\* async thread and its callbacks were doing when the destructor began.
THEOREM NothingUsesClosed == Spec => []NoUseAfterClose
<1>1. TypeInv /\ CloseInv /\ [Next]_vars => (TypeInv /\ CloseInv)'
  BY TypeNext, CloseNext
<1>2. Init => TypeInv /\ CloseInv
  BY TypeInit, CloseInit
<1>3. TypeInv /\ CloseInv => NoUseAfterClose
  BY DEF TypeInv, LoopInv, CloseInv, NoUseAfterClose
<1> QED BY <1>1, <1>2, <1>3, PTL DEF Spec

-------------------------------------------------------------------------------
(* The signals of the queue.                                                 *)

SignalPlaces(q) == {i \in DOMAIN q : IsSignal(q[i])}

LEMMA SignalsInQueue ==
    ASSUME NEW q \in Seq(Message)
    PROVE  Places(q, Signal) = SignalPlaces(q)
<1>1. \A x \in Message : x \in Signal <=> IsSignal(x)
  BY DEF Message, Signal, Reply, IsSignal
<1> QED BY <1>1, ElementsOfSeq DEF Places, SignalPlaces

\* The queue q holds the signals n + 1, ..., m, each once and in this order.
Holds(q, n, m) ==
    /\ {q[i].id : i \in SignalPlaces(q)} = (n + 1)..m
    /\ \A i, j \in SignalPlaces(q) : i < j => q[i].id < q[j].id

Run(n, m) == [k \in 1..(m - n) |-> n + k]

\* The signal n + k is the one that has k signals up to it.
LEMMA HoldsRun ==
    ASSUME NEW q \in Seq(Message), NEW n \in Nat, NEW m \in Nat, n <= m, Holds(q, n, m)
    PROVE  SignalsOf(q) = Run(n, m)
<1> DEFINE SP == SignalPlaces(q)
<1>1. IsFiniteSet(SP) /\ SP \subseteq Nat
  <2>1. DOMAIN q = 1..Len(q) /\ Len(q) \in Nat
    OBVIOUS
  <2>2. IsFiniteSet(DOMAIN q)
    BY <2>1, FS_Interval
  <2> QED BY <2>1, <2>2, FS_Subset DEF SignalPlaces
<1>2. /\ \A i \in SP : q[i].id \in (n + 1)..m
      /\ \A v \in (n + 1)..m : \E i \in SP : q[i].id = v
  BY DEF Holds
<1>3. \A i, j \in SP : i < j => q[i].id < q[j].id
  BY DEF Holds
<1> HIDE DEF SP
<1>4. \A i, j \in SP : (i <= j <=> q[i].id <= q[j].id) /\ (q[i].id = q[j].id => i = j)
  BY <1>1, <1>2, <1>3
<1>5. ASSUME NEW S \in SUBSET SP, NEW v \in n..m,
             \A i \in S : q[i].id <= v,
             \A i \in SP : q[i].id <= v => i \in S
      PROVE  Cardinality(S) = v - n
  <2> DEFINE f == [i \in S |-> q[i].id]
  <2>1. f \in [S -> (n + 1)..v]
    BY <1>2, <1>5
  <2>2. \A i, j \in S : f[i] = f[j] => i = j
    BY <1>4
  <2>3. \A w \in (n + 1)..v : \E i \in S : f[i] = w
    <3> SUFFICES ASSUME NEW w \in (n + 1)..v PROVE \E i \in S : f[i] = w
      OBVIOUS
    <3>1. PICK i \in SP : q[i].id = w
      BY <1>2
    <3> QED BY <1>5, <3>1
  <2>4. f \in Bijection(S, (n + 1)..v)
    BY <2>1, <2>2, <2>3 DEF Bijection, Injection, Surjection, IsInjective
  <2>5. IsFiniteSet(S)
    BY <1>1, FS_Subset
  <2>6. Cardinality((n + 1)..v) = Cardinality(S)
    BY <2>4, <2>5, FS_Bijection DEF ExistsBijection
  <2>7. Cardinality((n + 1)..v) = v - n
    <3>1. n + 1 \in Int /\ v \in Int /\ v >= n
      OBVIOUS
    <3>2. Cardinality((n + 1)..v) = IF n + 1 > v THEN 0 ELSE v - (n + 1) + 1
      BY <3>1, FS_Interval
    <3> QED BY <3>1, <3>2
  <2> QED BY <2>6, <2>7
<1>6. \A i \in SP : Cardinality({j \in SP : j <= i}) = q[i].id - n
  <2> SUFFICES ASSUME NEW i \in SP PROVE Cardinality({j \in SP : j <= i}) = q[i].id - n
    OBVIOUS
  <2>1. q[i].id \in n..m
    BY <1>2
  <2>2. PICK S : S = {j \in SP : j <= i}
    OBVIOUS
  <2>3. /\ S \in SUBSET SP /\ \A j \in S : q[j].id <= q[i].id
        /\ \A j \in SP : q[j].id <= q[i].id => j \in S
    BY <1>4, <2>2
  <2> QED BY <1>5, <2>1, <2>2, <2>3
<1>7. Cardinality(SP) = m - n
  BY <1>2, <1>5
<1>8. Places(q, Signal) = SP /\ Count(q, Signal) = m - n
  BY <1>7, SignalsInQueue DEF SP, Count
<1>9. ASSUME NEW k \in 1..(m - n) PROVE Selected(q, Signal)[k].id = n + k
  <2>1. PICK i \in SP : RankOf(q, Signal, i) = k /\ Selected(q, Signal)[k] = q[i]
    <3>1. k \in 1..Count(q, Signal)
      BY <1>8
    <3>2. \E i \in Places(q, Signal) : RankOf(q, Signal, i) = k /\ Selected(q, Signal)[k] = q[i]
      BY <3>1, SelectedPlace
    <3> QED BY <1>8, <3>2
  <2>2. q[i].id - n = k /\ q[i].id \in (n + 1)..m
    BY <1>2, <1>6, <1>8, <2>1 DEF RankOf
  <2> QED BY <2>1, <2>2
<1>10. DOMAIN Selected(q, Signal) = 1..(m - n)
  BY <1>8 DEF Selected
<1> QED BY <1>9, <1>10 DEF SignalsOf, Run

LEMMA RunSteps ==
    ASSUME NEW n \in Nat, NEW m \in Nat, n <= m
    PROVE  /\ Run(n, m) \in Seq(Nat) /\ Run(n, m + 1) = Append(Run(n, m), m + 1)
           /\ n < m => Run(n, m) # <<>> /\ Run(n, m) = <<n + 1>> \o Run(n + 1, m)
<1>1. m - n \in Nat /\ (m + 1) - n = (m - n) + 1
  OBVIOUS
<1>2. Run(n, m) \in Seq(Nat) /\ Len(Run(n, m)) = m - n
  BY <1>1 DEF Run
<1>3. Run(n, m + 1) = Append(Run(n, m), m + 1)
  <2>1. Append(Run(n, m), m + 1) \in Seq(Nat) /\ Len(Append(Run(n, m), m + 1)) = (m - n) + 1
    BY <1>1, <1>2
  <2>2. Run(n, m + 1) \in Seq(Nat) /\ Len(Run(n, m + 1)) = (m - n) + 1
    BY <1>1 DEF Run
  <2>3. ASSUME NEW k \in 1..((m - n) + 1) PROVE Append(Run(n, m), m + 1)[k] = Run(n, m + 1)[k]
    <3>1. Run(n, m + 1)[k] = n + k
      BY <1>1 DEF Run
    <3>2. CASE k = (m - n) + 1
      BY <1>2, <3>1, <3>2
    <3>3. CASE k # (m - n) + 1
      <4>1. k \in 1..(m - n)
        BY <1>1, <3>3
      <4>2. Append(Run(n, m), m + 1)[k] = Run(n, m)[k]
        BY <1>2, <4>1
      <4> QED BY <3>1, <4>1, <4>2 DEF Run
    <3> QED BY <3>2, <3>3
  <2> QED BY <2>1, <2>2, <2>3, SeqEqual
<1>4. ASSUME n < m PROVE Run(n, m) # <<>> /\ Run(n, m) = <<n + 1>> \o Run(n + 1, m)
  <2>1. m - (n + 1) \in Nat /\ m - n = (m - (n + 1)) + 1 /\ n + 1 \in Nat
    BY <1>1, <1>4
  <2>2. Run(n + 1, m) \in Seq(Nat) /\ Len(Run(n + 1, m)) = m - (n + 1)
    BY <2>1 DEF Run
  <2>3. /\ <<n + 1>> \o Run(n + 1, m) \in Seq(Nat)
        /\ Len(<<n + 1>> \o Run(n + 1, m)) = m - n
        /\ (<<n + 1>> \o Run(n + 1, m))[1] = n + 1
        /\ \A k \in DOMAIN Run(n + 1, m) : (<<n + 1>> \o Run(n + 1, m))[k + 1] = Run(n + 1, m)[k]
    BY <2>1, <2>2, ConsPlaces
  <2>4. ASSUME NEW k \in 1..(m - n) PROVE (<<n + 1>> \o Run(n + 1, m))[k] = Run(n, m)[k]
    <3>1. Run(n, m)[k] = n + k
      BY DEF Run
    <3>2. CASE k = 1
      BY <2>3, <3>1, <3>2
    <3>3. CASE k # 1
      <4>1. k - 1 \in 1..(m - (n + 1)) /\ (k - 1) + 1 = k /\ (n + 1) + (k - 1) = n + k
        BY <2>1, <3>3
      <4>2. k - 1 \in DOMAIN Run(n + 1, m) /\ Run(n + 1, m)[k - 1] = (n + 1) + (k - 1)
        BY <4>1 DEF Run
      <4> QED BY <2>3, <3>1, <4>1, <4>2
    <3> QED BY <3>2, <3>3
  <2>5. Run(n, m) = <<n + 1>> \o Run(n + 1, m)
    BY <1>2, <2>3, <2>4, SeqEqual
  <2>6. Run(n, m) # <<>>
    BY <1>2, <2>1
  <2> QED BY <2>5, <2>6
<1> QED BY <1>2, <1>3, <1>4

\* What comes at the end of the queue and what is taken out of it.
LEMMA HoldsSteps ==
    ASSUME NEW q \in Seq(Message), NEW n \in Nat, NEW m \in Nat, n <= m, Holds(q, n, m)
    PROVE  /\ \A x \in Message :
                 /\ x = [kind |-> "signal", id |-> m + 1] => Holds(Append(q, x), n, m + 1)
                 /\ ~IsSignal(x) => Holds(Append(q, x), n, m)
           /\ \A i \in DOMAIN q : ~IsSignal(q[i]) => Holds(RemoveAt(q, i), n, m)
           /\ q # <<>> =>
                 IF IsSignal(Head(q))
                 THEN n < m /\ Head(q).id = n + 1 /\ Holds(Tail(q), n + 1, m)
                 ELSE Holds(Tail(q), n, m)
<1>0. DOMAIN q = 1..Len(q) /\ Len(q) \in Nat
  OBVIOUS
<1>1. /\ \A i \in DOMAIN q : IsSignal(q[i]) => q[i].id \in (n + 1)..m
      /\ \A v \in (n + 1)..m : \E i \in DOMAIN q : IsSignal(q[i]) /\ q[i].id = v
      /\ \A i, j \in DOMAIN q : IsSignal(q[i]) /\ IsSignal(q[j]) /\ i < j => q[i].id < q[j].id
  BY DEF Holds, SignalPlaces
<1>2. ASSUME NEW x \in Message, x = [kind |-> "signal", id |-> m + 1]
      PROVE  Holds(Append(q, x), n, m + 1)
  <2>1. PICK r : r = Append(q, x)
    OBVIOUS
  <2>2. /\ DOMAIN r = DOMAIN q \cup {Len(q) + 1} /\ Len(q) + 1 \notin DOMAIN q
        /\ \A i \in DOMAIN q : r[i] = q[i] /\ i < Len(q) + 1
        /\ r[Len(q) + 1] = x
    BY <2>1, AppendPlaces
  <2>3. IsSignal(x) /\ x.id = m + 1 /\ (n + 1)..(m + 1) = (n + 1)..m \cup {m + 1}
    BY <1>2 DEF IsSignal
  <2>4. {r[i].id : i \in SignalPlaces(r)} = (n + 1)..(m + 1)
    BY <1>1, <2>2, <2>3 DEF SignalPlaces
  <2>5. ASSUME NEW i \in SignalPlaces(r), NEW j \in SignalPlaces(r), i < j PROVE r[i].id < r[j].id
    <3>1. i \in DOMAIN q
      BY <1>0, <2>2, <2>5 DEF SignalPlaces
    <3>2. CASE j \in DOMAIN q
      BY <1>1, <2>2, <2>5, <3>1, <3>2 DEF SignalPlaces
    <3>3. CASE j = Len(q) + 1
      <4>1. r[i].id \in (n + 1)..m
        BY <1>1, <2>2, <3>1 DEF SignalPlaces
      <4> QED BY <2>2, <2>3, <3>3, <4>1
    <3> QED BY <2>2, <3>2, <3>3 DEF SignalPlaces
  <2> QED BY <2>1, <2>4, <2>5 DEF Holds
<1>3. ASSUME NEW x \in Message, ~IsSignal(x)
      PROVE  Holds(Append(q, x), n, m)
  <2>1. PICK r : r = Append(q, x)
    OBVIOUS
  <2>2. /\ DOMAIN r = DOMAIN q \cup {Len(q) + 1}
        /\ \A i \in DOMAIN q : r[i] = q[i]
        /\ r[Len(q) + 1] = x
    BY <2>1, AppendPlaces
  <2>3. SignalPlaces(r) = SignalPlaces(q) /\ \A i \in SignalPlaces(q) : r[i] = q[i]
    BY <1>3, <2>2 DEF SignalPlaces
  <2> QED BY <2>1, <2>3 DEF Holds
<1>4. ASSUME NEW i \in DOMAIN q, ~IsSignal(q[i])
      PROVE  Holds(RemoveAt(q, i), n, m)
  <2>1. PICK r : r = RemoveAt(q, i)
    OBVIOUS
  <2>2. /\ DOMAIN r = 1..(Len(q) - 1)
        /\ \A j \in 1..(Len(q) - 1) : r[j] = IF j < i THEN q[j] ELSE q[j + 1]
    BY <2>1, RemoveAtProperties
  <2>3. {r[j].id : j \in SignalPlaces(r)} = (n + 1)..m
    <3>1. ASSUME NEW j \in SignalPlaces(r) PROVE r[j].id \in (n + 1)..m
      <4>1. j \in 1..(Len(q) - 1) /\ IsSignal(r[j]) /\ j \in DOMAIN q /\ j + 1 \in DOMAIN q
        BY <1>0, <2>2 DEF SignalPlaces
      <4>2. r[j] = q[j] \/ r[j] = q[j + 1]
        BY <2>2, <4>1
      <4> QED BY <1>1, <4>1, <4>2
    <3>2. ASSUME NEW v \in (n + 1)..m PROVE \E j \in SignalPlaces(r) : r[j].id = v
      <4>1. PICK k \in DOMAIN q : IsSignal(q[k]) /\ q[k].id = v
        BY <1>1
      <4>2. CASE k < i
        <5>1. k \in 1..(Len(q) - 1)
          BY <1>0, <4>2
        <5> QED BY <2>2, <4>1, <4>2, <5>1 DEF SignalPlaces
      <4>3. CASE k > i
        <5>1. k - 1 \in 1..(Len(q) - 1) /\ ~(k - 1 < i) /\ (k - 1) + 1 = k
          BY <1>0, <4>3
        <5> QED BY <2>2, <4>1, <5>1 DEF SignalPlaces
      <4>4. k # i
        BY <1>4, <4>1
      <4> QED BY <1>0, <4>2, <4>3, <4>4
    <3> QED BY <3>1, <3>2
  <2>4. ASSUME NEW j \in SignalPlaces(r), NEW k \in SignalPlaces(r), j < k PROVE r[j].id < r[k].id
    <3>1. j \in 1..(Len(q) - 1) /\ k \in 1..(Len(q) - 1) /\ IsSignal(r[j]) /\ IsSignal(r[k])
      BY <2>2 DEF SignalPlaces
    <3>2. PICK a, b : /\ a = (IF j < i THEN j ELSE j + 1) /\ b = (IF k < i THEN k ELSE k + 1)
      OBVIOUS
    <3>3. a \in DOMAIN q /\ b \in DOMAIN q /\ a < b
      BY <1>0, <2>4, <3>1, <3>2
    <3>4. r[j] = q[a] /\ r[k] = q[b]
      BY <2>2, <3>1, <3>2
    <3> QED BY <1>1, <3>1, <3>3, <3>4
  <2> QED BY <2>1, <2>3, <2>4 DEF Holds
<1>5. ASSUME q # <<>>
      PROVE  IF IsSignal(Head(q))
             THEN n < m /\ Head(q).id = n + 1 /\ Holds(Tail(q), n + 1, m)
             ELSE Holds(Tail(q), n, m)
  <2>1. PICK r : r = Tail(q)
    OBVIOUS
  <2>2. /\ 1 \in DOMAIN q /\ q[1] = Head(q)
        /\ DOMAIN q \subseteq Nat \ {0} /\ DOMAIN r \subseteq Nat \ {0}
        /\ \A i \in DOMAIN r : i + 1 \in DOMAIN q /\ r[i] = q[i + 1]
        /\ \A i \in DOMAIN q : i # 1 => i - 1 \in DOMAIN r /\ r[i - 1] = q[i]
    BY <1>5, <2>1, TailPlaces
  <2>3. ASSUME NEW j \in SignalPlaces(r), NEW k \in SignalPlaces(r), j < k PROVE r[j].id < r[k].id
    <3>1. /\ j + 1 \in DOMAIN q /\ k + 1 \in DOMAIN q /\ j + 1 < k + 1
          /\ r[j] = q[j + 1] /\ r[k] = q[k + 1] /\ IsSignal(r[j]) /\ IsSignal(r[k])
      BY <2>2, <2>3 DEF SignalPlaces
    <3> QED BY <1>1, <3>1
  <2>4. CASE IsSignal(Head(q))
    <3>1. n < m /\ q[1].id = n + 1
      <4>1. q[1].id \in (n + 1)..m
        BY <1>1, <2>2, <2>4
      <4>2. n + 1 \in (n + 1)..m
        BY <4>1
      <4>3. PICK i \in DOMAIN q : IsSignal(q[i]) /\ q[i].id = n + 1
        BY <1>1, <4>2
      <4>4. i # 1 => q[1].id < n + 1
        <5>1. i # 1 => 1 < i
          BY <2>2
        <5> QED BY <1>1, <2>2, <2>4, <4>3, <5>1
      <4> QED BY <4>1, <4>3, <4>4
    <3>2. {r[j].id : j \in SignalPlaces(r)} = ((n + 1) + 1)..m
      <4>1. ASSUME NEW j \in SignalPlaces(r) PROVE r[j].id \in ((n + 1) + 1)..m
        <5>1. /\ j + 1 \in DOMAIN q /\ 1 < j + 1 /\ r[j] = q[j + 1] /\ IsSignal(q[j + 1])
          BY <2>2 DEF SignalPlaces
        <5>2. q[j + 1].id \in (n + 1)..m /\ q[1].id < q[j + 1].id
          BY <1>1, <2>2, <2>4, <5>1
        <5> QED BY <3>1, <5>1, <5>2
      <4>2. ASSUME NEW v \in ((n + 1) + 1)..m PROVE \E j \in SignalPlaces(r) : r[j].id = v
        <5>1. v \in (n + 1)..m /\ v # n + 1
          OBVIOUS
        <5>2. PICK i \in DOMAIN q : IsSignal(q[i]) /\ q[i].id = v
          BY <1>1, <5>1
        <5>3. i # 1
          BY <3>1, <5>1, <5>2
        <5> QED BY <2>2, <5>2, <5>3 DEF SignalPlaces
      <4> QED BY <4>1, <4>2
    <3>3. Holds(r, n + 1, m)
      BY <2>3, <3>2 DEF Holds
    <3> QED BY <2>1, <2>2, <2>4, <3>1, <3>3
  <2>5. CASE ~IsSignal(Head(q))
    <3>1. {r[j].id : j \in SignalPlaces(r)} = (n + 1)..m
      <4>1. ASSUME NEW j \in SignalPlaces(r) PROVE r[j].id \in (n + 1)..m
        BY <1>1, <2>2 DEF SignalPlaces
      <4>2. ASSUME NEW v \in (n + 1)..m PROVE \E j \in SignalPlaces(r) : r[j].id = v
        <5>1. PICK i \in DOMAIN q : IsSignal(q[i]) /\ q[i].id = v
          BY <1>1
        <5>2. i # 1
          BY <2>2, <2>5, <5>1
        <5> QED BY <2>2, <5>1, <5>2 DEF SignalPlaces
      <4> QED BY <4>1, <4>2
    <3> QED BY <2>1, <2>3, <2>5, <3>1 DEF Holds
  <2> QED BY <2>4, <2>5
<1> QED BY <1>2, <1>3, <1>4, <1>5

-------------------------------------------------------------------------------
(* SignalChannel is implemented.                                             *)

\* Whatever else is in the queue, its signals are the latest ones sent, in order.
QueueInv == \E n \in Nat : n <= emitted /\ Holds(incoming, n, emitted)

Receiving == life \notin {"flushing", "closed"}
Before(c) == IF c = NoSignal THEN <<>> ELSE <<c>>
Pending == Before(current) \o SignalsOf(incoming)

LEMMA ChannelVars ==
    /\ Channel!Init <=> emitted = 0 /\ Pending = <<>> /\ handled = <<>> /\ Receiving = TRUE
    /\ UNCHANGED Channel!vars <=> UNCHANGED <<emitted, Pending, handled, Receiving>>
    /\ Channel!Send <=>
          emitted' = emitted + 1 /\ Pending' = Append(Pending, emitted + 1) /\ UNCHANGED <<handled, Receiving>>
    /\ Channel!Deliver <=>
          /\ Receiving /\ Pending # <<>>
          /\ handled' = Append(handled, Head(Pending)) /\ Pending' = Tail(Pending)
          /\ UNCHANGED <<emitted, Receiving>>
    /\ Channel!Close <=> Receiving' = FALSE /\ UNCHANGED <<emitted, Pending, handled>>
    /\ Channel!Discard <=>
          ~Receiving /\ Pending # <<>> /\ Pending' = Tail(Pending) /\ UNCHANGED <<emitted, handled, Receiving>>
BY Zenon DEF Channel!Init, Channel!vars, Channel!Send, Channel!Deliver, Channel!Close, Channel!Discard,
             Pending, Before, Receiving

LEMMA ChannelInit == Init => QueueInv /\ Channel!Init
<1> SUFFICES ASSUME Init PROVE QueueInv /\ Channel!Init
  OBVIOUS
<1>1. incoming = <<>> /\ emitted = 0 /\ incoming \in Seq(Message)
  BY DEF Init
<1>2. Holds(incoming, 0, 0)
  BY <1>1 DEF Holds, SignalPlaces
<1>3. SignalsOf(incoming) = Run(0, 0)
  <2>1. 0 \in Nat /\ 0 <= 0
    OBVIOUS
  <2>2. PICK q \in Seq(Message) : q = incoming /\ Holds(q, 0, 0)
    BY <1>1, <1>2
  <2> HIDE <1>1
  <2>3. SignalsOf(q) = Run(0, 0)
    BY <2>1, <2>2, HoldsRun
  <2> QED BY <2>2, <2>3
<1>4. Run(0, 0) = <<>>
  BY DEF Run
<1>5. Pending = <<>>
  BY <1>3, <1>4 DEF Init, Pending, Before
<1> QED BY <1>1, <1>2, <1>5, ChannelVars DEF QueueInv, Init, Receiving

LEMMA ChannelStep ==
    ASSUME TypeInv, TypeInv', CloseInv, QueueInv, [Next]_vars
    PROVE  QueueInv' /\ [Channel!Next]_(Channel!vars)
<1> DEFINE Implemented == QueueInv' /\ [Channel!Next]_(Channel!vars)
<1>0. /\ incoming \in Seq(Message) /\ incoming' \in Seq(Message)
      /\ emitted \in Nat /\ emitted' \in Nat /\ current \in Nat
  BY BoundsAssumption DEF TypeInv, TypeOK, NoSignal
<1>1. PICK n \in Nat : n <= emitted /\ Holds(incoming, n, emitted)
  BY DEF QueueInv
<1>2. SignalsOf(incoming) = Run(n, emitted) /\ Run(n, emitted) \in Seq(Nat)
  BY <1>0, <1>1, HoldsRun, RunSteps
<1>3. Pending = Before(current) \o Run(n, emitted)
  BY <1>2 DEF Pending
<1>4. ASSUME Holds(incoming', n, emitted), UNCHANGED <<emitted, current, handled, Receiving>>
      PROVE  Implemented
  <2>1. SignalsOf(incoming') = Run(n, emitted)
    BY <1>0, <1>1, <1>4, HoldsRun
  <2>2. Pending' = Pending
    BY <1>3, <1>4, <2>1 DEF Pending
  <2>3. QueueInv'
    BY <1>1, <1>4 DEF QueueInv
  <2> QED BY <1>4, <2>2, <2>3, ChannelVars
<1>5. CASE Emit
  <2>1. PICK x : x = [kind |-> "signal", id |-> emitted + 1]
    OBVIOUS
  <2>2. x \in Message /\ incoming' = Append(incoming, x) /\ emitted' = emitted + 1
    <3>1. emitted + 1 \in 1..MaxSignals
      BY <1>5, BoundsAssumption DEF Emit, TypeInv, TypeOK
    <3>2. x \in Message
      BY <2>1, <3>1 DEF Message, Signal
    <3> QED BY <1>5, <2>1, <3>2 DEF Emit
  <2>3. Holds(incoming', n, emitted + 1)
    BY <1>0, <1>1, <2>1, <2>2, HoldsSteps
  <2>4. SignalsOf(incoming') = Append(Run(n, emitted), emitted + 1)
    <3>1. emitted + 1 \in Nat /\ n <= emitted + 1
      BY <1>0, <1>1
    <3>2. SignalsOf(incoming') = Run(n, emitted + 1)
      BY <1>0, <2>3, <3>1, HoldsRun
    <3> QED BY <1>0, <1>1, <3>2, RunSteps
  <2>5. Before(current) \in Seq(Nat)
    BY <1>0 DEF Before
  <2>6. Pending' = Append(Pending, emitted + 1)
    <3>1. Pending' = Before(current) \o Append(Run(n, emitted), emitted + 1)
      BY <1>5, <2>4 DEF Emit, loopVars, Pending
    <3>2. Before(current) \o Append(Run(n, emitted), emitted + 1) =
            Append(Before(current) \o Run(n, emitted), emitted + 1)
      <4>1. <<emitted + 1>> \in Seq(Nat)
        BY <1>0
      <4>2. Before(current) \o Run(n, emitted) \in Seq(Nat)
        BY <1>2, <2>5, ConcatProperties
      <4>3. /\ Append(Run(n, emitted), emitted + 1) = Run(n, emitted) \o <<emitted + 1>>
            /\ Append(Before(current) \o Run(n, emitted), emitted + 1) =
                  (Before(current) \o Run(n, emitted)) \o <<emitted + 1>>
        BY <1>0, <1>2, <4>2, AppendIsConcat
      <4> QED BY <1>2, <2>5, <4>1, <4>3, ConcatAssociative
    <3> QED BY <1>3, <3>1, <3>2
  <2>7. QueueInv'
    BY <1>0, <1>1, <2>2, <2>3 DEF QueueInv
  <2>8. Channel!Send
    BY <1>5, <2>2, <2>6, ChannelVars DEF Emit, loopVars, Receiving
  <2> QED BY <2>7, <2>8 DEF Channel!Next
<1>6. ASSUME NEW s \in Serials, NEW kind \in {"return", "error"}, Answer(s, kind)
      PROVE  Implemented
  <2>1. PICK x : x = [kind |-> kind, id |-> s]
    OBVIOUS
  <2>2. x \in Message /\ ~IsSignal(x) /\ incoming' = Append(incoming, x)
    BY <1>6, <2>1 DEF Answer, Message, Reply, IsSignal
  <2>3. Holds(incoming', n, emitted)
    BY <1>0, <1>1, <2>2, HoldsSteps
  <2> QED BY <1>4, <1>6, <2>3 DEF Answer, loopVars, Receiving
<1>7. ASSUME NEW t \in Threads, TakeReply(t)
      PROVE  Implemented
  <2>1. PICK i \in DOMAIN incoming : ~IsSignal(incoming[i]) /\ incoming' = RemoveAt(incoming, i)
    BY <1>7 DEF TakeReply, IsReplyTo
  <2>2. Holds(incoming', n, emitted)
    BY <1>0, <1>1, <2>1, HoldsSteps
  <2> QED BY <1>4, <1>7, <2>2 DEF TakeReply, loopVars, Receiving
\* The head of the queue is taken, by the loop or by the destructor.
<1>8. ASSUME incoming # <<>>, incoming' = Tail(incoming), IsSignal(Head(incoming)),
             UNCHANGED <<emitted, handled, Receiving>>
      PROVE  /\ QueueInv' /\ Run(n, emitted) = <<Head(incoming).id>> \o SignalsOf(incoming')
             /\ SignalsOf(incoming') \in Seq(Nat) /\ Head(incoming).id \in Nat \ {0}
  <2>1. n < emitted /\ Head(incoming).id = n + 1 /\ Holds(incoming', n + 1, emitted)
    BY <1>0, <1>1, <1>8, HoldsSteps
  <2>2. n + 1 \in Nat /\ n + 1 <= emitted
    BY <1>0, <2>1
  <2>3. SignalsOf(incoming') = Run(n + 1, emitted) /\ Run(n + 1, emitted) \in Seq(Nat)
    BY <1>0, <2>1, <2>2, HoldsRun, RunSteps
  <2>4. QueueInv'
    BY <1>8, <2>1, <2>2 DEF QueueInv
  <2>5. Run(n, emitted) = <<n + 1>> \o Run(n + 1, emitted)
    BY <1>0, <1>1, <2>1, RunSteps
  <2>6. n + 1 \in Nat \ {0}
    BY <1>0
  <2> QED BY <2>1, <2>3, <2>4, <2>5, <2>6
<1>9. CASE Pop
  <2>1. emitted' = emitted /\ handled' = handled /\ Receiving' = Receiving /\ current = NoSignal
    BY <1>9 DEF Pop, Receiving, TypeInv, LoopInv
  <2>2. CASE incoming = <<>>
    BY <1>1, <1>4, <1>9, <2>1, <2>2 DEF Pop
  <2>3. CASE incoming # <<>> /\ ~IsSignal(Head(incoming))
    <3>1. Holds(incoming', n, emitted)
      BY <1>0, <1>1, <1>9, <2>3, HoldsSteps DEF Pop
    <3> QED BY <1>4, <1>9, <2>1, <2>3, <3>1 DEF Pop
  <2>4. CASE incoming # <<>> /\ IsSignal(Head(incoming))
    <3>1. incoming' = Tail(incoming) /\ current' = Head(incoming).id
      BY <1>9, <2>4 DEF Pop
    <3>2. /\ QueueInv' /\ Run(n, emitted) = <<current'>> \o SignalsOf(incoming')
          /\ current' # NoSignal
      BY <1>8, <2>1, <2>4, <3>1 DEF NoSignal
    <3>3. Pending = Run(n, emitted)
      BY <1>2, <1>3, <2>1 DEF Before
    <3>4. Pending' = Pending
      BY <3>2, <3>3 DEF Pending, Before
    <3> QED BY <2>1, <3>2, <3>4, ChannelVars
  <2> QED BY <2>2, <2>3, <2>4
<1>10. CASE FinishHandling
  <2>1. /\ current # NoSignal /\ current' = NoSignal
        /\ handled' = Append(handled, current) /\ UNCHANGED <<incoming, emitted>>
    BY <1>10 DEF FinishHandling, TypeInv, LoopInv
  <2>2. Receiving /\ UNCHANGED Receiving
    BY <1>10 DEF FinishHandling, Receiving, CloseInv
  <2>3. Pending = <<current>> \o Run(n, emitted)
    BY <1>3, <2>1 DEF Before
  <2>4. Pending # <<>> /\ Head(Pending) = current /\ Tail(Pending) = Run(n, emitted)
    <3>1. current \in Nat /\ Run(n, emitted) \in Seq(Nat)
      BY <1>0, <1>2
    <3>2. <<current>> \o Run(n, emitted) # <<>> /\ Head(<<current>> \o Run(n, emitted)) = current
          /\ Tail(<<current>> \o Run(n, emitted)) = Run(n, emitted)
      BY <3>1, ConsPlaces, Zenon
    <3> QED BY <2>3, <3>2, Zenon
  <2>5. Pending' = Run(n, emitted)
    BY <1>2, <2>1 DEF Pending, Before
  <2>6. Channel!Deliver
    BY <2>1, <2>2, <2>4, <2>5, ChannelVars
  <2>7. QueueInv'
    BY <1>1, <2>1 DEF QueueInv
  <2> QED BY <2>6, <2>7 DEF Channel!Next
<1>11. CASE StartFlush
  <2>1. UNCHANGED <<incoming, emitted, current, handled>> /\ Receiving' = FALSE
    BY <1>11 DEF StartFlush, loopVars, Receiving
  <2>2. Pending' = Pending /\ QueueInv'
    BY <2>1 DEF Pending, QueueInv
  <2>3. Channel!Close
    BY <2>1, <2>2, ChannelVars
  <2> QED BY <2>2, <2>3 DEF Channel!Next
<1>12. CASE Flush
  <2>1. /\ UNCHANGED <<emitted, handled, current, Receiving>> /\ ~Receiving
        /\ current = NoSignal
    BY <1>12 DEF Flush, loopVars, Receiving, CloseInv, TypeInv, LoopInv
  <2>2. CASE incoming = <<>>
    BY <1>1, <1>4, <1>12, <2>1, <2>2 DEF Flush
  <2>3. CASE incoming # <<>> /\ ~IsSignal(Head(incoming))
    <3>1. Holds(incoming', n, emitted)
      BY <1>0, <1>1, <1>12, <2>3, HoldsSteps DEF Flush
    <3> QED BY <1>4, <2>1, <3>1
  <2>4. CASE incoming # <<>> /\ IsSignal(Head(incoming))
    <3>1. incoming' = Tail(incoming)
      BY <1>12, <2>4 DEF Flush
    <3>2. PICK h : h = Head(incoming).id
      OBVIOUS
    <3>3. /\ QueueInv' /\ Run(n, emitted) = <<h>> \o SignalsOf(incoming')
          /\ SignalsOf(incoming') \in Seq(Nat) /\ h \in Nat
      BY <1>8, <2>1, <2>4, <3>1, <3>2
    <3>4. Pending = Run(n, emitted) /\ Pending' = SignalsOf(incoming')
      BY <1>2, <1>3, <2>1, <3>3 DEF Pending, Before
    <3>5. Pending # <<>> /\ Pending' = Tail(Pending)
      BY <3>3, <3>4, ConsPlaces
    <3>6. Channel!Discard
      BY <2>1, <3>5, ChannelVars
    <3> QED BY <3>3, <3>6 DEF Channel!Next
  <2> QED BY <2>2, <2>3, <2>4
<1>13. CASE UNCHANGED <<incoming, emitted, current, handled, Receiving>>
  BY <1>1, <1>4, <1>13
<1>14. ASSUME NEW t \in Threads, Call(t) \/ TimeOut(t) \/ CheckError(t) \/ FreeError(t) \/ RemoveMatch(t)
       PROVE  Implemented
  BY <1>13, <1>14 DEF Call, TimeOut, CheckError, FreeError, RemoveMatch, Enter, loopVars, Receiving
<1>15. CASE CheckActive \/ Destroy \/ UNCHANGED vars
  BY <1>13, <1>15 DEF CheckActive, Destroy, vars, loopVars, Receiving
<1> QED
  BY <1>5, <1>6, <1>7, <1>9, <1>10, <1>11, <1>12, <1>14, <1>15
     DEF Next, ReturnStep, AsyncStep, DestructorStep, Stopped, Threads

\* Although blocked calls take their replies out of the queue the signals are in, and
\* the loop drops replies in between, the handlers see the signals as SignalChannel
\* promises: each once, in the order sent, none skipped while the connection is open.
THEOREM ChannelIsImplemented == Spec => ChannelImplemented
<1> DEFINE IInv == TypeInv /\ CloseInv /\ QueueInv
<1>1. Init => IInv /\ Channel!Init
  BY TypeInit, CloseInit, ChannelInit
<1>2. IInv /\ [Next]_vars => IInv' /\ [Channel!Next]_(Channel!vars)
  BY TypeNext, CloseNext, ChannelStep
<1> QED BY <1>1, <1>2, PTL DEF Spec, ChannelImplemented, Channel!Spec
===============================================================================
