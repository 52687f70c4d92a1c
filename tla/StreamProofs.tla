---------------------------- MODULE StreamProofs ----------------------------
(***************************************************************************)
(* The queues of a stream stay within their sizes, events never roll the   *)
(* browser's view back, and a transition the client does not know of yet   *)
(* is still on its way: for any number of steps and versions, any sizes of *)
(* the queues and any number of failed publications.                       *)
(***************************************************************************)
EXTENDS EventStream, FiniteSetTheorems, TLAPS

USE StreamAssumption DEF Versions, FaultKinds

LEMMA NothingIsTyped == Nothing \in [Steps -> Versions]
BY DEF Nothing

LEMMA VersionSet ==
    ASSUME NEW f \in [Steps -> Versions], NEW s \in Steps, NEW v \in Versions
    PROVE  [f EXCEPT ![s] = v] \in [Steps -> Versions]
OBVIOUS

LEMMA EmptyQueue ==
    <<>> \in Seq(Events) /\ <<>> \in Seq(FrameRecords) /\ Len(<<>>) = 0 /\ 0 <= QueueSize /\ 0 <= OutSize
OBVIOUS

\* Taking and appending keep the elements of a queue.
LEMMA TailOf ==
    ASSUME NEW T, NEW q \in Seq(T), q # <<>>
    PROVE  /\ Head(q) \in T /\ Tail(q) \in Seq(T) /\ Len(Tail(q)) <= Len(q)
           /\ Head(q) = q[1] /\ DOMAIN q = 1..Len(q) /\ Len(q) \in Nat \ {0}
           /\ \A i \in DOMAIN q : i = 1 \/ (i - 1 \in DOMAIN Tail(q) /\ Tail(q)[i - 1] = q[i])
OBVIOUS

LEMMA AppendTo ==
    ASSUME NEW T, NEW q \in Seq(T), NEW e \in T
    PROVE  /\ Append(q, e) \in Seq(T) /\ Len(Append(q, e)) = Len(q) + 1 /\ Len(q) \in Nat
           /\ \A i \in DOMAIN q : i \in DOMAIN Append(q, e) /\ Append(q, e)[i] = q[i]
           /\ Len(q) + 1 \in DOMAIN Append(q, e) /\ Append(q, e)[Len(q) + 1] = e
OBVIOUS

LEMMA FramesAreTyped ==
    /\ Frame("ready") \in FrameRecords /\ Frame("resync") \in FrameRecords
    /\ \A e \in Events : StepFrame(e) \in FrameRecords
BY DEF Frame, StepFrame, FrameRecords, Events

LEMMA OneFrame == ASSUME NEW T, NEW f \in T PROVE <<f>> \in Seq(T) /\ <<f>>[1] = f /\ 1 \in DOMAIN <<f>>
OBVIOUS

LEMMA LargerIs ==
    ASSUME NEW x \in Versions, NEW y \in Versions
    PROVE  Larger(x, y) \in Versions /\ Larger(x, y) >= x /\ Larger(x, y) >= y /\ Larger(x, y) \in {x, y}
BY DEF Larger

\* flushProgress sends finitely many frames.
LEMMA OrdersAreSequences ==
    ASSUME TypeOK, FlushProgress
    PROVE  held' \in Seq(FrameRecords)
<1> DEFINE A == {t \in Steps : progress[t] # 0}
           f == [s \in A |-> [name |-> "step", step |-> s, ver |-> progress[s]]]
           S == {[name |-> "step", step |-> s, ver |-> progress[s]] : s \in A}
<1>1. IsFiniteSet(A)
  BY FS_Subset
<1>2. f \in Surjection(A, S)
  BY DEF Surjection
<1>3. IsFiniteSet(S)
  BY <1>1, <1>2, FS_Surjection
<1>4. Cardinality(S) \in Nat
  BY <1>3, FS_CardinalityType
<1>5. S \subseteq FrameRecords
  BY DEF TypeOK, FrameRecords
<1>6. held' \in [1..Cardinality(S) -> S]
  BY DEF FlushProgress, Orders
<1> HIDE DEF S
<1> QED BY <1>4, <1>5, <1>6

-----------------------------------------------------------------------------
(* Types and bounds *)

LEMMA TypeInit == Init => TypeOK
<1> SUFFICES ASSUME Init PROVE TypeOK
  OBVIOUS
<1>1. /\ wire \in Seq(Events) /\ trans \in Seq(Events) /\ Len(trans) <= QueueSize
      /\ held \in Seq(FrameRecords) /\ out \in Seq(FrameRecords) /\ Len(out) <= OutSize
  BY EmptyQueue DEF Init
<1>2. db \in [Steps -> Versions] /\ unpub \subseteq Events
  BY DEF Init
<1> QED BY <1>1, <1>2, NothingIsTyped DEF Init, TypeOK

LEMMA DeliverTyped ==
    ASSUME TypeOK, NEW e \in Events, Deliver(e)
    PROVE  /\ trans' \in Seq(Events) /\ Len(trans') <= QueueSize /\ resync' \in BOOLEAN
           /\ progress' \in [Steps -> Versions]
<1>1. CASE ~e.tr
  <2>1. progress' = [progress EXCEPT ![e.step] = e.ver] /\ UNCHANGED <<trans, resync>>
    BY <1>1 DEF Deliver
  <2>2. e.step \in Steps /\ e.ver \in Versions
    BY DEF Events
  <2> QED BY <2>1, <2>2, VersionSet DEF TypeOK
<1>2. CASE e.tr /\ Len(trans) < QueueSize
  <2>1. trans' = Append(trans, e) /\ progress' = [progress EXCEPT ![e.step] = 0] /\ UNCHANGED resync
    BY <1>2 DEF Deliver, Queue
  <2>2. e.step \in Steps /\ 0 \in Versions
    BY DEF Events
  <2>3. progress' \in [Steps -> Versions]
    BY <2>1, <2>2, VersionSet DEF TypeOK
  <2>4. trans' \in Seq(Events) /\ Len(trans') <= QueueSize
    BY <1>2, <2>1, AppendTo DEF TypeOK
  <2> QED BY <2>1, <2>3, <2>4 DEF TypeOK
<1>3. CASE e.tr /\ ~(Len(trans) < QueueSize)
  BY <1>3, NothingIsTyped DEF Deliver, Queue, Overflow, ForceResync, TypeOK
<1> QED BY <1>1, <1>2, <1>3 DEF Events

LEMMA TypeNext ==
    ASSUME TypeOK, [Next]_vars
    PROVE  TypeOK'
<1>1. ASSUME NEW s \in Steps, NEW tr \in BOOLEAN, Change(s, tr) PROVE TypeOK'
  <2>1. [step |-> s, ver |-> db[s] + 1, tr |-> tr] \in Events
    BY <1>1 DEF Change, TypeOK, Events
  <2>2. db' \in [Steps -> Versions] /\ unpub' \subseteq Events
    BY <1>1, <2>1 DEF Change, TypeOK
  <2> QED BY <1>1, <2>2 DEF Change, TypeOK, server, client
<1>2. ASSUME NEW e \in unpub, Publish(e) PROVE TypeOK'
  <2>1. e \in Events
    BY <1>2 DEF TypeOK
  <2>2. wire' \in Seq(Events) /\ unpub' \subseteq Events
    BY <1>2, <2>1, AppendTo DEF Publish, TypeOK
  <2>3. owed' \in [Steps -> Versions]
    <3> DEFINE v == Larger(owed[e.step], e.ver)
    <3>1. e.step \in Steps /\ e.ver \in Versions /\ owed[e.step] \in Versions
      BY <2>1 DEF TypeOK, Events
    <3>2. v \in Versions
      BY <3>1, LargerIs
    <3>3. owed' \in {[owed EXCEPT ![e.step] = v], owed}
      BY <1>2 DEF Publish
    <3> QED BY <3>1, <3>2, <3>3, VersionSet DEF TypeOK
  <2> QED BY <1>2, <2>2, <2>3 DEF Publish, TypeOK, client
<1>3. ASSUME NEW e \in unpub, PublishFails(e) PROVE TypeOK'
  BY <1>3 DEF PublishFails, TypeOK, server, client
<1>4. CASE Receive
  <2>1. Head(wire) \in Events /\ Tail(wire) \in Seq(Events)
    BY <1>4, TailOf DEF Receive, TypeOK
  <2>2. CASE open
    BY <1>4, <2>1, <2>2, DeliverTyped DEF Receive, TypeOK, client
  <2>3. CASE ~open
    BY <1>4, <2>1, <2>3 DEF Receive, TypeOK, client
  <2> QED BY <2>2, <2>3
<1>5. CASE ListenLost
  BY <1>5 DEF ListenLost, TypeOK, client
<1>6. CASE ResyncAll
  <2>1. /\ progress' \in [Steps -> Versions] /\ resync' \in BOOLEAN
        /\ trans' \in Seq(Events) /\ Len(trans') <= QueueSize
    <3>1. \/ trans' = <<>> /\ resync' = TRUE /\ progress' = Nothing
          \/ UNCHANGED <<trans, resync, progress>>
      BY <1>6 DEF ResyncAll, ForceResync
    <3>2. CASE UNCHANGED <<trans, resync, progress>>
      BY <3>2 DEF TypeOK
    <3>3. CASE trans' = <<>> /\ resync' = TRUE /\ progress' = Nothing
      BY <3>3, NothingIsTyped, EmptyQueue
    <3> QED BY <3>1, <3>2, <3>3
  <2> QED BY <1>6, <2>1 DEF ResyncAll, TypeOK, client
<1>7. CASE Listen
  BY <1>7 DEF Listen, TypeOK, client
<1>8. CASE TakeTransition
  <2>1. Head(trans) \in Events /\ Tail(trans) \in Seq(Events) /\ Len(Tail(trans)) <= QueueSize
    BY <1>8, TailOf DEF TakeTransition, TypeOK
  <2>2. held' \in Seq(FrameRecords)
    BY <1>8, <2>1, FramesAreTyped, OneFrame DEF TakeTransition
  <2> QED BY <1>8, <2>1, <2>2 DEF TakeTransition, TypeOK, client
<1>9. CASE TakeResync
  BY <1>9, FramesAreTyped, OneFrame DEF TakeResync, TypeOK, client
<1>10. CASE FlushProgress
  BY <1>10, OrdersAreSequences, NothingIsTyped DEF FlushProgress, TypeOK, client
<1>11. CASE Send
  <2>1. /\ Head(held) \in FrameRecords /\ Tail(held) \in Seq(FrameRecords)
        /\ Append(out, Head(held)) \in Seq(FrameRecords) /\ Len(Append(out, Head(held))) <= OutSize
    BY <1>11, TailOf, AppendTo DEF Send, TypeOK
  <2>2. Covered(Head(held)) \in [Steps -> Versions]
    <3>1. CASE Head(held).name = "step"
      <4>1. Head(held).step \in Steps /\ 0 \in Versions
        BY <2>1, <3>1 DEF FrameRecords
      <4>2. Covered(Head(held)) \in {[owed EXCEPT ![Head(held).step] = 0], owed}
        BY <3>1 DEF Covered
      <4> QED BY <4>1, <4>2, VersionSet DEF TypeOK
    <3>2. CASE Head(held).name # "step"
      BY <3>2, NothingIsTyped DEF Covered, TypeOK
    <3> QED BY <3>1, <3>2
  <2> QED BY <1>11, <2>1, <2>2 DEF Send, TypeOK, client
<1>12. CASE StreamEnds
  <2>1. /\ trans' \in Seq(Events) /\ Len(trans') <= QueueSize /\ held' \in Seq(FrameRecords)
        /\ out' \in Seq(FrameRecords) /\ Len(out') <= OutSize
    <3>1. trans' = <<>> /\ held' = <<>> /\ (out' = out \/ out' = <<>>)
      BY <1>12 DEF StreamEnds
    <3>2. out' \in Seq(FrameRecords) /\ Len(out') <= OutSize
      BY <3>1, EmptyQueue DEF TypeOK
    <3> QED BY <3>1, <3>2, EmptyQueue
  <2> QED BY <1>12, <2>1, NothingIsTyped DEF StreamEnds, TypeOK, client
<1>13. CASE Connect
  BY <1>13, FramesAreTyped, OneFrame DEF Connect, TypeOK, client
<1>14. CASE ReadFrame
  <2>1. Head(out) \in FrameRecords /\ Tail(out) \in Seq(FrameRecords) /\ Len(Tail(out)) <= OutSize
    BY <1>14, TailOf DEF ReadFrame, TypeOK
  <2>2. CASE Head(out).name = "ready"
    BY <1>14, <2>1, <2>2, NothingIsTyped DEF ReadFrame, OnReady, TypeOK
  <2>3. CASE Head(out).name = "resync"
    BY <1>14, <2>1, <2>3, NothingIsTyped DEF ReadFrame, OnResync, TypeOK
  <2>4. CASE Head(out).name \notin {"ready", "resync"}
    <3>1. Head(out).step \in Steps /\ Head(out).ver \in Versions
      BY <2>1, <2>4 DEF FrameRecords
    <3>2. pending' \in [Steps -> Versions]
      <4> DEFINE v == Larger(pending[Head(out).step], Head(out).ver)
      <4>1. v \in Versions
        BY <3>1, LargerIs DEF TypeOK
      <4>2. pending' = [pending EXCEPT ![Head(out).step] = v]
        BY <1>14, <2>4 DEF ReadFrame, OnStep
      <4> QED BY <3>1, <4>1, <4>2, VersionSet DEF TypeOK
    <3> QED BY <1>14, <2>1, <2>4, <3>2 DEF ReadFrame, OnStep, TypeOK
  <2> QED BY <2>2, <2>3, <2>4
<1>15. CASE Flush
  <2>1. cache' \in [Steps -> Versions]
    BY <1>15 DEF Flush, Patched, TypeOK
  <2> QED BY <1>15, <2>1, NothingIsTyped DEF Flush, TypeOK, server
<1>16. CASE SnapshotRead
  BY <1>16 DEF SnapshotRead, TypeOK, server
<1>17. CASE SnapshotLand
  BY <1>17, NothingIsTyped DEF SnapshotLand, TypeOK, server
<1>18. CASE UNCHANGED vars
  BY <1>18 DEF vars, server, client, TypeOK
<1> QED
  BY <1>1, <1>2, <1>3, <1>4, <1>5, <1>6, <1>7, <1>8, <1>9, <1>10, <1>11, <1>12, <1>13, <1>14,
     <1>15, <1>16, <1>17, <1>18 DEF Next

\* The types, and the bounds of the transition queue and of the response,
\* whatever the sizes are and whatever fails (subscriber.go).
THEOREM TypeCorrect == Spec => []TypeOK
<1>1. Init => TypeOK
  BY TypeInit
<1>2. TypeOK /\ [Next]_vars => TypeOK'
  BY TypeNext
<1> QED BY <1>1, <1>2, PTL DEF Spec

-----------------------------------------------------------------------------
(* Events never roll the view back *)

LEMMA ViewMovesForward ==
    ASSUME TypeOK, [Next]_vars
    PROVE  [\A s \in Steps : cache'[s] < cache[s] => answer # Nothing /\ cache' = answer]_vars
<1> SUFFICES ASSUME Next, NEW s \in Steps, cache'[s] < cache[s]
             PROVE  answer # Nothing /\ cache' = answer
  OBVIOUS
<1>1. cache[s] \in Nat
  BY DEF TypeOK
<1>2. cache' # cache
  BY <1>1
<1>3. CASE Flush
  <2>1. cache'[s] >= cache[s]
    BY <1>3 DEF Flush, Patched, TypeOK
  <2>2. cache'[s] \in Nat
    BY <1>3 DEF Flush, Patched, TypeOK
  <2> QED BY <1>1, <2>1, <2>2
<1>4. CASE SnapshotLand
  BY <1>4 DEF SnapshotLand
<1>5. Flush \/ SnapshotLand
  BY <1>2 DEF Next, Change, Publish, PublishFails, Receive, ListenLost, ResyncAll, Listen, TakeTransition,
     TakeResync, FlushProgress, Send, StreamEnds, Connect, ReadFrame, OnReady, OnResync, OnStep, SnapshotRead, client
<1> QED BY <1>3, <1>4, <1>5

\* Whatever is delayed, coalesced or swapped, only a snapshot that lands
\* lowers the version of a cached step (sse-cache.ts patchIfNewer).
THEOREM ViewIsMonotone == Spec => EventsNeverRollBack
<1>1. TypeOK /\ [Next]_vars => [\A s \in Steps : cache'[s] < cache[s] => answer # Nothing /\ cache' = answer]_vars
  BY ViewMovesForward
<1> QED BY <1>1, TypeCorrect, PTL DEF Spec, EventsNeverRollBack

-----------------------------------------------------------------------------
(* Nothing owed to the stream vanishes *)

\* No LISTEN connection breaks.
Listening == hub = "listening" /\ budget \in [FaultKinds -> Nat] /\ budget["listen"] = 0
StreamInv == TypeOK /\ Listening /\ NothingVanishes

LEMMA ListeningStays ==
    ASSUME Listening, [Next]_vars
    PROVE  Listening'
<1>1. ASSUME NEW e \in unpub, PublishFails(e) PROVE Listening'
  BY <1>1 DEF PublishFails, Spend, Listening, server
<1>2. ~ListenLost /\ ~ResyncAll /\ ~Listen
  BY DEF ListenLost, ResyncAll, Listen, Spend, Listening
<1>3. UNCHANGED <<hub, budget>> \/ \E e \in unpub : PublishFails(e)
  BY <1>2 DEF Next, vars, server, Change, Publish, Receive, TakeTransition,
     TakeResync, FlushProgress, Send, StreamEnds, Connect, ReadFrame, Flush, SnapshotRead, SnapshotLand
<1> QED BY <1>1, <1>3 DEF Listening

\* A step off the stream leaves everything where it was.
LEMMA OffTheStream ==
    ASSUME NothingVanishes, UNCHANGED <<wire, trans, held, resync, open, owed>>
    PROVE  NothingVanishes'
BY DEF NothingVanishes, OnItsWay

LEMMA PublishedIsOnItsWay ==
    ASSUME StreamInv, NEW e \in unpub, Publish(e)
    PROVE  NothingVanishes'
<1>1. e \in Events /\ e.step \in Steps /\ e.ver \in Versions /\ owed \in [Steps -> Versions]
  BY DEF StreamInv, TypeOK, Events
<1>2. wire' = Append(wire, e) /\ wire \in Seq(Events)
  BY DEF Publish, StreamInv, Listening, TypeOK
<1>3. /\ \A i \in DOMAIN wire : i \in DOMAIN wire' /\ wire'[i] = wire[i]
      /\ Len(wire) + 1 \in DOMAIN wire' /\ wire'[Len(wire) + 1] = e
  BY <1>1, <1>2, AppendTo
<1>4. UNCHANGED <<open, trans, resync, held>>
  BY DEF Publish
<1> SUFFICES ASSUME NEW s \in Steps, owed'[s] # 0 PROVE open' /\ OnItsWay(s)'
  BY DEF NothingVanishes
<1>5. CASE owed'[s] = owed[s]
  BY <1>3, <1>4, <1>5 DEF StreamInv, NothingVanishes, OnItsWay
<1>6. CASE owed'[s] # owed[s]
  <2>1. open /\ e.tr /\ e.step = s /\ owed'[s] = Larger(owed[s], e.ver)
    BY <1>1, <1>6 DEF Publish
  <2>2. owed'[s] = e.ver
    BY <1>1, <1>6, <2>1, LargerIs
  <2>3. e.ver >= owed'[s]
    BY <1>1, <2>2
  <2> QED BY <1>3, <1>4, <2>1, <2>3 DEF OnItsWay
<1> QED BY <1>5, <1>6

LEMMA ReceivedIsOnItsWay ==
    ASSUME StreamInv, Receive
    PROVE  NothingVanishes'
<1>1. /\ Head(wire) \in Events /\ Head(wire) = wire[1] /\ wire' = Tail(wire)
      /\ \A i \in DOMAIN wire : i = 1 \/ (i - 1 \in DOMAIN wire' /\ wire'[i - 1] = wire[i])
  BY TailOf DEF Receive, StreamInv, TypeOK
<1>2. UNCHANGED <<open, held, owed>>
  BY DEF Receive
<1> SUFFICES ASSUME NEW s \in Steps, owed[s] # 0, open PROVE OnItsWay(s)'
  BY <1>2 DEF StreamInv, NothingVanishes
<1>3. OnItsWay(s)
  BY DEF StreamInv, NothingVanishes
<1> DEFINE e == Head(wire)
<1>4. Deliver(e)
  BY DEF Receive
<1>5. CASE ~e.tr
  <2>1. UNCHANGED <<trans, resync>>
    BY <1>4, <1>5 DEF Deliver
  <2> HIDE DEF e
  <2>2. \A i \in DOMAIN wire : wire[i].tr => i - 1 \in DOMAIN wire' /\ wire'[i - 1] = wire[i]
    BY <1>1, <1>5 DEF e
  <2> QED BY <1>2, <1>3, <2>1, <2>2 DEF OnItsWay
<1>6. CASE e.tr /\ Len(trans) < QueueSize
  <2>1. trans' = Append(trans, e) /\ UNCHANGED resync
    BY <1>4, <1>6 DEF Deliver, Queue
  <2>2. /\ \A i \in DOMAIN trans : i \in DOMAIN trans' /\ trans'[i] = trans[i]
        /\ Len(trans) + 1 \in DOMAIN trans' /\ trans'[Len(trans) + 1] = e
    <3>1. trans \in Seq(Events) /\ e \in Events
      BY <1>1 DEF StreamInv, TypeOK
    <3> HIDE DEF e
    <3> QED BY <2>1, <3>1, AppendTo
  <2> HIDE DEF e
  <2>3. CASE \E i \in DOMAIN wire : wire[i].tr /\ wire[i].step = s /\ wire[i].ver >= owed[s]
    <3>1. PICK i \in DOMAIN wire : wire[i].tr /\ wire[i].step = s /\ wire[i].ver >= owed[s]
      BY <2>3
    <3>2. CASE i = 1
      BY <1>1, <1>2, <2>2, <3>1, <3>2 DEF OnItsWay, e
    <3>3. CASE i # 1
      BY <1>1, <1>2, <3>1, <3>3 DEF OnItsWay
    <3> QED BY <3>2, <3>3
  <2> QED BY <1>2, <1>3, <2>1, <2>2, <2>3 DEF OnItsWay
<1>7. CASE e.tr /\ ~(Len(trans) < QueueSize)
  <2>1. resync'
    BY <1>4, <1>7 DEF Deliver, Queue, Overflow, ForceResync
  <2> QED BY <2>1 DEF OnItsWay
<1> QED BY <1>5, <1>6, <1>7

LEMMA TakenIsOnItsWay ==
    ASSUME StreamInv, TakeTransition \/ TakeResync \/ FlushProgress
    PROVE  NothingVanishes'
<1>1. UNCHANGED <<wire, open, owed>> /\ DOMAIN held = {}
  BY DEF TakeTransition, TakeResync, FlushProgress
<1> SUFFICES ASSUME NEW s \in Steps, owed[s] # 0, open PROVE OnItsWay(s)'
  BY <1>1 DEF StreamInv, NothingVanishes
<1>2. /\ \A i \in DOMAIN held : FALSE
      /\ OnItsWay(s)
  BY <1>1 DEF StreamInv, NothingVanishes
<1>3. CASE TakeTransition
  <2>1. /\ Head(trans) \in Events /\ Head(trans) = trans[1] /\ trans' = Tail(trans)
        /\ \A i \in DOMAIN trans : i = 1 \/ (i - 1 \in DOMAIN trans' /\ trans'[i - 1] = trans[i])
    BY <1>3, TailOf DEF TakeTransition, StreamInv, TypeOK
  <2>2. /\ UNCHANGED resync /\ 1 \in DOMAIN held'
        /\ held'[1].name = "step" /\ held'[1].step = trans[1].step /\ held'[1].ver = trans[1].ver
    BY <1>3, <2>1 DEF TakeTransition, StepFrame
  <2>3. CASE \E i \in DOMAIN trans : trans[i].step = s /\ trans[i].ver >= owed[s]
    <3>1. PICK i \in DOMAIN trans : trans[i].step = s /\ trans[i].ver >= owed[s]
      BY <2>3
    <3>2. CASE i = 1
      BY <1>1, <2>2, <3>1, <3>2 DEF OnItsWay
    <3>3. CASE i # 1
      BY <1>1, <2>1, <3>1, <3>3 DEF OnItsWay
    <3> QED BY <3>2, <3>3
  <2> QED BY <1>1, <1>2, <2>2, <2>3 DEF OnItsWay
<1>4. CASE TakeResync
  <2>1. 1 \in DOMAIN held' /\ held'[1].name = "resync"
    BY <1>4 DEF TakeResync, Frame
  <2> QED BY <2>1 DEF OnItsWay
<1>5. CASE FlushProgress
  <2>1. UNCHANGED <<trans, resync>>
    BY <1>5 DEF FlushProgress
  <2> QED BY <1>1, <1>2, <2>1 DEF OnItsWay
<1> QED BY <1>3, <1>4, <1>5

\* What leaves the subscriber is what the client now knows of.
LEMMA SentIsCovered ==
    ASSUME StreamInv, Send
    PROVE  NothingVanishes'
<1>1. /\ Head(held) \in FrameRecords /\ Head(held) = held[1] /\ held' = Tail(held)
      /\ \A i \in DOMAIN held : i = 1 \/ (i - 1 \in DOMAIN held' /\ held'[i - 1] = held[i])
  BY TailOf DEF Send, StreamInv, TypeOK
<1>2. UNCHANGED <<wire, open, trans, resync>> /\ owed' = Covered(held[1]) /\ owed \in [Steps -> Versions]
  BY <1>1 DEF Send, StreamInv, TypeOK
<1> SUFFICES ASSUME NEW s \in Steps, owed'[s] # 0 PROVE open' /\ OnItsWay(s)'
  BY DEF NothingVanishes
<1>3. held[1].name # "resync" /\ owed'[s] = owed[s]
      /\ ~(held[1].name = "step" /\ held[1].step = s /\ held[1].ver >= owed[s])
  <2>1. held[1].name # "resync"
    BY <1>2 DEF Covered, Nothing
  <2>2. CASE held[1].name = "step" /\ held[1].ver >= owed[held[1].step]
    <3>1. owed' = [owed EXCEPT ![held[1].step] = 0] /\ held[1].step \in Steps
      BY <1>1, <1>2, <2>2 DEF Covered, FrameRecords
    <3>2. held[1].step # s
      BY <1>2, <3>1
    <3> QED BY <1>2, <2>1, <3>1, <3>2
  <2>3. CASE ~(held[1].name = "step" /\ held[1].ver >= owed[held[1].step])
    BY <1>2, <2>1, <2>3 DEF Covered
  <2> QED BY <2>2, <2>3
<1>4. open /\ OnItsWay(s)
  BY <1>3 DEF StreamInv, NothingVanishes
<1>5. \A i \in DOMAIN held : i # 1 => i - 1 \in DOMAIN held' /\ held'[i - 1] = held[i]
  BY <1>1
<1>6. CASE \E i \in DOMAIN held : held[i].name = "step" /\ held[i].step = s /\ held[i].ver >= owed[s]
  <2>1. PICK i \in DOMAIN held : held[i].name = "step" /\ held[i].step = s /\ held[i].ver >= owed[s]
    BY <1>6
  <2>2. i # 1
    BY <1>3, <2>1
  <2> QED BY <1>2, <1>3, <1>4, <1>5, <2>1, <2>2 DEF OnItsWay
<1>7. CASE \E i \in DOMAIN held : held[i].name = "resync"
  <2>1. PICK i \in DOMAIN held : held[i].name = "resync"
    BY <1>7
  <2>2. i # 1
    BY <1>3, <2>1
  <2> QED BY <1>2, <1>4, <1>5, <2>1, <2>2 DEF OnItsWay
<1> QED BY <1>2, <1>3, <1>4, <1>6, <1>7 DEF OnItsWay

LEMMA ConnectedOwesNothing ==
    ASSUME StreamInv, Connect \/ StreamEnds
    PROVE  NothingVanishes'
<1>1. CASE Connect
  <2>1. \A s \in Steps : owed[s] = 0
    BY <1>1 DEF Connect, StreamInv, NothingVanishes
  <2> QED BY <1>1, <2>1 DEF Connect, NothingVanishes
<1>2. CASE StreamEnds
  BY <1>2 DEF StreamEnds, NothingVanishes, Nothing
<1> QED BY <1>1, <1>2

LEMMA StreamNext ==
    ASSUME StreamInv, [Next]_vars
    PROVE  StreamInv'
<1>1. TypeOK' /\ Listening'
  BY TypeNext, ListeningStays DEF StreamInv
<1>2. ~ListenLost /\ ~ResyncAll /\ ~Listen
  BY DEF ListenLost, ResyncAll, Listen, Spend, Listening, StreamInv
<1>3. ASSUME NEW s \in Steps, NEW tr \in BOOLEAN, Change(s, tr) PROVE NothingVanishes'
  BY <1>3, OffTheStream DEF Change, server, StreamInv
<1>4. ASSUME NEW e \in unpub, PublishFails(e) PROVE NothingVanishes'
  BY <1>4, OffTheStream DEF PublishFails, server, StreamInv
<1>5. ASSUME NEW e \in unpub, Publish(e) PROVE NothingVanishes'
  BY <1>5, PublishedIsOnItsWay
<1>6. ASSUME ReadFrame \/ Flush \/ SnapshotRead \/ SnapshotLand \/ UNCHANGED vars PROVE NothingVanishes'
  <2>1. UNCHANGED <<wire, trans, held, resync, open, owed>>
    <3>1. CASE ReadFrame
      BY <3>1 DEF ReadFrame
    <3>2. CASE Flush \/ SnapshotRead \/ SnapshotLand \/ UNCHANGED vars
      BY <3>2 DEF Flush, SnapshotRead, SnapshotLand, vars, server
    <3> QED BY <1>6, <3>1, <3>2
  <2> QED BY <2>1, OffTheStream DEF StreamInv
<1>7. NothingVanishes'
  BY <1>2, <1>3, <1>4, <1>5, <1>6, ReceivedIsOnItsWay, TakenIsOnItsWay, SentIsCovered,
     ConnectedOwesNothing DEF Next
<1> QED BY <1>1, <1>7 DEF StreamInv

\* As long as the LISTEN connection does not break, a published transition
\* that an open stream has not sent, or a resync after it, is still in one of
\* its queues, whatever their sizes and however slow the client is
\* (subscriber.go deliver, forceResync, run).
THEOREM StreamIsSafe == Faults["listen"] = 0 => (Spec => []StreamSafe)
<1>1. Faults["listen"] = 0 /\ Init => StreamInv
  <2> SUFFICES ASSUME Faults["listen"] = 0, Init PROVE StreamInv
    OBVIOUS
  <2>1. Listening
    BY DEF Init, Listening
  <2>2. NothingVanishes
    BY DEF Init, NothingVanishes, Nothing
  <2> QED BY <2>1, <2>2, TypeInit DEF StreamInv
<1>2. StreamInv /\ [Next]_vars => StreamInv'
  BY StreamNext
<1>3. StreamInv => StreamSafe
  BY DEF StreamInv, StreamSafe
<1> QED BY <1>1, <1>2, <1>3, PTL DEF Spec
=============================================================================
