------------------------- MODULE SubscriptionProofs -------------------------
(***************************************************************************)
(* Proofs about Subscription: for any number of firers and events, the     *)
(* mutex keeps the events apart, what is delivered is in order, and a      *)
(* closed stream is quiet.                                                 *)
(***************************************************************************)
EXTENDS Subscription, SequenceTheorems, TLAPS

-----------------------------------------------------------------------------
(* Type correctness.                                                       *)

LEMMA TypeInit == Init => TypeOK
<1>. SUFFICES ASSUME Init PROVE TypeOK
  OBVIOUS
<1>1. /\ exec \in {"start", "publish", "subscribe", "wait", "subscribed", "failed", "silent"}
      /\ rootKind \in Kinds \cup {None}
      /\ firer \in [Firers -> Places]
      /\ fired \in [Firers -> 0..MaxEvents]
      /\ subMu \in Firers \cup {None}
  BY SubscriptionAssumption DEF Init, Places
<1>2. /\ slot \in Event \cup {None}
      /\ data \in Event \cup {None}
      /\ errs \in Event \cup {None}
      /\ limiter \in Limiters
      /\ tokens \in [Limiters -> Nat]
      /\ straggler \in [Limiters -> Progress]
      /\ target \in [Limiters -> Limiters]
  BY DEF Init, Limiters, Progress
<1>3. /\ queue \in Seq(Message)
      /\ sent \in Nat
      /\ received \in Seq(Message)
      /\ reader \in {"reading", "left", "ended"}
  BY DEF Init
<1>4. /\ rootFields \in BOOLEAN
      /\ started \in BOOLEAN
      /\ asError \in [Firers -> BOOLEAN]
      /\ eventFunc \in BOOLEAN
      /\ closed \in BOOLEAN
      /\ docOpen \in BOOLEAN
      /\ cancelled \in BOOLEAN
      /\ crashed \in BOOLEAN
  BY DEF Init
<1>. QED BY <1>1, <1>2, <1>3, <1>4 DEF TypeOK

\* The event that a firer is at is one of the events.
LEMMA EventTyped ==
  ASSUME TypeOK, BufferInv, NEW f \in Firers, firer[f] \in AtEvent
  PROVE  TheEvent(f) \in Event
<1>1. fired[f] \in 0..MaxEvents /\ fired[f] > 0
  BY DEF TypeOK, BufferInv
<1>2. fired[f] \in 1..MaxEvents
  BY <1>1, SubscriptionAssumption
<1>. QED BY <1>2 DEF TheEvent, Event

\* Where a firer may go.
LEMMA MoveTyped ==
  ASSUME TypeOK, NEW f \in Firers, NEW from,
         NEW to \in Places,
         Move(f, from, to)
  PROVE  firer' \in [Firers -> Places]
BY DEF Move, TypeOK

LEMMA TypeStep ==
  TypeOK /\ BufferInv /\ [Next]_vars => TypeOK'
<1>. SUFFICES ASSUME TypeOK, BufferInv, [Next]_vars PROVE TypeOK'
  OBVIOUS
<1>. USE DEF setup, firing, buffer, limiting, stream, reading
<1>1. CASE ResolveRoot
  <2>1. /\ rootKind' \in Kinds
        /\ exec' \in {"publish", "failed", "silent"}
    BY <1>1, SubscriptionAssumption DEF ResolveRoot, Kinds
  <2>2. /\ straggler' \in [Limiters -> Progress]
        /\ tokens' \in [Limiters -> Nat]
    <3>2. PICK k \in RootKinds :
            IF k \in {"async", "manyAsync"}
              THEN /\ straggler' = [straggler EXCEPT ![None] = "running"]
                   /\ tokens' = [tokens EXCEPT ![None] = 2]
              ELSE /\ straggler' = straggler
                   /\ tokens' = [tokens EXCEPT ![None] = 1]
      BY <1>1 DEF ResolveRoot
    <3>3. straggler' \in [Limiters -> Progress]
      BY <3>2 DEF TypeOK, Progress
    <3>4. \/ tokens' = [tokens EXCEPT ![None] = 2]
          \/ tokens' = [tokens EXCEPT ![None] = 1]
      BY <3>2
    <3>5. tokens \in [Limiters -> Nat]
      BY DEF TypeOK
    <3>6. tokens' \in [Limiters -> Nat]
      BY <3>4, <3>5
    <3>. QED BY <3>3, <3>6
  <2>3. UNCHANGED <<rootFields, started, firing, subMu, eventFunc, buffer, limiter, target,
                    stream, reading, crashed>>
    BY <1>1 DEF ResolveRoot
  <2>. QED BY <2>1, <2>2, <2>3 DEF TypeOK
<1>2. CASE PublishRootFields
  <2>1. exec' \in {"wait", "subscribe"} /\ rootFields' \in BOOLEAN
    BY <1>2 DEF PublishRootFields
  <2>. QED BY <1>2, <2>1 DEF PublishRootFields, TypeOK
<1>3. CASE RunResolution
  <2>1. exec' \in {"subscribed", "failed"} /\ started' \in BOOLEAN
    BY <1>3 DEF RunResolution, TypeOK
  <2>. QED BY <1>3, <2>1 DEF RunResolution, TypeOK
<1>4. CASE AwaitResolution
  <2>1. exec' \in {"subscribed", "failed"}
    BY <1>4 DEF AwaitResolution
  <2>. QED BY <1>4, <2>1 DEF AwaitResolution, TypeOK
<1>5. CASE AsyncRootRuns
  <2>1. straggler' \in [Limiters -> Progress] /\ started' \in BOOLEAN
    BY <1>5 DEF AsyncRootRuns, TypeOK, Progress
  <2>. QED BY <1>5, <2>1 DEF AsyncRootRuns, TypeOK
<1>6. ASSUME NEW l \in Limiters, Straggler(l) PROVE TypeOK'
  <2>1. CASE StragglerLooksUp(l)
    <3>1. straggler' \in [Limiters -> Progress] /\ target' \in [Limiters -> Limiters]
      BY <2>1 DEF StragglerLooksUp, TypeOK, Progress
    <3>. QED BY <2>1, <3>1 DEF StragglerLooksUp, TypeOK
  <2>2. CASE StragglerReleases(l)
    <3>1. straggler' \in [Limiters -> Progress]
      BY <2>2 DEF StragglerReleases, TypeOK, Progress
    <3>2. tokens[target[l]] \in Nat /\ target[l] \in Limiters
      BY DEF TypeOK
    <3>3. tokens' \in [Limiters -> Nat]
      BY <2>2, <3>2 DEF StragglerReleases, TypeOK
    <3>. QED BY <2>2, <3>1, <3>3 DEF StragglerReleases, TypeOK
  <2>. QED BY <1>6, <2>1, <2>2 DEF Straggler
<1>7. ASSUME NEW f \in Firers, Firer(f) PROVE TypeOK'
  <2>1. CASE Fire(f)
    <3>1. firer' \in [Firers -> Places]
      BY <2>1, MoveTyped DEF Fire, Places, Holding
    <3>2. fired' \in [Firers -> 0..MaxEvents]
      BY <2>1, SubscriptionAssumption DEF Fire, TypeOK
    <3>3. asError' \in [Firers -> BOOLEAN]
      BY <2>1 DEF Fire, TypeOK
    <3>. QED BY <2>1, <3>1, <3>2, <3>3 DEF Fire, TypeOK
  <2>2. CASE CheckRootFields(f)
    <3>1. firer' \in [Firers -> Places]
      BY <2>2, MoveTyped DEF CheckRootFields, Places, Holding
    <3>2. crashed' \in BOOLEAN
      BY <2>2 DEF CheckRootFields, TypeOK
    <3>. QED BY <2>2, <3>1, <3>2 DEF CheckRootFields, TypeOK
  <2>3. CASE Lock(f)
    <3>1. firer' \in [Firers -> Places]
      BY <2>3, MoveTyped DEF Lock, Places, Holding
    <3>. QED BY <2>3, <3>1 DEF Lock, TypeOK
  <2>4. CASE DropEvent(f)
    <3>1. firer' \in [Firers -> Places]
      BY <2>4, MoveTyped DEF DropEvent, Places, Holding
    <3>. QED BY <2>4, <3>1 DEF DropEvent, TypeOK
  <2>5. CASE InstallEvent(f)
    <3>1. firer' \in [Firers -> Places]
      BY <2>5, MoveTyped DEF InstallEvent, Places, Holding
    <3>2. TheEvent(f) \in Event
      BY <2>5, EventTyped DEF InstallEvent, Move, AtEvent
    <3>3. slot' \in Event \cup {None} /\ data' \in Event \cup {None} /\ errs' \in Event \cup {None}
      BY <2>5, <3>2 DEF InstallEvent
    <3>4. limiter' \in Limiters
      BY <2>5, <3>2 DEF InstallEvent, Limiters, TypeOK
    <3>5. tokens' \in [Limiters -> Nat]
      <4>1. tokens' = [tokens EXCEPT ![TheEvent(f)] = 1] \/ tokens' = tokens
        BY <2>5 DEF InstallEvent
      <4>2. tokens \in [Limiters -> Nat]
        BY DEF TypeOK
      <4>. QED BY <4>1, <4>2
    <3>. QED BY <2>5, <3>1, <3>3, <3>4, <3>5 DEF InstallEvent, TypeOK
  <2>6. CASE ExecuteEvent(f)
    <3>1. firer' \in [Firers -> Places]
      BY <2>6, MoveTyped DEF ExecuteEvent, Places, Holding
    <3>2. data' \in Event \cup {None}
      BY <2>6 DEF ExecuteEvent, TypeOK
    <3>3. tokens' \in [Limiters -> Nat] /\ straggler' \in [Limiters -> Progress]
      <4>1. CASE UNCHANGED <<tokens, straggler>>
        BY <4>1 DEF TypeOK
      <4>2. CASE /\ tokens' = [tokens EXCEPT ![limiter] = @ + 1]
                 /\ straggler' = [straggler EXCEPT ![limiter] = "returned"]
        BY <4>2 DEF TypeOK, Progress
      <4>. QED BY <2>6, <4>1, <4>2 DEF ExecuteEvent
    <3>. QED BY <2>6, <3>1, <3>2, <3>3 DEF ExecuteEvent, TypeOK
  <2>7. CASE SendResponse(f)
    <3>1. firer' \in [Firers -> Places]
      BY <2>7, MoveTyped DEF SendResponse, Places, Holding
    <3>2. TheEvent(f) \in Event
      BY <2>7, EventTyped DEF SendResponse, Move, AtEvent
    <3>3. [of |-> TheEvent(f), data |-> data, errs |-> errs] \in Message
      BY <3>2 DEF Message, TypeOK
    <3>4. queue' \in Seq(Message) /\ sent' \in Nat
      BY <2>7, <3>3 DEF SendResponse, TypeOK
    <3>. QED BY <2>7, <3>1, <3>4 DEF SendResponse, TypeOK
  <2>8. CASE ReleaseEvent(f)
    <3>1. firer' \in [Firers -> Places]
      BY <2>8, MoveTyped DEF ReleaseEvent, Places, Holding
    <3>2. tokens' \in [Limiters -> Nat]
      BY <2>8 DEF ReleaseEvent, TypeOK
    <3>. QED BY <2>8, <3>1, <3>2 DEF ReleaseEvent, TypeOK
  <2>9. CASE Unlock(f)
    <3>1. firer' \in [Firers -> Places]
      BY <2>9, MoveTyped DEF Unlock, Places, Holding
    <3>. QED BY <2>9, <3>1 DEF Unlock, TypeOK
  <2>10. CASE NoticeCancel(f)
    <3>1. firer' \in [Firers -> Places]
      BY <2>10, MoveTyped DEF NoticeCancel, Places
    <3>. QED BY <2>10, <3>1 DEF NoticeCancel, TypeOK
  <2>11. CASE LockToClose(f)
    <3>1. firer' \in [Firers -> Places]
      BY <2>11, MoveTyped DEF LockToClose, Places, Holding
    <3>. QED BY <2>11, <3>1 DEF LockToClose, TypeOK
  <2>12. CASE CloseStream(f)
    <3>1. firer' \in [Firers -> Places]
      BY <2>12, MoveTyped DEF CloseStream, Places, Holding
    <3>2. crashed' \in BOOLEAN /\ closed' \in BOOLEAN /\ docOpen' \in BOOLEAN
      BY <2>12 DEF CloseStream
    <3>3. UNCHANGED <<setup, fired, asError, subMu, eventFunc, buffer, limiting, queue, sent,
                      reading>>
      BY <2>12 DEF CloseStream
    <3>. QED BY <3>1, <3>2, <3>3 DEF TypeOK
  <2>13. CASE ForgetFuncs(f)
    <3>1. firer' \in [Firers -> Places]
      BY <2>13, MoveTyped DEF ForgetFuncs, Places, Holding
    <3>2. eventFunc' \in BOOLEAN /\ subMu' \in Firers \cup {None}
      BY <2>13 DEF ForgetFuncs
    <3>. QED BY <2>13, <3>1, <3>2 DEF ForgetFuncs, TypeOK
  <2>. QED BY <1>7, <2>1, <2>2, <2>3, <2>4, <2>5, <2>6, <2>7, <2>8, <2>9, <2>10, <2>11,
              <2>12, <2>13 DEF Firer
<1>8. CASE Receive
  <2>1. /\ queue' \in Seq(Message)
        /\ received' \in Seq(Message)
    BY <1>8 DEF Receive, TypeOK
  <2>2. reader' \in {"reading", "left", "ended"}
    BY <1>8 DEF Receive, Leaving, TypeOK
  <2>. QED BY <1>8, <2>1, <2>2 DEF Receive, TypeOK
<1>9. CASE ReceiveClose
  BY <1>9 DEF ReceiveClose, TypeOK
<1>10. CASE Cancel
  <2>1. cancelled' \in BOOLEAN /\ reader' \in {"reading", "left", "ended"}
    BY <1>10 DEF Cancel, Leaving, TypeOK
  <2>. QED BY <1>10, <2>1 DEF Cancel, TypeOK
<1>11. CASE UNCHANGED vars
  BY <1>11 DEF vars, TypeOK
<1>. QED BY <1>1, <1>2, <1>3, <1>4, <1>5, <1>6, <1>7, <1>8, <1>9, <1>10, <1>11
         DEF Next, Caller, Execute, AsyncRoot, Reading, Terminated

-----------------------------------------------------------------------------
(* The mutex.                                                              *)

\* A move changes the place of one firer.
LEMMA MoveLemma ==
  ASSUME TypeOK, NEW f \in Firers, NEW from, NEW to, Move(f, from, to)
  PROVE  /\ firer[f] = from
         /\ firer'[f] = to
         /\ \A g \in Firers : g # f => firer'[g] = firer[g]
BY DEF Move, TypeOK

\* Two firers cannot both hold the mutex.
LEMMA Exclusion ==
  ASSUME LockInv, NEW f \in Firers, NEW g \in Firers,
         firer[f] \in Holding, firer[g] \in Holding
  PROVE  f = g
BY DEF LockInv

\* Steps that concern neither the firers nor the end of the stream.
LEMMA LockStands ==
  ASSUME LockInv, UNCHANGED <<firer, subMu, eventFunc, closed>>
  PROVE  LockInv'
BY DEF LockInv

LEMMA LockInit == Init => LockInv
BY SubscriptionAssumption DEF Init, LockInv, Holding

LEMMA LockStep ==
  TypeOK /\ LockInv /\ [Next]_vars => LockInv'
<1>. SUFFICES ASSUME TypeOK, LockInv, [Next]_vars PROVE LockInv'
  OBVIOUS
<1>. USE DEF setup, firing, buffer, limiting, stream, reading
<1>1. CASE Execute \/ AsyncRootRuns \/ Receive \/ ReceiveClose \/ Cancel \/ UNCHANGED vars
  BY <1>1, LockStands
     DEF Execute, ResolveRoot, PublishRootFields, RunResolution, AwaitResolution,
         AsyncRootRuns, Receive, ReceiveClose, Cancel, vars
<1>2. ASSUME NEW l \in Limiters, Straggler(l) PROVE LockInv'
  BY <1>2, LockStands DEF Straggler, StragglerLooksUp, StragglerReleases
<1>3. ASSUME NEW f \in Firers, Firer(f) PROVE LockInv'
  <2>1. CASE Fire(f) \/ CheckRootFields(f) \/ NoticeCancel(f)
    <3>1. /\ firer[f] \in {"idle", "fire"}
          /\ firer'[f] \in {"fire", "lock", "lockToClose", "ended"}
          /\ \A g \in Firers : g # f => firer'[g] = firer[g]
      BY <2>1, MoveLemma DEF Fire, CheckRootFields, NoticeCancel
    <3>2. UNCHANGED <<subMu, eventFunc, closed>>
      BY <2>1 DEF Fire, CheckRootFields, NoticeCancel
    <3>. QED BY <3>1, <3>2 DEF LockInv, Holding
  <2>2. CASE Lock(f) \/ LockToClose(f)
    <3>1. /\ firer[f] \in {"lock", "lockToClose"}
          /\ firer'[f] \in {"locked", "closing"}
          /\ \A g \in Firers : g # f => firer'[g] = firer[g]
      BY <2>2, MoveLemma DEF Lock, LockToClose
    <3>2. subMu = None /\ subMu' = f /\ UNCHANGED <<eventFunc, closed>>
      BY <2>2 DEF Lock, LockToClose
    <3>. QED BY <3>1, <3>2, SubscriptionAssumption DEF LockInv, Holding
  <2>3. CASE DropEvent(f) \/ ExecuteEvent(f) \/ SendResponse(f) \/ ReleaseEvent(f)
    <3>1. /\ firer[f] \in {"locked", "execute", "send", "release"}
          /\ firer'[f] \in {"unlock", "send", "release"}
          /\ firer'[f] = "send" => firer[f] = "execute"
          /\ \A g \in Firers : g # f => firer'[g] = firer[g]
      BY <2>3, MoveLemma DEF DropEvent, ExecuteEvent, SendResponse, ReleaseEvent
    <3>2. UNCHANGED <<subMu, eventFunc, closed>>
      BY <2>3 DEF DropEvent, ExecuteEvent, SendResponse, ReleaseEvent
    <3>. QED BY <3>1, <3>2 DEF LockInv, Holding
  <2>4. CASE InstallEvent(f)
    <3>1. /\ firer[f] = "locked"
          /\ firer'[f] \in {"send", "execute"}
          /\ \A g \in Firers : g # f => firer'[g] = firer[g]
      BY <2>4, MoveLemma DEF InstallEvent
    <3>2. eventFunc /\ UNCHANGED <<subMu, eventFunc, closed>>
      BY <2>4 DEF InstallEvent
    <3>3. \A g \in Firers : firer[g] # "closed"
      BY <3>1, Exclusion DEF Holding
    <3>4. ~closed
      BY <3>2, <3>3 DEF LockInv
    <3>. QED BY <3>1, <3>2, <3>4 DEF LockInv, Holding
  <2>5. CASE Unlock(f)
    <3>1. /\ firer[f] = "unlock"
          /\ firer'[f] = "idle"
          /\ \A g \in Firers : g # f => firer'[g] = firer[g]
      BY <2>5, MoveLemma DEF Unlock
    <3>2. subMu' = None /\ UNCHANGED <<eventFunc, closed>>
      BY <2>5 DEF Unlock
    <3>. QED BY <3>1, <3>2, SubscriptionAssumption DEF LockInv, Holding
  <2>6. CASE CloseStream(f)
    <3>1. /\ firer[f] = "closing"
          /\ firer'[f] = "closed"
          /\ \A g \in Firers : g # f => firer'[g] = firer[g]
      BY <2>6, MoveLemma DEF CloseStream
    <3>2. closed' /\ UNCHANGED <<subMu, eventFunc>>
      BY <2>6 DEF CloseStream
    <3>3. \A g \in Firers : firer'[g] \notin {"execute", "send"}
      BY <3>1, Exclusion DEF Holding
    <3>. QED BY <3>1, <3>2, <3>3 DEF LockInv, Holding
  <2>7. CASE ForgetFuncs(f)
    <3>1. /\ firer[f] = "closed"
          /\ firer'[f] = "ended"
          /\ \A g \in Firers : g # f => firer'[g] = firer[g]
      BY <2>7, MoveLemma DEF ForgetFuncs
    <3>2. ~eventFunc' /\ subMu' = None /\ UNCHANGED closed
      BY <2>7 DEF ForgetFuncs
    <3>3. closed
      BY <3>1 DEF LockInv
    <3>4. \A g \in Firers : firer'[g] \notin {"execute", "send"}
      BY <3>1, Exclusion DEF Holding
    <3>. QED BY <3>1, <3>2, <3>3, <3>4, SubscriptionAssumption DEF LockInv, Holding
  <2>. QED BY <1>3, <2>1, <2>2, <2>3, <2>4, <2>5, <2>6, <2>7 DEF Firer
<1>. QED BY <1>1, <1>2, <1>3
         DEF Next, Caller, AsyncRoot, Reading, Terminated

-----------------------------------------------------------------------------
(* The buffer and the responses.                                           *)

LEMMA BufferInit == Init => BufferInv
BY DEF Init, BufferInv, AtEvent

\* Steps that touch neither the firers nor the buffer.
LEMMA BufferStands ==
  ASSUME BufferInv, UNCHANGED <<firing, buffer>>
  PROVE  BufferInv'
BY DEF BufferInv, TheEvent, firing, buffer

LEMMA BufferStep ==
  TypeOK /\ LockInv /\ BufferInv /\ [Next]_vars => BufferInv'
<1>. SUFFICES ASSUME TypeOK, LockInv, BufferInv, [Next]_vars PROVE BufferInv'
  OBVIOUS
<1>1. CASE Execute \/ AsyncRootRuns \/ Receive \/ ReceiveClose \/ Cancel \/ UNCHANGED vars
  BY <1>1, BufferStands
     DEF Execute, ResolveRoot, PublishRootFields, RunResolution, AwaitResolution,
         AsyncRootRuns, Receive, ReceiveClose, Cancel, vars
<1>2. ASSUME NEW l \in Limiters, Straggler(l) PROVE BufferInv'
  BY <1>2, BufferStands DEF Straggler, StragglerLooksUp, StragglerReleases
<1>3. ASSUME NEW f \in Firers, Firer(f) PROVE BufferInv'
  <2>1. CASE Fire(f)
    <3>1. /\ firer[f] = "idle" /\ firer'[f] = "fire"
          /\ \A g \in Firers : g # f => firer'[g] = firer[g]
      BY <2>1, MoveLemma DEF Fire
    <3>2. fired[f] \in 0..MaxEvents
      BY DEF TypeOK
    <3>3. /\ fired'[f] = fired[f] + 1
          /\ \A g \in Firers : g # f => fired'[g] = fired[g] /\ asError'[g] = asError[g]
      BY <2>1 DEF Fire, TypeOK
    <3>4. fired'[f] > 0
      BY <3>2, <3>3, SubscriptionAssumption
    <3>5. UNCHANGED buffer
      BY <2>1 DEF Fire
    <3>. QED BY <3>1, <3>3, <3>4, <3>5 DEF BufferInv, TheEvent, buffer
  <2>2. CASE \/ CheckRootFields(f) \/ Lock(f) \/ DropEvent(f) \/ SendResponse(f)
             \/ ReleaseEvent(f) \/ Unlock(f) \/ NoticeCancel(f) \/ LockToClose(f)
             \/ CloseStream(f) \/ ForgetFuncs(f)
    <3>1. /\ firer'[f] \notin {"execute", "send"}
          /\ firer'[f] \in AtEvent => firer[f] \in AtEvent
          /\ \A g \in Firers : g # f => firer'[g] = firer[g]
      BY <2>2, MoveLemma
         DEF CheckRootFields, Lock, DropEvent, SendResponse, ReleaseEvent, Unlock,
             NoticeCancel, LockToClose, CloseStream, ForgetFuncs, AtEvent
    <3>2. UNCHANGED <<fired, asError, slot, data, errs>>
      BY <2>2
         DEF CheckRootFields, Lock, DropEvent, SendResponse, ReleaseEvent, Unlock,
             NoticeCancel, LockToClose, CloseStream, ForgetFuncs, buffer
    <3>. QED BY <3>1, <3>2 DEF BufferInv, TheEvent
  <2>3. CASE InstallEvent(f)
    <3>1. /\ firer[f] = "locked"
          /\ firer'[f] = IF asError[f] THEN "send" ELSE "execute"
          /\ \A g \in Firers : g # f => firer'[g] = firer[g]
      BY <2>3, MoveLemma DEF InstallEvent
    <3>2. /\ UNCHANGED <<fired, asError>>
          /\ slot' = TheEvent(f) /\ data' = None
          /\ errs' = IF asError[f] THEN TheEvent(f) ELSE None
      BY <2>3 DEF InstallEvent
    <3>3. fired[f] > 0
      BY <3>1 DEF BufferInv, AtEvent
    <3>4. \A g \in Firers : g # f => firer[g] \notin {"execute", "send"}
      BY <3>1, Exclusion DEF Holding
    <3>. QED BY <3>1, <3>2, <3>3, <3>4 DEF BufferInv, TheEvent
  <2>4. CASE ExecuteEvent(f)
    <3>1. /\ firer[f] = "execute" /\ firer'[f] = "send"
          /\ \A g \in Firers : g # f => firer'[g] = firer[g]
      BY <2>4, MoveLemma DEF ExecuteEvent
    <3>2. UNCHANGED <<fired, asError, slot, errs>> /\ data' = slot
      BY <2>4 DEF ExecuteEvent
    <3>3. \A g \in Firers : g # f => firer[g] \notin {"execute", "send"}
      BY <3>1, Exclusion DEF Holding
    <3>4. fired[f] > 0
      BY <3>1 DEF BufferInv, AtEvent
    <3>. QED BY <3>1, <3>2, <3>3, <3>4 DEF BufferInv, TheEvent
  <2>. QED BY <1>3, <2>1, <2>2, <2>3, <2>4 DEF Firer
<1>. QED BY <1>1, <1>2, <1>3
         DEF Next, Caller, AsyncRoot, Reading, Terminated

-----------------------------------------------------------------------------
(* What is delivered.                                                      *)

\* A response that is sent comes after everything delivered before.
LEMMA Appended ==
  ASSUME NEW S, NEW r \in Seq(S), NEW q \in Seq(S), NEW m \in S
  PROVE  r \o Append(q, m) = Append(r \o q, m)
<1>1. /\ r \o q \in Seq(S)
      /\ Len(r \o q) = Len(r) + Len(q)
      /\ Append(q, m) \in Seq(S)
      /\ Len(Append(q, m)) = Len(q) + 1
  OBVIOUS
<1>2. /\ r \o Append(q, m) \in Seq(S)
      /\ Append(r \o q, m) \in Seq(S)
      /\ Len(r \o Append(q, m)) = Len(Append(r \o q, m))
  BY <1>1
<1>3. ASSUME NEW i \in 1..Len(Append(r \o q, m))
      PROVE  (r \o Append(q, m))[i] = Append(r \o q, m)[i]
  BY <1>1
<1>. QED BY <1>2, <1>3, SeqEqual

\* Receiving a response takes it from the queue and delivers it in its place.
LEMMA Shifted ==
  ASSUME NEW S, NEW r \in Seq(S), NEW q \in Seq(S), q # <<>>
  PROVE  Append(r, Head(q)) \o Tail(q) = r \o q
<1>1. /\ Head(q) \in S
      /\ Tail(q) \in Seq(S)
      /\ Len(Tail(q)) = Len(q) - 1
      /\ \A i \in 1..Len(Tail(q)) : Tail(q)[i] = q[i + 1]
  BY HeadTailProperties
<1>2. Head(q) = q[1] /\ Len(q) \in Nat \ {0}
  BY EmptySeq
<1>3. /\ Append(r, Head(q)) \in Seq(S)
      /\ Len(Append(r, Head(q))) = Len(r) + 1
      /\ Append(r, Head(q))[Len(r) + 1] = Head(q)
      /\ \A i \in 1..Len(r) : Append(r, Head(q))[i] = r[i]
  BY <1>1
<1>4. /\ r \o q \in Seq(S)
      /\ Len(r \o q) = Len(r) + Len(q)
      /\ \A i \in 1..Len(r) + Len(q) :
           (r \o q)[i] = IF i <= Len(r) THEN r[i] ELSE q[i - Len(r)]
  BY ConcatProperties
<1>5. DEFINE t == Append(r, Head(q)) \o Tail(q)
<1>6. /\ t \in Seq(S)
      /\ Len(t) = Len(r) + Len(q)
      /\ \A i \in 1..Len(r) + Len(q) :
           t[i] = IF i <= Len(r) + 1 THEN Append(r, Head(q))[i]
                                     ELSE Tail(q)[i - (Len(r) + 1)]
  <2>1. Len(Append(r, Head(q))) + Len(Tail(q)) = Len(r) + Len(q)
    BY <1>1, <1>2, <1>3
  <2>. QED BY <1>1, <1>3, <2>1, ConcatProperties
<1>7. ASSUME NEW i \in 1..Len(t) PROVE t[i] = (r \o q)[i]
  <2>1. CASE i <= Len(r)
    BY <2>1, <1>3, <1>4, <1>6
  <2>2. CASE i = Len(r) + 1
    BY <2>2, <1>2, <1>3, <1>4, <1>6
  <2>3. CASE i > Len(r) + 1
    <3>1. Len(r) \in Nat
      OBVIOUS
    <3>2. i - (Len(r) + 1) \in 1..Len(Tail(q))
      BY <3>1, <2>3, <1>1, <1>2, <1>6
    <3>3. t[i] = q[(i - (Len(r) + 1)) + 1]
      BY <3>1, <3>2, <2>3, <1>1, <1>6
    <3>4. (i - (Len(r) + 1)) + 1 = i - Len(r)
      BY <3>1
    <3>. QED BY <3>1, <3>3, <3>4, <2>3, <1>4, <1>6
  <2>4. Len(r) \in Nat
    OBVIOUS
  <2>. QED BY <2>1, <2>2, <2>3, <2>4
<1>. QED BY <1>4, <1>6, <1>7, SeqEqual

\* Delivered grows when a response is sent, and at no other step.
LEMMA DeliveredStep ==
  ASSUME TypeOK, [Next]_vars,
         \A f \in Firers : ~ SendResponse(f)
  PROVE  Delivered' = Delivered
<1>. USE DEF setup, firing, buffer, limiting, stream, reading
<1>1. CASE Receive
  <2>1. received \in Seq(Message) /\ queue \in Seq(Message)
    BY DEF TypeOK
  <2>2. queue # <<>> /\ queue' = Tail(queue) /\ received' = Append(received, Head(queue))
    BY <1>1 DEF Receive
  <2>. QED BY <2>1, <2>2, Shifted DEF Delivered
<1>2. CASE ~Receive
  <2>1. UNCHANGED <<queue, received>>
    BY <1>2
       DEF Next, Caller, AsyncRoot, Reading, Terminated, Execute, ResolveRoot,
           PublishRootFields, RunResolution, AwaitResolution, AsyncRootRuns, Straggler,
           StragglerLooksUp, StragglerReleases, Firer, Fire, CheckRootFields, Lock,
           DropEvent, InstallEvent, ExecuteEvent, ReleaseEvent, Unlock, NoticeCancel,
           LockToClose, CloseStream, ForgetFuncs, ReceiveClose, Cancel, vars
  <2>. QED BY <2>1 DEF Delivered
<1>. QED BY <1>1, <1>2

\* Every response belongs to an event.
LEMMA EventOfMessage ==
  ASSUME NEW s \in Seq(Message), NEW m \in ToSet(s)
  PROVE  m.of.by \in Firers /\ m.of.no \in Nat
<1>1. m \in Message
  BY DEF ToSet
<1>2. m.of \in Event
  BY <1>1 DEF Message
<1>3. m.of.by \in Firers /\ m.of.no \in 1..MaxEvents
  BY <1>2 DEF Event
<1>. QED BY <1>3, SubscriptionAssumption

\* The response that a firer sends.
Sent(f) == [of |-> TheEvent(f), data |-> data, errs |-> errs]

LEMMA SentTyped ==
  ASSUME TypeOK, BufferInv, NEW f \in Firers, SendResponse(f)
  PROVE  /\ Sent(f) \in Message
         /\ Delivered \in Seq(Message)
         /\ Delivered' = Append(Delivered, Sent(f))
<1>1. TheEvent(f) \in Event
  BY EventTyped DEF SendResponse, Move, AtEvent
<1>2. Sent(f) \in Message
  BY <1>1 DEF Sent, Message, TypeOK
<1>3. received \in Seq(Message) /\ queue \in Seq(Message)
  BY DEF TypeOK
<1>4. Delivered \in Seq(Message)
  BY <1>3 DEF Delivered
<1>5. queue' = Append(queue, Sent(f)) /\ received' = received
  BY DEF SendResponse, Sent, reading
<1>. QED BY <1>2, <1>3, <1>4, <1>5, Appended DEF Delivered

\* What a step does to a firer: it fires its next event, or it stays at the same one;
\* and the response of that one is sent, or the event dropped, by no other step.
LEMMA EventStep ==
  ASSUME TypeOK, [Next]_vars, NEW g \in Firers
  PROVE  \/ fired'[g] = fired[g] + 1 /\ firer'[g] \in Unsent /\ firer[g] \notin Unsent
         \/ /\ fired'[g] = fired[g]
            /\ firer'[g] \in Unsent => firer[g] \in Unsent
            /\ firer[g] \in Unsent => firer'[g] \in Unsent \/ SendResponse(g) \/ DropEvent(g)
<1>1. CASE UNCHANGED <<firer, fired>>
  BY <1>1
<1>2. ASSUME NEW f \in Firers, Fire(f)
      PROVE  \/ fired'[g] = fired[g] + 1 /\ firer'[g] \in Unsent /\ firer[g] \notin Unsent
             \/ fired'[g] = fired[g] /\ firer'[g] = firer[g]
  <2>1. CASE g = f
    <3>1. fired' = [fired EXCEPT ![f] = @ + 1] /\ fired \in [Firers -> 0..MaxEvents]
      BY <1>2 DEF Fire, TypeOK
    <3>2. fired'[f] = fired[f] + 1
      BY <3>1
    <3>3. firer[f] = "idle" /\ firer'[f] = "fire"
      BY <1>2, MoveLemma DEF Fire
    <3>. QED BY <2>1, <3>2, <3>3 DEF Unsent
  <2>2. CASE g # f
    BY <1>2, <2>2, MoveLemma DEF Fire, TypeOK
  <2>. QED BY <2>1, <2>2
<1>3. ASSUME NEW f \in Firers, Firer(f), ~Fire(f)
      PROVE  /\ fired'[g] = fired[g]
             /\ firer'[g] \in Unsent => firer[g] \in Unsent
             /\ firer[g] \in Unsent => firer'[g] \in Unsent \/ SendResponse(g) \/ DropEvent(g)
  <2>1. UNCHANGED fired
    BY <1>3
       DEF Firer, CheckRootFields, Lock, DropEvent, InstallEvent, ExecuteEvent, SendResponse,
           ReleaseEvent, Unlock, NoticeCancel, LockToClose, CloseStream, ForgetFuncs
  <2>2. \A h \in Firers : h # f => firer'[h] = firer[h]
    BY <1>3, MoveLemma
       DEF Firer, CheckRootFields, Lock, DropEvent, InstallEvent, ExecuteEvent, SendResponse,
           ReleaseEvent, Unlock, NoticeCancel, LockToClose, CloseStream, ForgetFuncs
  <2>3. firer'[f] \in Unsent => firer[f] \in Unsent
    BY <1>3, MoveLemma
       DEF Firer, CheckRootFields, Lock, DropEvent, InstallEvent, ExecuteEvent, SendResponse,
           ReleaseEvent, Unlock, NoticeCancel, LockToClose, CloseStream, ForgetFuncs, Unsent
  <2>4. firer[f] \in Unsent => firer'[f] \in Unsent \/ SendResponse(f) \/ DropEvent(f)
    BY <1>3, MoveLemma
       DEF Firer, CheckRootFields, Lock, InstallEvent, ExecuteEvent, ReleaseEvent, Unlock,
           NoticeCancel, LockToClose, CloseStream, ForgetFuncs, Unsent
  <2>. QED BY <2>1, <2>2, <2>3, <2>4
<1>4. \/ UNCHANGED <<firer, fired>>
      \/ \E f \in Firers : Firer(f)
  BY DEF Next, Caller, AsyncRoot, Reading, Terminated, Execute, ResolveRoot,
         PublishRootFields, RunResolution, AwaitResolution, AsyncRootRuns, Straggler,
         StragglerLooksUp, StragglerReleases, Receive, ReceiveClose, Cancel, vars, firing
<1>. QED BY <1>1, <1>2, <1>3, <1>4

\* What the responses so far say of each other and of the firers.
DeliveryInv == OrderInv /\ EventsNotMixed /\ DeliveredInOrder

LEMMA DeliveryInit == Init => DeliveryInv
<1>. SUFFICES ASSUME Init PROVE DeliveryInv
  OBVIOUS
<1>1. Delivered = <<>>
  BY DEF Init, Delivered
<1>2. ToSet(Delivered) = {} /\ DOMAIN Delivered = {}
  BY <1>1 DEF ToSet
<1>. QED BY <1>2 DEF DeliveryInv, OrderInv, EventsNotMixed, DeliveredInOrder

LEMMA DeliveryStep ==
  TypeOK /\ BufferInv /\ DeliveryInv /\ [Next]_vars => DeliveryInv'
<1>. SUFFICES ASSUME TypeOK, BufferInv, DeliveryInv, [Next]_vars PROVE DeliveryInv'
  OBVIOUS
<1>1. ASSUME NEW f \in Firers, SendResponse(f) PROVE DeliveryInv'
  <2>1. /\ Sent(f) \in Message
        /\ Delivered \in Seq(Message)
        /\ Delivered' = Append(Delivered, Sent(f))
    BY <1>1, SentTyped
  <2>2. /\ firer[f] = "send"
        /\ firer'[f] \in {"unlock", "release"}
        /\ \A g \in Firers : g # f => firer'[g] = firer[g]
        /\ UNCHANGED fired
    BY <1>1, MoveLemma DEF SendResponse
  <2>3. ToSet(Delivered') = ToSet(Delivered) \cup {Sent(f)}
    BY <2>1 DEF ToSet
  <2>4. /\ Sent(f).of.by = f
        /\ Sent(f).of.no = fired[f]
        /\ Sent(f).of = TheEvent(f)
        /\ Sent(f).data = data
        /\ Sent(f).errs = errs
    BY DEF Sent, TheEvent
  <2>5. \A m \in ToSet(Delivered) : m.of.by \in Firers /\ m.of.no \in Nat
    BY <2>1, EventOfMessage
  <2>6. fired[f] \in Nat
    BY SubscriptionAssumption DEF TypeOK
  <2>7. OrderInv'
    <3>1. ASSUME NEW m \in ToSet(Delivered)
          PROVE  /\ m.of.no <= fired'[m.of.by]
                 /\ firer'[m.of.by] \in Unsent => m.of.no < fired'[m.of.by]
      BY <2>2, <2>5 DEF DeliveryInv, OrderInv, Unsent
    <3>2. /\ Sent(f).of.no <= fired'[Sent(f).of.by]
          /\ firer'[Sent(f).of.by] \notin Unsent
      BY <2>2, <2>4, <2>6 DEF Unsent
    <3>3. \A m \in ToSet(Delivered') : /\ m.of.no <= fired'[m.of.by]
                                       /\ firer'[m.of.by] \in Unsent =>
                                            m.of.no < fired'[m.of.by]
      BY <2>3, <3>1, <3>2
    <3>. QED BY <3>3 DEF OrderInv, Delivered
  <2>8. EventsNotMixed'
    <3>1. \/ Sent(f).data = Sent(f).of /\ Sent(f).errs = None
          \/ Sent(f).data = None /\ Sent(f).errs = Sent(f).of
      BY <2>2, <2>4 DEF BufferInv
    <3>2. \A m \in ToSet(Delivered') : \/ m.data = m.of /\ m.errs = None
                                       \/ m.data = None /\ m.errs = m.of
      BY <2>3, <3>1 DEF DeliveryInv, EventsNotMixed
    <3>. QED BY <3>2 DEF EventsNotMixed, Delivered
  <2>9. DeliveredInOrder'
    <3>1. /\ DOMAIN Delivered' = 1..(Len(Delivered) + 1)
          /\ DOMAIN Delivered = 1..Len(Delivered)
          /\ Len(Delivered) \in Nat
          /\ \A i \in DOMAIN Delivered : Delivered'[i] = Delivered[i]
          /\ Delivered'[Len(Delivered) + 1] = Sent(f)
      BY <2>1
    <3>2. ASSUME NEW i \in DOMAIN Delivered', NEW j \in DOMAIN Delivered',
                 i < j, Delivered'[i].of.by = Delivered'[j].of.by
          PROVE  Delivered'[i].of.no < Delivered'[j].of.no
      <4>1. i \in DOMAIN Delivered
        BY <3>1, <3>2
      <4>2. CASE j \in DOMAIN Delivered
        BY <3>1, <3>2, <4>1, <4>2 DEF DeliveryInv, DeliveredInOrder
      <4>3. CASE j = Len(Delivered) + 1
        <5>1. Delivered[i] \in ToSet(Delivered)
          BY <4>1 DEF ToSet
        <5>2. Delivered[i].of.by = f
          BY <3>1, <3>2, <4>1, <4>3, <2>4
        <5>3. Delivered[i].of.no < fired[f]
          BY <5>1, <5>2, <2>2 DEF DeliveryInv, OrderInv, Unsent
        <5>. QED BY <3>1, <4>1, <4>3, <5>3, <2>4
      <4>. QED BY <3>1, <4>2, <4>3
    <3>. QED BY <3>2 DEF DeliveredInOrder, Delivered
  <2>. QED BY <2>7, <2>8, <2>9 DEF DeliveryInv
<1>2. ASSUME \A f \in Firers : ~ SendResponse(f) PROVE DeliveryInv'
  <2>1. Delivered' = Delivered
    BY <1>2, DeliveredStep
  <2>2. received \in Seq(Message) /\ queue \in Seq(Message)
    BY DEF TypeOK
  <2>3. Delivered \in Seq(Message)
    BY <2>2 DEF Delivered
  <2>4. \A m \in ToSet(Delivered) : m.of.by \in Firers /\ m.of.no \in Nat
    BY <2>3, EventOfMessage
  <2>5. ASSUME NEW g \in Firers
        PROVE  /\ fired[g] \in Nat
               /\ \/ fired'[g] = fired[g] + 1
                  \/ fired'[g] = fired[g] /\ (firer'[g] \in Unsent => firer[g] \in Unsent)
    <3>1. fired[g] \in Nat
      BY SubscriptionAssumption DEF TypeOK
    <3>2. \/ fired'[g] = fired[g] + 1
          \/ fired'[g] = fired[g] /\ (firer'[g] \in Unsent => firer[g] \in Unsent)
      BY EventStep
    <3>. QED BY <3>1, <3>2
  <2>6. OrderInv'
    <3>1. ASSUME NEW m \in ToSet(Delivered)
          PROVE  /\ m.of.no <= fired'[m.of.by]
                 /\ firer'[m.of.by] \in Unsent => m.of.no < fired'[m.of.by]
      <4>1. m.of.by \in Firers /\ m.of.no \in Nat
        BY <2>4
      <4>2. /\ m.of.no <= fired[m.of.by]
            /\ firer[m.of.by] \in Unsent => m.of.no < fired[m.of.by]
        BY DEF DeliveryInv, OrderInv
      <4>. QED BY <4>1, <4>2, <2>5
    <3>2. \A m \in ToSet(Delivered') : /\ m.of.no <= fired'[m.of.by]
                                       /\ firer'[m.of.by] \in Unsent =>
                                            m.of.no < fired'[m.of.by]
      BY <2>1, <3>1
    <3>. QED BY <3>2 DEF OrderInv, Delivered
  <2>7. EventsNotMixed' /\ DeliveredInOrder'
    BY <2>1 DEF DeliveryInv, EventsNotMixed, DeliveredInOrder, Delivered
  <2>. QED BY <2>6, <2>7 DEF DeliveryInv
<1>. QED BY <1>1, <1>2

-----------------------------------------------------------------------------
(* What an open stream owes.                                               *)

LEMMA LossInit == Init => LossInv
BY DEF Init, LossInv

\* What has been delivered stays delivered.
LEMMA DeliveredStays ==
  ASSUME TypeOK, BufferInv, [Next]_vars
  PROVE  ToSet(Delivered) \subseteq ToSet(Delivered')
<1>1. ASSUME NEW f \in Firers, SendResponse(f)
      PROVE  ToSet(Delivered) \subseteq ToSet(Delivered')
  <2>1. /\ Sent(f) \in Message
        /\ Delivered \in Seq(Message)
        /\ Delivered' = Append(Delivered, Sent(f))
    BY <1>1, SentTyped
  <2>. QED BY <2>1 DEF ToSet
<1>. QED BY <1>1, DeliveredStep

\* A closed stream stays closed.
LEMMA ClosedStays ==
  ASSUME [Next]_vars, closed
  PROVE  closed'
BY DEF Next, Caller, AsyncRoot, Reading, Terminated, Execute, ResolveRoot,
       PublishRootFields, RunResolution, AwaitResolution, AsyncRootRuns, Straggler,
       StragglerLooksUp, StragglerReleases, Firer, Fire, CheckRootFields, Lock, DropEvent,
       InstallEvent, ExecuteEvent, SendResponse, ReleaseEvent, Unlock, NoticeCancel,
       LockToClose, CloseStream, ForgetFuncs, Receive, ReceiveClose, Cancel, vars, stream

LEMMA LossStep ==
  TypeOK /\ LockInv /\ BufferInv /\ LossInv /\ [Next]_vars => LossInv'
<1>. SUFFICES ASSUME TypeOK, LockInv, BufferInv, LossInv, [Next]_vars,
                     ~closed',
                     NEW f \in Firers, NEW k \in 1..fired'[f]
              PROVE  \/ k = fired'[f] /\ firer'[f] \in Unsent
                     \/ \E m \in ToSet(Delivered') : m.of = [by |-> f, no |-> k]
  BY DEF LossInv, Delivered
<1>1. ~closed
  BY ClosedStays
<1>2. fired[f] \in Nat /\ k \in Nat \ {0}
  BY SubscriptionAssumption DEF TypeOK
<1>3. ASSUME NEW j \in 1..fired[f], ~(j = fired[f] /\ firer[f] \in Unsent)
      PROVE  \E m \in ToSet(Delivered') : m.of = [by |-> f, no |-> j]
  BY <1>1, <1>3, DeliveredStays DEF LossInv
<1>4. CASE fired'[f] = fired[f] + 1 /\ firer'[f] \in Unsent /\ firer[f] \notin Unsent
  <2>1. k = fired'[f] \/ k \in 1..fired[f]
    BY <1>2, <1>4
  <2>. QED BY <2>1, <1>3, <1>4
<1>5. CASE /\ fired'[f] = fired[f]
           /\ firer[f] \in Unsent => firer'[f] \in Unsent \/ SendResponse(f) \/ DropEvent(f)
  <2>1. CASE ~(k = fired[f] /\ firer[f] \in Unsent)
    BY <2>1, <1>3, <1>5
  <2>2. CASE firer'[f] \in Unsent /\ k = fired[f]
    BY <2>2, <1>5
  <2>3. CASE SendResponse(f) /\ k = fired[f]
    <3>1. /\ Sent(f) \in Message
          /\ Delivered \in Seq(Message)
          /\ Delivered' = Append(Delivered, Sent(f))
      BY <2>3, SentTyped
    <3>2. Sent(f) \in ToSet(Delivered')
      BY <3>1 DEF ToSet
    <3>3. Sent(f).of = [by |-> f, no |-> k]
      BY <2>3 DEF Sent, TheEvent
    <3>. QED BY <3>2, <3>3
  <2>4. CASE DropEvent(f)
    <3>1. ~eventFunc
      BY <2>4 DEF DropEvent
    <3>. QED BY <3>1, <1>1 DEF LockInv
  <2>. QED BY <1>5, <2>1, <2>2, <2>3, <2>4
<1>. QED BY <1>4, <1>5, EventStep

-----------------------------------------------------------------------------
(* The theorems.                                                           *)

\* The inductive invariant: types, the mutex, the buffer and what is delivered.
THEOREM SubscriptionInvariant == Spec => []SubscriptionInv
<1>1. Init => SubscriptionInv
  BY TypeInit, LockInit, BufferInit, DeliveryInit, LossInit DEF SubscriptionInv, DeliveryInv
<1>2. SubscriptionInv /\ [Next]_vars => SubscriptionInv'
  BY TypeStep, LockStep, BufferStep, DeliveryStep, LossStep
     DEF SubscriptionInv, DeliveryInv
<1>. QED BY <1>1, <1>2, PTL DEF Spec

\* However many goroutines fire at once, no response holds anything of another event.
THEOREM EventsKeptApart == Spec => []EventsNotMixed
<1>1. SubscriptionInv => EventsNotMixed
  BY DEF SubscriptionInv
<1>. QED BY <1>1, SubscriptionInvariant, PTL

\* The events of one goroutine are delivered in the order it fired them, each once.
THEOREM OrderKept == Spec => []DeliveredInOrder
<1>1. SubscriptionInv => DeliveredInOrder
  BY DEF SubscriptionInv
<1>. QED BY <1>1, SubscriptionInvariant, PTL

\* Until the stream is closed, no event is lost: what FireSubscriptionEvent has returned
\* from has been sent.
THEOREM NothingLost == Spec => []OpenStreamLosesNothing
<1>1. SubscriptionInv => OpenStreamLosesNothing
  <2>. SUFFICES ASSUME SubscriptionInv, ~closed, NEW f \in Firers, NEW k \in 1..Finished(f)
                PROVE  [by |-> f, no |-> k] \in {m.of : m \in ToSet(Delivered)}
    BY DEF OpenStreamLosesNothing
  <2>1. fired[f] \in Nat
    BY SubscriptionAssumption DEF SubscriptionInv, TypeOK
  <2>2. k \in 1..fired[f] /\ ~(k = fired[f] /\ firer[f] \in Unsent)
    BY <2>1 DEF Finished, Unsent
  <2>3. \E m \in ToSet(Delivered) : m.of = [by |-> f, no |-> k]
    BY <2>2 DEF SubscriptionInv, LossInv
  <2>. QED BY <2>3
<1>. QED BY <1>1, SubscriptionInvariant, PTL

\* After the close, no event is executing or about to send.
THEOREM QuietAfterClose == Spec => []ClosedIsQuiet
<1>1. SubscriptionInv => ClosedIsQuiet
  BY DEF SubscriptionInv, LockInv, ClosedIsQuiet
<1>. QED BY <1>1, SubscriptionInvariant, PTL

\* A subscription keeps the contract of a response stream: nothing is sent after the
\* close, and the stream is closed once.
THEOREM ImplementsStream == Spec => StreamContract
<1>1. Init => Stream!Init
  BY DEF Init, Stream!Init
<1>2. SubscriptionInv /\ [Next]_vars => [Stream!Next]_<<sent, closed>>
  <2>. SUFFICES ASSUME SubscriptionInv, [Next]_vars PROVE [Stream!Next]_<<sent, closed>>
    OBVIOUS
  <2>1. ASSUME NEW f \in Firers, SendResponse(f) PROVE Stream!Next
    <3>1. ~closed
      BY <2>1 DEF SubscriptionInv, LockInv, SendResponse, Move
    <3>2. sent' = sent + 1 /\ UNCHANGED closed
      BY <2>1 DEF SendResponse
    <3>. QED BY <3>1, <3>2 DEF Stream!Next, Stream!Send
  <2>2. ASSUME NEW f \in Firers, CloseStream(f)
        PROVE  Stream!Next \/ UNCHANGED <<sent, closed>>
    <3>1. closed' = TRUE /\ UNCHANGED sent
      BY <2>2 DEF CloseStream
    <3>2. closed \in BOOLEAN
      BY DEF SubscriptionInv, TypeOK
    <3>3. CASE closed
      BY <3>1, <3>2, <3>3
    <3>4. CASE ~closed
      BY <3>1, <3>4 DEF Stream!Next, Stream!Close
    <3>. QED BY <3>3, <3>4
  <2>3. ASSUME \A f \in Firers : ~SendResponse(f) /\ ~CloseStream(f)
        PROVE  UNCHANGED <<sent, closed>>
    BY <2>3
       DEF Next, Caller, AsyncRoot, Reading, Terminated, Execute, ResolveRoot,
           PublishRootFields, RunResolution, AwaitResolution, AsyncRootRuns, Straggler,
           StragglerLooksUp, StragglerReleases, Firer, Fire, CheckRootFields, Lock,
           DropEvent, InstallEvent, ExecuteEvent, ReleaseEvent, Unlock, NoticeCancel,
           LockToClose, ForgetFuncs, Receive, ReceiveClose, Cancel, vars, stream
  <2>. QED BY <2>1, <2>2, <2>3
<1>. QED BY <1>1, <1>2, SubscriptionInvariant, PTL DEF Spec, StreamContract, Stream!Spec

=============================================================================
