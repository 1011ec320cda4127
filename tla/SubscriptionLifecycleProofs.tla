--------------------- MODULE SubscriptionLifecycleProofs ---------------------
(***************************************************************************)
(* For every number of connections, of retries and of losses, the           *)
(* invariants that TLC checks on instances of SubscriptionLifecycle hold,   *)
(* StartAsync awaits a bounded number of times, and the event store sees    *)
(* the consumers come and go as in ConnectionSlots.                         *)
(***************************************************************************)
EXTENDS SubscriptionLifecycle, TLAPS

-----------------------------------------------------------------------------
(* Each action preserves the invariant.                                     *)

\* A connection that the server confirms was awaited, and stays so until it is
\* stored.
LEMMA ConfirmPreserves ==
    ASSUME IInv, NEW s \in Calls, Confirm(s)
    PROVE  IInv'
<1> USE ConstantsAssumption DEF Calls, Slots
<1>1. TypeOK'
  BY DEF IInv, TypeOK, States, Confirm
<1>2. CallInv'
  BY DEF IInv, CallInv, Confirm
<1>3. StartInv'
  BY DEF IInv, StartInv, Confirm
<1>4. SlotInv'
  BY DEF IInv, SlotInv, Confirm
<1>5. ReplacingInv'
  BY DEF IInv, ReplacingInv, Confirm
<1>6. AccountInv'
  BY DEF IInv, TypeOK, AccountInv, Connected, CallInv, Confirm
<1>7. OneConsumerPerSlot'
  BY DEF IInv, OneConsumerPerSlot, Active, Confirm
<1>8. NoLeak'
  BY DEF IInv, TypeOK, NoLeak, CallInv, Confirm
<1>9. CallsAnswerLosses'
  BY DEF IInv, CallsAnswerLosses, Confirm
<1> QED
  BY <1>1, <1>2, <1>3, <1>4, <1>5, <1>6, <1>7, <1>8, <1>9 DEF IInv

\* A call that fails accounts for its element from then on.
LEMMA RefusePreserves ==
    ASSUME IInv, NEW s \in Calls, Refuse(s)
    PROVE  IInv'
<1> USE ConstantsAssumption DEF Calls, Slots
<1>1. TypeOK'
  BY DEF IInv, TypeOK, States, Refuse
<1>2. CallInv'
  BY DEF IInv, TypeOK, CallInv, Refuse
<1>3. StartInv'
  BY DEF IInv, StartInv, Refuse
<1>4. SlotInv'
  BY DEF IInv, SlotInv, Refuse
<1>5. ReplacingInv'
  BY DEF IInv, ReplacingInv, Refuse
<1>6. AccountInv'
  BY DEF IInv, AccountInv, Connected, Refuse
<1>7. OneConsumerPerSlot'
  BY DEF IInv, OneConsumerPerSlot, Active, Refuse
<1>8. NoLeak'
  BY DEF IInv, NoLeak, Refuse
<1>9. CallsAnswerLosses'
  BY DEF IInv, CallsAnswerLosses, Refuse
<1> QED
  BY <1>1, <1>2, <1>3, <1>4, <1>5, <1>6, <1>7, <1>8, <1>9 DEF IInv

\* A dropped connection accounts for its element until its callback runs.
LEMMA DropPreserves ==
    ASSUME IInv, NEW s \in Calls, Drop(s)
    PROVE  IInv'
<1> USE ConstantsAssumption DEF Calls, Slots
<1>1. TypeOK'
  BY DEF IInv, TypeOK, States, Drop
<1>2. CallInv'
  BY DEF IInv, CallInv, Drop
<1>3. StartInv'
  BY DEF IInv, StartInv, Drop
<1>4. SlotInv'
  BY DEF IInv, SlotInv, Drop
<1>5. ReplacingInv'
  BY DEF IInv, ReplacingInv, Drop
<1>6. AccountInv'
  BY DEF IInv, TypeOK, AccountInv, Connected, CallInv, SlotInv, ReplacingInv,
     Drop
<1>7. OneConsumerPerSlot'
  BY DEF IInv, OneConsumerPerSlot, Active, Drop
<1>8. NoLeak'
  BY DEF IInv, NoLeak, Drop
<1>9. CallsAnswerLosses'
  BY DEF IInv, CallsAnswerLosses, Drop
<1> QED
  BY <1>1, <1>2, <1>3, <1>4, <1>5, <1>6, <1>7, <1>8, <1>9 DEF IInv

\* An outage drops every open connection.
LEMMA ServerDownPreserves ==
    ASSUME IInv, ServerDown
    PROVE  IInv'
<1> USE ConstantsAssumption DEF Calls, Slots
<1>1. TypeOK'
  BY DEF IInv, TypeOK, States, ServerDown
<1>2. CallInv'
  BY DEF IInv, CallInv, ServerDown
<1>3. StartInv'
  BY DEF IInv, StartInv, ServerDown
<1>4. SlotInv'
  BY DEF IInv, TypeOK, SlotInv, ServerDown
<1>5. ReplacingInv'
  BY DEF IInv, TypeOK, ReplacingInv, ServerDown
<1>6. AccountInv'
  BY DEF IInv, TypeOK, AccountInv, Connected, CallInv, SlotInv, ReplacingInv,
     ServerDown
<1>7. OneConsumerPerSlot'
  BY DEF IInv, OneConsumerPerSlot, Active, ServerDown
<1>8. NoLeak'
  BY DEF IInv, NoLeak, ServerDown
<1>9. CallsAnswerLosses'
  BY DEF IInv, CallsAnswerLosses, ServerDown
<1> QED
  BY <1>1, <1>2, <1>3, <1>4, <1>5, <1>6, <1>7, <1>8, <1>9 DEF IInv

\* The server's return changes no connection.
LEMMA ServerUpPreserves ==
    ASSUME IInv, ServerUp
    PROVE  IInv'
<1> USE ConstantsAssumption DEF Calls, Slots
<1>1. TypeOK'
  BY DEF IInv, TypeOK, States, ServerUp
<1>2. CallInv'
  BY DEF IInv, CallInv, ServerUp
<1>3. StartInv'
  BY DEF IInv, StartInv, ServerUp
<1>4. SlotInv'
  BY DEF IInv, SlotInv, ServerUp
<1>5. ReplacingInv'
  BY DEF IInv, ReplacingInv, ServerUp
<1>6. AccountInv'
  BY DEF IInv, AccountInv, Connected, ServerUp
<1>7. OneConsumerPerSlot'
  BY DEF IInv, OneConsumerPerSlot, Active, ServerUp
<1>8. NoLeak'
  BY DEF IInv, NoLeak, ServerUp
<1>9. CallsAnswerLosses'
  BY DEF IInv, CallsAnswerLosses, ServerUp
<1> QED
  BY <1>1, <1>2, <1>3, <1>4, <1>5, <1>6, <1>7, <1>8, <1>9 DEF IInv

\* StartAsync makes the first calls, one for each element.
LEMMA StartPreserves ==
    ASSUME IInv, Start
    PROVE  IInv'
<1> USE ConstantsAssumption DEF Calls, Slots
<1>1. calls = 0
  BY DEF IInv, StartInv, Start
<1>2. ASSUME NEW s \in replacing
      PROVE  FALSE
  <2>1. s \in Calls /\ s > calls
    BY <1>1 DEF IInv, TypeOK
  <2> QED
    BY <2>1 DEF IInv, CallInv, ReplacingInv
<1>3. replacing = {} /\ calls = 0 /\ slots = [i \in Slots |-> 0]
  BY <1>1, <1>2 DEF IInv, StartInv, Start
<1>4. TypeOK'
  BY <1>3 DEF IInv, TypeOK, States, Start
<1>5. CallInv'
  BY <1>3 DEF IInv, CallInv, Start
<1>6. StartInv'
  <2>1. /\ pc' = "starting" /\ calls' = ConnectionCount
        /\ \A t \in Slots : sub'[t] = "calling"
        /\ UNCHANGED <<current, slots>>
    BY <1>3 DEF Start
  <2>2. current = 1
    BY DEF Start, IInv, StartInv
  <2> QED
    BY <1>3, <2>1, <2>2 DEF StartInv
<1>7. SlotInv'
  BY <1>3 DEF IInv, SlotInv, Start
<1>8. ReplacingInv'
  BY <1>3 DEF IInv, ReplacingInv, Start
<1>9. AccountInv'
  BY <1>3 DEF IInv, AccountInv, Connected, Start
<1>10. OneConsumerPerSlot'
  BY <1>3 DEF IInv, OneConsumerPerSlot, Active, Start
<1>11. NoLeak'
  BY <1>3 DEF IInv, NoLeak, Start
<1>12. CallsAnswerLosses'
  BY <1>3 DEF IInv, CallsAnswerLosses, Start
<1> QED
  BY <1>4, <1>5, <1>6, <1>7, <1>8, <1>9, <1>10, <1>11, <1>12 DEF IInv

\* When the loop of StartAsync is through with a connection, all those it was
\* through with before are answered; after the last one the array holds those
\* that were not refused.
LEMMA AdvancePreserves ==
    ASSUME IInv, pc = "starting", sub[current] # "calling", Advance,
           UNCHANGED <<server, calls, sub, slot, replacing>>
    PROVE  IInv'
<1> USE ConstantsAssumption DEF Calls, Slots
<1>1. /\ calls = ConnectionCount /\ replacing = {}
      /\ \A i \in Slots : i \in Calls /\ i # 0 /\ slot[i] = i
      /\ \A i \in Slots : sub[i] \in {"calling", "failed", "open", "lost", "ignored"}
  BY DEF IInv, TypeOK, CallInv, StartInv, ReplacingInv
<1>2. CASE current < ConnectionCount
  <2>1. TypeOK'
    BY <1>1, <1>2 DEF IInv, TypeOK, States, Advance
  <2>2. CallInv'
    BY <1>1, <1>2 DEF IInv, CallInv, Advance
  <2>3. StartInv'
    BY <1>1, <1>2 DEF IInv, TypeOK, StartInv, Advance
  <2>4. SlotInv'
    BY <1>1, <1>2 DEF IInv, SlotInv, Advance
  <2>5. ReplacingInv'
    BY <1>1, <1>2 DEF IInv, ReplacingInv, Advance
  <2>6. AccountInv'
    BY <1>1, <1>2 DEF IInv, AccountInv, Connected, Advance
  <2>7. OneConsumerPerSlot'
    BY <1>1, <1>2 DEF IInv, OneConsumerPerSlot, Active, Advance
  <2>8. NoLeak'
    BY <1>1, <1>2 DEF IInv, NoLeak, Advance
  <2>9. CallsAnswerLosses'
    BY <1>1, <1>2 DEF IInv, CallsAnswerLosses, Advance
  <2> QED
    BY <2>1, <2>2, <2>3, <2>4, <2>5, <2>6, <2>7, <2>8, <2>9 DEF IInv
<1>3. CASE current = ConnectionCount
  <2>1. /\ pc' = "running" /\ current' = current /\ logged' = 0 /\ retries' = RetryCount
        /\ slots' = [i \in Slots |-> IF sub[i] = "failed" THEN 0 ELSE i]
        /\ \A i \in Slots : sub[i] # "calling"
    BY <1>1, <1>3 DEF IInv, StartInv, Advance
  <2>2. TypeOK'
    BY <1>1, <2>1 DEF IInv, TypeOK, States
  <2>3. CallInv'
    BY <1>1, <2>1 DEF IInv, CallInv
  <2>4. StartInv'
    BY <1>1, <2>1 DEF IInv, StartInv
  <2>5. SlotInv'
    BY <1>1, <2>1 DEF IInv, SlotInv
  <2>6. ReplacingInv'
    BY <1>1, <2>1 DEF IInv, ReplacingInv
  <2>7. AccountInv'
    BY <1>1, <2>1 DEF IInv, AccountInv, Connected
  <2>8. OneConsumerPerSlot'
    BY <1>1, <2>1 DEF IInv, OneConsumerPerSlot, Active
  <2>9. NoLeak'
    BY <1>1, <2>1 DEF IInv, TypeOK, NoLeak, CallInv
  <2>10. CallsAnswerLosses'
    BY <1>1, <2>1 DEF IInv, CallsAnswerLosses
  <2> QED
    BY <2>2, <2>3, <2>4, <2>5, <2>6, <2>7, <2>8, <2>9, <2>10 DEF IInv
<1> QED
  BY <1>2, <1>3 DEF Advance

\* A connection that was confirmed, dropped since or not, is kept.
LEMMA AwaitSucceedsPreserves ==
    ASSUME IInv, AwaitSucceeds
    PROVE  IInv'
  BY AdvancePreserves DEF AwaitSucceeds

\* A retry awaits the failed task again; the last failure ends the loop.
LEMMA AwaitFailsPreserves ==
    ASSUME IInv, AwaitFails
    PROVE  IInv'
<1> USE ConstantsAssumption DEF Calls, Slots
<1>1. CASE GiveUp
  BY <1>1, AdvancePreserves DEF AwaitFails, GiveUp
<1>2. CASE Retry
  <2>1. /\ retries' \in 1..RetryCount /\ logged' \in Nat
        /\ UNCHANGED <<server, pc, current, calls, sub, slot, replacing, slots>>
    <3>1. /\ retries > 1 /\ retries' = retries - 1 /\ logged' \in {logged + 1, 0}
          /\ retries \in 1..RetryCount /\ logged \in Nat
      BY <1>2 DEF IInv, TypeOK, Retry
    <3>2. UNCHANGED <<server, pc, current, calls, sub, slot, replacing, slots>>
      BY <1>2 DEF AwaitFails, Retry, GiveUp
    <3> QED
      BY <3>1, <3>2
  <2>2. TypeOK'
    BY <2>1 DEF IInv, TypeOK, States
  <2>3. CallInv'
    BY <2>1 DEF IInv, CallInv
  <2>4. StartInv'
    BY <2>1 DEF IInv, StartInv
  <2>5. SlotInv'
    BY <2>1 DEF IInv, SlotInv
  <2>6. ReplacingInv'
    BY <2>1 DEF IInv, ReplacingInv
  <2>7. AccountInv'
    BY <2>1 DEF IInv, AccountInv, Connected
  <2>8. OneConsumerPerSlot'
    BY <2>1 DEF IInv, OneConsumerPerSlot, Active
  <2>9. NoLeak'
    BY <2>1 DEF IInv, NoLeak
  <2>10. CallsAnswerLosses'
    BY <2>1 DEF IInv, CallsAnswerLosses
  <2> QED
    BY <2>2, <2>3, <2>4, <2>5, <2>6, <2>7, <2>8, <2>9, <2>10 DEF IInv
<1> QED
  BY <1>1, <1>2 DEF AwaitFails

\* StopAsync closes the open connections of the array.
LEMMA StopPreserves ==
    ASSUME IInv, Stop
    PROVE  IInv'
<1> USE ConstantsAssumption DEF Calls, Slots
<1>1. TypeOK'
  BY DEF IInv, TypeOK, States, Stop
<1>2. CallInv'
  BY DEF IInv, CallInv, Stop
<1>3. StartInv'
  BY DEF IInv, StartInv, Stop
<1>4. SlotInv'
  BY DEF IInv, TypeOK, SlotInv, Stop
<1>5. ReplacingInv'
  BY DEF IInv, TypeOK, ReplacingInv, Stop
<1>6. AccountInv'
  BY DEF IInv, AccountInv, Connected, Stop
<1>7. OneConsumerPerSlot'
  BY DEF IInv, OneConsumerPerSlot, Active, Stop
<1>8. NoLeak'
  BY DEF IInv, NoLeak, Stop
<1>9. CallsAnswerLosses'
  BY DEF IInv, CallsAnswerLosses, Stop
<1> QED
  BY <1>1, <1>2, <1>3, <1>4, <1>5, <1>6, <1>7, <1>8, <1>9 DEF IInv

\* A callback that finds its connection in the array makes the only call for its
\* element.
LEMMA ReplacePreserves ==
    ASSUME IInv, NEW s \in Calls, Replace(s)
    PROVE  IInv'
<1> USE ConstantsAssumption DEF Calls, Slots
<1>1. /\ slot[s] \in Slots /\ slots[slot[s]] = s
      /\ \A i \in Slots : slots[i] = s => i = slot[s]
  <2>1. PICK i \in Slots : slots[i] = s
    BY DEF Replace, Stored
  <2>2. \A j \in Slots : slots[j] = s => j = slot[s]
    BY DEF IInv, SlotInv
  <2> QED
    BY <2>1, <2>2
<1>2. pc \in {"running", "stopped"}
  <2>1. slots[slot[s]] # 0
    BY <1>1
  <2> QED
    BY <1>1, <2>1 DEF IInv, StartInv, TypeOK
<1>3. /\ calls + 1 \in Calls /\ sub[calls + 1] = "none"
      /\ s < calls + 1 /\ ConnectionCount < calls + 1
  BY <1>2 DEF IInv, CallInv, StartInv, TypeOK, Replace
<1>4. /\ calls + 1 \notin replacing /\ s \notin replacing
      /\ \A i \in Slots : slots[i] # calls + 1
  BY <1>1, <1>3 DEF IInv, SlotInv, ReplacingInv
<1>5. TypeOK'
  BY <1>1, <1>3 DEF IInv, TypeOK, States, Replace
<1>6. CallInv'
  BY <1>1, <1>2, <1>3, <1>4 DEF IInv, TypeOK, CallInv, Replace
<1>7. StartInv'
  BY <1>1, <1>2, <1>3, <1>4 DEF IInv, StartInv, Replace
<1>8. SlotInv'
  BY <1>1, <1>2, <1>3, <1>4 DEF IInv, TypeOK, SlotInv, Replace
<1>9. ReplacingInv'
  BY <1>1, <1>2, <1>3, <1>4 DEF IInv, TypeOK, ReplacingInv, Replace
<1>10. AccountInv'
  <2>1. sub'[calls + 1] = "calling" /\ slot'[calls + 1] = slot[s]
    BY <1>3 DEF Replace, IInv, TypeOK
  <2>2. ASSUME pc = "running", NEW i \in Slots, i # slot[s]
        PROVE  \/ Connected(i)'
               \/ \E t \in Calls :
                     /\ slot'[t] = i
                     /\ \/ sub'[t] \in {"calling", "lost", "failed", "ignored"}
                        \/ t \in replacing'
    <3>1. slots'[i] = slots[i] /\ slots[i] # s
      BY <1>1, <2>2 DEF Replace, IInv, TypeOK
    <3>2. CASE Connected(i)
      <4>1. slots[i] \in Calls /\ slots[i] # calls + 1
        BY <1>4, <2>2, <3>2 DEF IInv, TypeOK, Connected
      <4>2. sub'[slots[i]] = sub[slots[i]]
        BY <3>1, <4>1 DEF Replace, IInv, TypeOK
      <4> QED
        BY <3>1, <3>2, <4>2 DEF Connected
    <3>3. CASE ~Connected(i)
      <4>1. PICK t \in Calls :
               /\ slot[t] = i
               /\ sub[t] \in {"calling", "lost", "failed", "ignored"} \/ t \in replacing
        BY <2>2, <3>3 DEF IInv, AccountInv
      <4>2. t # s /\ t # calls + 1
        BY <1>3, <1>4, <2>2, <4>1
      <4>3. slot'[t] = slot[t] /\ sub'[t] = sub[t] /\ replacing \subseteq replacing'
        BY <1>3, <4>2 DEF Replace, IInv, TypeOK
      <4> QED
        BY <4>1, <4>3
    <3> QED
      BY <3>2, <3>3
  <2> QED
    BY <1>3, <2>1, <2>2 DEF AccountInv, Replace
<1>11. OneConsumerPerSlot'
  BY <1>1, <1>2, <1>3, <1>4 DEF IInv, TypeOK, OneConsumerPerSlot, Active,
     CallInv, Replace
<1>12. NoLeak'
  BY <1>1, <1>2, <1>3, <1>4 DEF IInv, TypeOK, NoLeak, Replace
<1>13. CallsAnswerLosses'
  <2>1. /\ sub'[s] = "replaced" /\ slot'[s] = slot[s]
        /\ slot'[calls + 1] = slot[s]
    BY <1>3 DEF Replace, IInv, TypeOK
  <2>2. ASSUME NEW t \in Calls, t # calls + 1, t > ConnectionCount,
               sub'[t] # "none"
        PROVE  \E u \in Calls : u < t /\ slot'[u] = slot'[t] /\ sub'[u] = "replaced"
    BY <1>3, <2>2 DEF IInv, TypeOK, CallsAnswerLosses, CallInv, Replace
  <2> QED
    BY <1>3, <2>1, <2>2 DEF CallsAnswerLosses
<1> QED
  BY <1>5, <1>6, <1>7, <1>8, <1>9, <1>10, <1>11, <1>12, <1>13 DEF IInv

\* A callback that does not find its connection changes nothing else.
LEMMA IgnorePreserves ==
    ASSUME IInv, NEW s \in Calls, Ignore(s)
    PROVE  IInv'
<1> USE ConstantsAssumption DEF Calls, Slots
<1>1. TypeOK'
  BY DEF IInv, TypeOK, States, Ignore
<1>2. CallInv'
  BY DEF IInv, CallInv, Ignore
<1>3. StartInv'
  BY DEF IInv, StartInv, Ignore
<1>4. SlotInv'
  BY DEF IInv, SlotInv, Ignore
<1>5. ReplacingInv'
  BY DEF IInv, ReplacingInv, Ignore
<1>6. AccountInv'
  BY DEF IInv, AccountInv, Connected, Ignore
<1>7. OneConsumerPerSlot'
  BY DEF IInv, OneConsumerPerSlot, Active, Ignore
<1>8. NoLeak'
  BY DEF IInv, NoLeak, Ignore
<1>9. CallsAnswerLosses'
  BY DEF IInv, CallsAnswerLosses, Ignore
<1> QED
  BY <1>1, <1>2, <1>3, <1>4, <1>5, <1>6, <1>7, <1>8, <1>9 DEF IInv

\* A callback that has awaited its call fills the element it left default.
LEMMA StorePreserves ==
    ASSUME IInv, NEW s \in Calls, Store(s)
    PROVE  IInv'
<1> USE ConstantsAssumption DEF Calls, Slots
<1>1. /\ slot[s] \in Slots /\ slots[slot[s]] = 0
      /\ s \in Calls /\ s > ConnectionCount /\ sub[s] # "none" /\ s <= calls
      /\ pc \in {"running", "stopped"}
  <2>1. /\ s > ConnectionCount /\ sub[s] # "none" /\ slots[slot[s]] = 0
    BY DEF IInv, ReplacingInv, Store
  <2>2. s <= calls /\ slot[s] \in Slots
    BY <2>1 DEF IInv, TypeOK, CallInv
  <2> QED
    BY <2>1, <2>2 DEF IInv, TypeOK, StartInv
<1>2. TypeOK'
  BY <1>1 DEF IInv, TypeOK, States, Store
<1>3. CallInv'
  BY <1>1 DEF IInv, CallInv, Store
<1>4. StartInv'
  BY <1>1 DEF IInv, StartInv, Store
<1>5. SlotInv'
  BY <1>1 DEF IInv, TypeOK, SlotInv, CallInv, ReplacingInv, Store
<1>6. ReplacingInv'
  BY <1>1 DEF IInv, ReplacingInv, Store
<1>7. AccountInv'
  BY <1>1 DEF IInv, TypeOK, AccountInv, Connected, CallInv, SlotInv,
     ReplacingInv, Store
<1>8. OneConsumerPerSlot'
  BY <1>1 DEF IInv, OneConsumerPerSlot, Active, Store
<1>9. NoLeak'
  BY <1>1 DEF IInv, TypeOK, NoLeak, Store
<1>10. CallsAnswerLosses'
  BY <1>1 DEF IInv, CallsAnswerLosses, Store
<1> QED
  BY <1>2, <1>3, <1>4, <1>5, <1>6, <1>7, <1>8, <1>9, <1>10 DEF IInv

\* A stuttering step keeps the invariant.
LEMMA StutteringPreserves ==
    ASSUME IInv, UNCHANGED vars
    PROVE  IInv'
<1> USE DEF vars
<1>1. TypeOK'
  BY DEF IInv, TypeOK, States
<1>2. CallInv'
  BY DEF IInv, CallInv
<1>3. StartInv'
  BY DEF IInv, StartInv
<1>4. SlotInv'
  BY DEF IInv, SlotInv
<1>5. ReplacingInv'
  BY DEF IInv, ReplacingInv
<1>6. AccountInv'
  BY DEF IInv, AccountInv, Connected
<1>7. OneConsumerPerSlot'
  BY DEF IInv, OneConsumerPerSlot, Active
<1>8. NoLeak'
  BY DEF IInv, NoLeak
<1>9. CallsAnswerLosses'
  BY DEF IInv, CallsAnswerLosses
<1> QED
  BY <1>1, <1>2, <1>3, <1>4, <1>5, <1>6, <1>7, <1>8, <1>9 DEF IInv

-----------------------------------------------------------------------------
(* The invariants of the specification.                                     *)

\* The hosted service and its callbacks keep to IInv: the invariant of every
\* property below, for every order of losses, answers and callbacks.
THEOREM Invariance == Spec => []IInv
<1>1. Init => IInv
  <2> SUFFICES ASSUME Init
               PROVE  IInv
    OBVIOUS
  <2> USE ConstantsAssumption DEF Calls, Slots
  <2>1. TypeOK
    BY DEF Init, TypeOK, States
  <2>2. CallInv /\ StartInv /\ SlotInv /\ ReplacingInv /\ AccountInv
    BY DEF Init, CallInv, StartInv, SlotInv, ReplacingInv, AccountInv
  <2>3. OneConsumerPerSlot /\ NoLeak /\ CallsAnswerLosses
    BY DEF Init, OneConsumerPerSlot, NoLeak, CallsAnswerLosses, Active
  <2> QED
    BY <2>1, <2>2, <2>3 DEF IInv
<1>2. IInv /\ [Next]_vars => IInv'
  <2> SUFFICES ASSUME IInv, [Next]_vars
               PROVE  IInv'
    OBVIOUS
  <2>1. CASE Start \/ AwaitSucceeds \/ AwaitFails \/ Stop
    BY <2>1, StartPreserves, AwaitSucceedsPreserves, AwaitFailsPreserves,
       StopPreserves
  <2>2. CASE ServerDown \/ ServerUp
    BY <2>2, ServerDownPreserves, ServerUpPreserves
  <2>3. ASSUME NEW s \in Calls, Confirm(s) \/ Refuse(s) \/ Drop(s)
        PROVE  IInv'
    BY <2>3, ConfirmPreserves, RefusePreserves, DropPreserves
  <2>4. ASSUME NEW s \in Calls, Callback(s)
        PROVE  IInv'
    BY <2>4, ReplacePreserves, IgnorePreserves, StorePreserves DEF Callback
  <2>5. CASE UNCHANGED vars
    BY <2>5, StutteringPreserves
  <2> QED
    BY <2>1, <2>2, <2>3, <2>4, <2>5 DEF Next
<1> QED
  BY <1>1, <1>2, PTL DEF Spec

\* Type correctness.
THEOREM TypeCorrect == Spec => []TypeOK
<1>1. IInv => TypeOK
  BY DEF IInv
<1> QED
  BY <1>1, Invariance, PTL

\* Two connections never handle the events of one element of the array: with
\* ConnectionCount 1, handlers of a group never overlap in a process.
THEOREM OneConsumer == Spec => []OneConsumerPerSlot
<1>1. IInv => OneConsumerPerSlot
  BY DEF IInv
<1> QED
  BY <1>1, Invariance, PTL

\* No open connection is out of StopAsync's reach while the service runs.
THEOREM NothingLeaks == Spec => []NoLeak
<1>1. IInv => NoLeak
  BY DEF IInv
<1> QED
  BY <1>1, Invariance, PTL

\* A service is without a connection for good only after a call that failed or
\* a connection that was dropped before it was stored.
THEOREM LossesAreExplained == Spec => []LossExplained
<1>1. IInv => LossExplained
  BY DEF IInv, AccountInv, LossExplained
<1> QED
  BY <1>1, Invariance, PTL

\* Every call after those of StartAsync answers the loss of a connection.
THEOREM CallsAreAnswers == Spec => []CallsAnswerLosses
<1>1. IInv => CallsAnswerLosses
  BY DEF IInv
<1> QED
  BY <1>1, Invariance, PTL

-----------------------------------------------------------------------------
(* The start.                                                               *)

\* Each await of the loop leaves StartAsync less of its patience.
LEMMA AwaitsAreCounted ==
    ASSUME IInv, AwaitSucceeds \/ AwaitFails
    PROVE  pc' = "running" \/ Patience' < Patience
<1> USE ConstantsAssumption DEF Slots
<1>1. current \in 1..ConnectionCount /\ retries \in 1..RetryCount
  BY DEF IInv, TypeOK
<1>2. CASE Advance
  <2>1. CASE current < ConnectionCount
    <3> DEFINE left == ConnectionCount - (current + 1)
    <3>1. current' = current + 1 /\ retries' = RetryCount
      BY <1>2, <2>1 DEF Advance
    <3>2. left \in Nat /\ ConnectionCount - current = left + 1
      BY <1>1, <2>1
    <3>3. Patience' = left * RetryCount + RetryCount
      BY <3>1 DEF Patience
    <3>4. Patience = (left + 1) * RetryCount + retries
      BY <3>2 DEF Patience
    <3> HIDE DEF left
    <3>5. /\ (left + 1) * RetryCount = left * RetryCount + RetryCount
          /\ left * RetryCount \in Nat
      BY <3>2
    <3> QED
      BY <1>1, <3>3, <3>4, <3>5
  <2>2. CASE current = ConnectionCount
    BY <1>2, <2>2 DEF Advance
  <2> QED
    BY <1>1, <1>2, <2>1, <2>2 DEF Advance
<1>3. CASE Retry
  <2> DEFINE left == ConnectionCount - current
  <2>1. current' = current /\ retries' = retries - 1
    BY <1>3 DEF Retry
  <2>2. Patience' = left * RetryCount + retries' /\ Patience = left * RetryCount + retries
    BY <2>1 DEF Patience
  <2>3. left \in Nat
    BY <1>1
  <2> HIDE DEF left
  <2>4. left * RetryCount \in Nat
    BY <2>3
  <2> QED
    BY <1>1, <2>1, <2>2, <2>4
<1> QED
  BY <1>2, <1>3 DEF AwaitSucceeds, AwaitFails, GiveUp

\* StartAsync returns after a bounded number of awaits, whatever the server and
\* the callbacks do meanwhile.
THEOREM StartReturnsInBounds == Spec => StartIsBounded
<1>1. IInv /\ [Next]_vars =>
          [AwaitSucceeds \/ AwaitFails => pc' = "running" \/ Patience' < Patience]_vars
  BY AwaitsAreCounted
<1> QED
  BY <1>1, Invariance, PTL DEF Spec, StartIsBounded

-----------------------------------------------------------------------------
(* What the event store sees.                                               *)

\* What a call says of the consumer of element i, which is gone when none of its
\* calls is active.
LinkSays(i) ==
    /\ \A s \in Calls : slot[s] = i =>
          /\ sub[s] = "calling" => Link(i) = "connecting"
          /\ sub[s] = "open" => Link(i) = "connected"
          /\ sub[s] = "lost" => Link(i) = "broken"
    /\ (\A s \in Calls : slot[s] = i => ~Active(s)) => Link(i) = "gone"

\* An element has one active call at most, so its calls agree.
LEMMA LinkOfCall == IInv /\ pc # "new" => \A i \in Slots : LinkSays(i)
<1> SUFFICES ASSUME IInv, pc # "new", NEW i \in Slots
             PROVE  LinkSays(i)
  OBVIOUS
<1>1. \A s, t \in Calls : Active(s) /\ Active(t) /\ slot[s] = slot[t] => s = t
  BY DEF IInv, OneConsumerPerSlot
<1> QED
  BY <1>1 DEF LinkSays, Link, Has, Active

\* The same of the next state.
LEMMA LinkOfCallNext == (IInv /\ pc # "new" => \A i \in Slots : LinkSays(i))'
BY LinkOfCall, PTL

\* The active calls decide.
LEMMA LinkFrame ==
    ASSUME NEW i \in Slots, pc # "new", pc' # "new",
           \A s \in Calls : \A state \in {"calling", "open", "lost"} :
               slot'[s] = i /\ sub'[s] = state <=> slot[s] = i /\ sub[s] = state
    PROVE  Link(i)' = Link(i)
BY DEF Link, Has

\* Whoever has made a call has started.
LEMMA CallHasSlot ==
    ASSUME IInv, NEW s \in Calls, sub[s] # "none"
    PROVE  slot[s] \in Slots /\ pc # "new" /\ s <= calls
BY ConstantsAssumption DEF IInv, TypeOK, CallInv, StartInv, Calls

\* A step of one call is a step of its element's consumer.
LEMMA CallTurns ==
    ASSUME IInv, NEW s \in Calls, pc' = pc, slot' = slot,
           NEW state \in States, sub' = [sub EXCEPT ![s] = state],
           sub[s] # "none", NEW to, Link(slot[s])' = to
    PROVE  Consumers!Turn(slot[s], Link(slot[s]), to)
<1>1. slot[s] \in Slots /\ pc # "new"
  BY CallHasSlot
<1>2. ASSUME NEW i \in Slots, i # slot[s]
      PROVE  Link(i)' = Link(i)
  BY <1>1, <1>2, LinkFrame
<1> QED
  BY <1>1, <1>2 DEF Consumers!Turn

\* Before the start, and when no call changes, no consumer does.
LEMMA LinksUntouched ==
    ASSUME UNCHANGED <<sub, slot>>, pc' = pc \/ (pc # "new" /\ pc' # "new")
    PROVE  UNCHANGED [i \in Slots |-> Link(i)]
BY DEF Link, Has

\* Each step is one of ConnectionSlots, or none of the event store's business.
LEMMA SlotStep ==
    ASSUME IInv, IInv', [Next]_vars
    PROVE  [Consumers!Next]_([i \in Slots |-> Link(i)])
<1> USE ConstantsAssumption
<1> DEFINE link == [i \in Slots |-> Link(i)]
<1>1. pc' # "new" => \A i \in Slots : LinkSays(i)'
  BY LinkOfCallNext
<1>2. pc # "new" => \A i \in Slots : LinkSays(i)
  BY LinkOfCall
<1>3. ASSUME NEW s \in Calls, sub[s] # "none", NEW state \in States,
             pc' = pc, slot' = slot, sub' = [sub EXCEPT ![s] = state]
      PROVE  /\ slot[s] \in Slots /\ pc # "new" /\ slot'[s] = slot[s]
             /\ sub'[s] = state
             /\ \A t \in Calls : t # s => sub'[t] = sub[t]
  BY <1>3, CallHasSlot DEF IInv, TypeOK
<1>4. CASE Start
  <2>1. \A i \in Slots : Link(i) = "none"
    BY <1>4 DEF Start, Link
  <2>2. ASSUME NEW i \in Slots
        PROVE  Link(i)' = "connecting"
    <3>1. i \in Calls /\ slot'[i] = i /\ sub'[i] = "calling" /\ pc' # "new"
      BY <1>4 DEF Start, Calls, Slots
    <3> QED
      BY <1>1, <3>1 DEF LinkSays
  <2> QED
    BY <2>1, <2>2 DEF Consumers!Next, Consumers!Start
<1>5. CASE AwaitSucceeds \/ AwaitFails
  <2>1. UNCHANGED <<sub, slot>> /\ pc # "new" /\ pc' # "new"
    BY <1>5 DEF AwaitSucceeds, AwaitFails, Retry, GiveUp, Advance
  <2> QED
    BY <2>1, LinksUntouched
<1>6. ASSUME NEW s \in Calls, Confirm(s)
      PROVE  Consumers!Connect(slot[s]) /\ slot[s] \in Slots
  <2>1. /\ sub[s] = "calling" /\ sub' = [sub EXCEPT ![s] = "open"]
        /\ slot' = slot /\ pc' = pc /\ "open" \in States /\ sub[s] # "none"
    BY <1>6 DEF Confirm, States
  <2>2. /\ slot[s] \in Slots /\ pc # "new" /\ slot'[s] = slot[s] /\ sub'[s] = "open"
    BY <1>3, <2>1
  <2>3. Link(slot[s]) = "connecting" /\ Link(slot[s])' = "connected"
    BY <1>1, <1>2, <2>1, <2>2 DEF LinkSays
  <2> QED
    BY <2>1, <2>2, <2>3, CallTurns DEF Consumers!Connect
<1>7. ASSUME NEW s \in Calls, NEW state \in {"failed", "ignored"},
             Active(s), slot' = slot, pc' = pc, sub' = [sub EXCEPT ![s] = state]
      PROVE  Link(slot[s])' = "gone"
  <2>1. sub[s] # "none" /\ state \in States
    BY <1>7 DEF Active, States
  <2>2. /\ slot[s] \in Slots /\ pc # "new" /\ slot'[s] = slot[s] /\ sub'[s] = state
        /\ \A t \in Calls : t # s => sub'[t] = sub[t]
    BY <1>3, <1>7, <2>1
  <2>3. \A t \in Calls : slot'[t] = slot[s] => ~Active(t)'
    BY <1>7, <2>2 DEF Active, IInv, OneConsumerPerSlot
  <2> QED
    BY <1>1, <1>7, <2>2, <2>3 DEF LinkSays
<1>8. ASSUME NEW s \in Calls, Refuse(s)
      PROVE  Consumers!Refuse(slot[s]) /\ slot[s] \in Slots
  <2>1. /\ sub[s] = "calling" /\ sub' = [sub EXCEPT ![s] = "failed"]
        /\ slot' = slot /\ pc' = pc /\ "failed" \in States /\ sub[s] # "none"
    BY <1>8 DEF Refuse, States
  <2>2. slot[s] \in Slots /\ Link(slot[s]) = "connecting" /\ Link(slot[s])' = "gone"
    BY <1>2, <1>3, <1>7, <2>1 DEF LinkSays, Active
  <2> QED
    BY <2>1, <2>2, CallTurns DEF Consumers!Refuse
<1>9. ASSUME NEW s \in Calls, Ignore(s)
      PROVE  Consumers!Forget(slot[s]) /\ slot[s] \in Slots
  <2>1. /\ sub[s] = "lost" /\ sub' = [sub EXCEPT ![s] = "ignored"]
        /\ slot' = slot /\ pc' = pc /\ "ignored" \in States /\ sub[s] # "none"
    BY <1>9 DEF Ignore, States
  <2>2. slot[s] \in Slots /\ Link(slot[s]) = "broken" /\ Link(slot[s])' = "gone"
    BY <1>2, <1>3, <1>7, <2>1 DEF LinkSays, Active
  <2> QED
    BY <2>1, <2>2, CallTurns DEF Consumers!Forget
<1>10. ASSUME NEW s \in Calls, Drop(s)
       PROVE  Consumers!Break({slot[s]}) /\ {slot[s]} \in SUBSET Slots
  <2>1. /\ sub[s] = "open" /\ sub' = [sub EXCEPT ![s] = "lost"]
        /\ slot' = slot /\ pc' = pc /\ "lost" \in States /\ sub[s] # "none"
    BY <1>10 DEF Drop, States
  <2>2. /\ slot[s] \in Slots /\ slot'[s] = slot[s] /\ sub'[s] = "lost" /\ pc # "new"
        /\ Link(slot[s]) = "connected" /\ Link(slot[s])' = "broken"
    BY <1>1, <1>2, <1>3, <2>1 DEF LinkSays
  <2>3. Consumers!Turn(slot[s], "connected", "broken")
    BY <2>1, <2>2, CallTurns
  <2> QED
    BY <2>2, <2>3 DEF Consumers!Turn, Consumers!Break
<1>11. ASSUME NEW s \in Calls, Replace(s)
       PROVE  Consumers!Replace(slot[s]) /\ slot[s] \in Slots
  <2>1. /\ sub[s] = "lost" /\ calls < MaxCalls /\ pc' = pc
        /\ sub' = [sub EXCEPT ![s] = "replaced", ![calls + 1] = "calling"]
        /\ slot' = [slot EXCEPT ![calls + 1] = slot[s]]
    BY <1>11 DEF Replace
  <2>2. slot[s] \in Slots /\ pc # "new" /\ s <= calls
    BY <2>1, CallHasSlot
  <2>3. calls + 1 \in Calls /\ sub[calls + 1] = "none" /\ s # calls + 1
    BY <2>1, <2>2 DEF IInv, TypeOK, CallInv, Calls
  <2>4. /\ sub'[calls + 1] = "calling" /\ slot'[calls + 1] = slot[s]
        /\ \A t \in Calls : t # s /\ t # calls + 1 =>
               sub'[t] = sub[t] /\ slot'[t] = slot[t]
        /\ slot'[s] = slot[s]
    BY <2>1, <2>3 DEF IInv, TypeOK
  <2>5. Link(slot[s]) = "broken" /\ Link(slot[s])' = "connecting"
    BY <1>1, <1>2, <2>1, <2>2, <2>3, <2>4 DEF LinkSays
  <2>6. ASSUME NEW i \in Slots, i # slot[s]
        PROVE  Link(i)' = Link(i)
    BY <2>1, <2>2, <2>3, <2>4, <2>6, LinkFrame
  <2> QED
    BY <2>2, <2>4, <2>5, <2>6 DEF Consumers!Replace, Consumers!Turn
<1>12. ASSUME NEW S \in SUBSET Slots, pc # "new", pc' # "new", slot' = slot,
              NEW state \in {"lost", "closed"},
              \A s \in Calls : sub'[s] = IF sub[s] = "open" /\ slot[s] \in S
                                         THEN state ELSE sub[s],
              \A i \in S : Has(i, "open")
       PROVE  /\ \A i \in S : Link(i) = "connected"
              /\ \A i \in S : Link(i)' = IF state = "lost" THEN "broken" ELSE "gone"
              /\ \A i \in Slots \ S : Link(i)' = Link(i)
  <2>1. ASSUME NEW i \in S
        PROVE  /\ Link(i) = "connected"
               /\ Link(i)' = IF state = "lost" THEN "broken" ELSE "gone"
    <3>1. PICK s \in Calls : slot[s] = i /\ sub[s] = "open"
      BY <1>12 DEF Has
    <3>2. sub'[s] = state /\ slot'[s] = i
      BY <1>12, <3>1
    <3>3. \A t \in Calls : slot[t] = i /\ t # s => ~Active(t) /\ sub'[t] = sub[t]
      BY <1>12, <3>1 DEF Active, IInv, OneConsumerPerSlot
    <3>4. Link(i) = "connected" /\ (state = "lost" => Link(i)' = "broken")
      BY <1>1, <1>2, <1>12, <3>1, <3>2 DEF LinkSays
    <3>5. state = "closed" => \A t \in Calls : slot'[t] = i => ~Active(t)'
      BY <1>12, <3>2, <3>3 DEF Active
    <3> QED
      BY <1>1, <1>12, <3>4, <3>5 DEF LinkSays
  <2>2. ASSUME NEW i \in Slots \ S
        PROVE  Link(i)' = Link(i)
    BY <1>12, <2>2, LinkFrame
  <2> QED
    BY <2>1, <2>2
<1>13. CASE ServerDown
  <2> DEFINE S == {i \in Slots : Has(i, "open")}
  <2>1. /\ slot' = slot /\ pc' = pc
        /\ \A s \in Calls : sub'[s] = IF sub[s] = "open" THEN "lost" ELSE sub[s]
    BY <1>13 DEF ServerDown
  <2>2. CASE pc = "new"
    BY <2>1, <2>2 DEF Link
  <2>3. CASE pc # "new"
    <3>1. \A s \in Calls : sub[s] = "open" => slot[s] \in S
      BY CallHasSlot DEF Has
    <3>2. S \in SUBSET Slots /\ \A i \in S : Has(i, "open")
      OBVIOUS
    <3> HIDE DEF S
    <3>3. /\ \A i \in S : Link(i) = "connected"
          /\ \A i \in S : Link(i)' = "broken"
          /\ \A i \in Slots \ S : Link(i)' = Link(i)
      BY <1>12, <2>1, <2>3, <3>1, <3>2
    <3>4. Consumers!Break(S)
      BY <3>2, <3>3 DEF Consumers!Break
    <3> QED
      BY <3>2, <3>4 DEF Consumers!Next
  <2> QED
    BY <2>2, <2>3
<1>14. CASE Stop
  <2> DEFINE S == {i \in Slots : slots[i] # 0 /\ sub[slots[i]] = "open"}
  <2>1. /\ slot' = slot /\ pc = "running" /\ pc' = "stopped"
        /\ \A s \in Calls : sub'[s] = IF sub[s] = "open" /\ slots[slot[s]] = s
                                      THEN "closed" ELSE sub[s]
    BY <1>14 DEF Stop
  <2>2. \A i \in S : slots[i] \in Calls /\ slot[slots[i]] = i
    BY DEF IInv, TypeOK, SlotInv, Calls
  <2>3. \A s \in Calls : sub[s] = "open" => (slots[slot[s]] = s <=> slot[s] \in S)
    <3>1. ASSUME NEW s \in Calls, sub[s] = "open"
          PROVE  slots[slot[s]] = s <=> slot[s] \in S
      <4>1. slot[s] \in Slots /\ s # 0
        BY <3>1, CallHasSlot DEF Calls
      <4>2. ASSUME slot[s] \in S
            PROVE  slots[slot[s]] = s
        BY <2>2, <3>1, <4>2 DEF IInv, OneConsumerPerSlot, Active
      <4> QED
        BY <3>1, <4>1, <4>2
    <3> QED
      BY <3>1
  <2>4. S \in SUBSET Slots /\ \A i \in S : Has(i, "open")
    BY <2>2 DEF Has
  <2> HIDE DEF S
  <2>5. /\ \A i \in S : Link(i) = "connected"
        /\ \A i \in S : Link(i)' = "gone"
        /\ \A i \in Slots \ S : Link(i)' = Link(i)
    BY <1>12, <2>1, <2>3, <2>4
  <2>6. Consumers!Close(S)
    BY <2>4, <2>5 DEF Consumers!Close
  <2> QED
    BY <2>4, <2>6 DEF Consumers!Next
<1>15. CASE ServerUp \/ (\E s \in Calls : Store(s)) \/ UNCHANGED vars
  BY <1>15, LinksUntouched DEF ServerUp, Store, vars
<1> QED
  BY <1>4, <1>5, <1>6, <1>8, <1>9, <1>10, <1>11, <1>13, <1>14, <1>15
  DEF Next, Callback, Consumers!Next

\* The event store sees what ConnectionSlots says, however the start, losses,
\* callbacks and the stop overlap.
THEOREM ConsumersComeAndGo == Spec => ImplementsConnectionSlots
<1>1. Init => Consumers!Init
  BY DEF Init, Link, Consumers!Init
<1>2. IInv /\ IInv' /\ [Next]_vars => [Consumers!Next]_([i \in Slots |-> Link(i)])
  BY SlotStep
<1> QED
  BY <1>1, <1>2, Invariance, PTL DEF Spec, ImplementsConnectionSlots, Consumers!Spec
=============================================================================
