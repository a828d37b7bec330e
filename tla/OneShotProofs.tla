--------------------------- MODULE OneShotProofs ---------------------------
(***************************************************************************)
(* Ownership in one_shot, for any number of objects and targets: nothing   *)
(* dangles, every target has one owner, and none is called twice.          *)
(*                                                                         *)
(* None of these is inductive alone.  That nothing dangles needs that the  *)
(* cell deleted had one owner; that a target is not called twice needs     *)
(* that one that was called is in no object or closure any more; and that  *)
(* a fresh cell disturbs nobody needs that nothing refers to it.  IInv is  *)
(* all of these together.                                                  *)
(*                                                                         *)
(* That nothing leaks needs that captured continuations form chains with   *)
(* an end: Chained ranks every closure below what it captures, which holds *)
(* because a closure captures a target that was there before it.           *)
(***************************************************************************)
EXTENDS OneShot, SequenceTheorems, FiniteSetTheorems, WellFoundedInduction, TLAPS

IInv ==
  /\ TypeOK
  /\ NoDangling
  /\ SingleOwner
  /\ Owned
  /\ CalledAtMostOnce
  /\ CalledIsGone
  /\ UnbornIsFresh

-----------------------------------------------------------------------------
(***************************************************************************)
(* What the steps do to the stack of activations: afterwards the targets   *)
(* on it are those before, and one more, or the same, or the top one less. *)
(***************************************************************************)

OneMore(t) ==
  /\ stack' \in Seq(Frame)
  /\ \A u \in Target : OnStack(u)' <=> OnStack(u) \/ u = t
  /\ StackDistinct /\ ~OnStack(t) => StackDistinct'

AsBefore ==
  /\ stack' \in Seq(Frame)
  /\ \A u \in Target : OnStack(u)' <=> OnStack(u)
  /\ StackDistinct => StackDistinct'

LEMMA PushTarget ==
  ASSUME stack \in Seq(Frame), NEW t \in Target,
         stack' = Append(stack, Invoking(t)) \/ stack' = Append(stack, Deleting(t))
  PROVE  OneMore(t)
<1> DEFINE n == Len(stack)
<1>1. /\ stack' \in Seq(Frame)
      /\ DOMAIN stack = 1 .. n /\ n \in Nat
      /\ DOMAIN stack' = 1 .. n + 1
      /\ \A i \in 1 .. n : stack'[i].target = stack[i].target
      /\ stack'[n + 1].target = t
  <2> USE DEF Invoking, Deleting, Frame
  <2>1. CASE stack' = Append(stack, Invoking(t))
    BY <2>1
  <2>2. CASE stack' = Append(stack, Deleting(t))
    BY <2>2
  <2>3. QED
    BY <2>1, <2>2
<1> HIDE DEF n
<1>2. \A u \in Target : OnStack(u)' <=> OnStack(u) \/ u = t
  BY <1>1 DEF OnStack
<1>3. StackDistinct /\ ~OnStack(t) => StackDistinct'
  BY <1>1 DEF OnStack, StackDistinct
<1>4. QED
  BY <1>1, <1>2, <1>3 DEF OneMore

LEMMA PushDelete ==
  ASSUME stack \in Seq(Frame), NEW t \in Target \cup {Null},
         stack' = WithDelete(t)
  PROVE  IF t = Null THEN AsBefore ELSE OneMore(t)
<1>1. CASE t = Null
  BY <1>1 DEF WithDelete, AsBefore, OnStack, StackDistinct
<1>2. CASE t # Null
  BY <1>2, PushTarget DEF WithDelete
<1>3. QED
  BY <1>1, <1>2

LEMMA TopTarget ==
  ASSUME stack \in Seq(Frame), stack # <<>>
  PROVE  /\ Top.target \in Target
         /\ OnStack(Top.target)
<1>1. Len(stack) \in DOMAIN stack /\ Top \in Frame
  BY DEF Top
<1>2. QED
  BY <1>1 DEF Top, Frame, OnStack

LEMMA TurnToDelete ==
  ASSUME stack \in Seq(Frame), stack # <<>>,
         stack' = [stack EXCEPT ![Len(stack)] = Deleting(Top.target)]
  PROVE  AsBefore
<1>1. Len(stack) \in DOMAIN stack /\ Top \in Frame
  BY DEF Top
<1>2. /\ stack' \in Seq(Frame)
      /\ DOMAIN stack' = DOMAIN stack
      /\ \A i \in DOMAIN stack : stack'[i].target = stack[i].target
  BY <1>1 DEF Deleting, Frame, Top
<1>3. QED
  BY <1>2 DEF AsBefore, OnStack, StackDistinct

LEMMA PopTarget ==
  ASSUME stack \in Seq(Frame), stack # <<>>, stack' = Popped, StackDistinct
  PROVE  /\ stack' \in Seq(Frame)
         /\ \A u \in Target : OnStack(u)' <=> OnStack(u) /\ u # Top.target
         /\ StackDistinct'
<1> DEFINE n == Len(stack)
<1>1. /\ stack' \in Seq(Frame)
      /\ n \in Nat \ {0}
      /\ DOMAIN stack = 1 .. n
      /\ DOMAIN stack' = 1 .. n - 1
      /\ \A i \in 1 .. n - 1 : stack'[i] = stack[i]
      /\ Top = stack[n]
  BY DEF Popped, Top
<1> HIDE DEF n
<1>2. \A u \in Target : OnStack(u)' <=> OnStack(u) /\ u # Top.target
  BY <1>1 DEF OnStack, StackDistinct
<1>3. StackDistinct'
  BY <1>1 DEF StackDistinct
<1>4. QED
  BY <1>1, <1>2, <1>3

-----------------------------------------------------------------------------
LEMMA InitInvariant == Init => IInv
<1> SUFFICES ASSUME Init PROVE IInv
  OBVIOUS
<1> USE OneShotAssumption DEF Init, Holds
<1>1. stack \in Seq(Frame) /\ \A t \in Target : ~OnStack(t)
  BY DEF OnStack
<1>2. unwinding \in BOOLEAN
  OBVIOUS
<1>3. TypeOK
  BY <1>1, <1>2 DEF TypeOK
<1>4. NoDangling /\ SingleOwner
  BY <1>1 DEF NoDangling, SingleOwner, StackDistinct
<1>5. Owned /\ CalledAtMostOnce /\ CalledIsGone /\ UnbornIsFresh
  BY DEF Owned, CalledAtMostOnce, CalledIsGone, UnbornIsFresh
<1>6. QED
  BY <1>3, <1>4, <1>5 DEF IInv

(* The target of an object passes to a new activation. *)
LEMMA CallInvariant ==
  ASSUME IInv, NEW s \in Slot, Call(s)
  PROVE  IInv'
<1> USE OneShotAssumption DEF IInv, Call, Holds
<1>1. slot[s] \in Target /\ OneMore(slot[s])
  BY PushTarget DEF TypeOK
<1>2. calls[slot[s]] = 0
  BY <1>1 DEF TypeOK, CalledIsGone
<1>3. TypeOK'
  BY <1>1 DEF TypeOK, OneMore
<1>4. NoDangling'
  BY <1>1 DEF TypeOK, NoDangling, OneMore
<1>5. SingleOwner'
  BY <1>1 DEF TypeOK, SingleOwner, OneMore
<1>6. Owned'
  BY <1>1 DEF TypeOK, Owned, OneMore
<1>7. CalledAtMostOnce'
  BY <1>1, <1>2 DEF TypeOK, CalledAtMostOnce
<1>8. CalledIsGone'
  BY <1>1 DEF TypeOK, CalledIsGone, SingleOwner
<1>9. UnbornIsFresh'
  BY <1>1 DEF TypeOK, UnbornIsFresh, NoDangling
<1>10. QED
  BY <1>3, <1>4, <1>5, <1>6, <1>7, <1>8, <1>9

(* An empty object. *)
LEMMA DefaultConstructInvariant ==
  ASSUME IInv, NEW s \in Slot, DefaultConstruct(s)
  PROVE  IInv'
<1> USE OneShotAssumption DEF IInv, DefaultConstruct, Holds, Exists
<1>1. TypeOK'
  BY DEF TypeOK, OnStack, StackDistinct
<1>2. NoDangling'
  BY DEF TypeOK, NoDangling, OnStack, StackDistinct
<1>3. SingleOwner'
  BY DEF TypeOK, SingleOwner, OnStack, StackDistinct
<1>4. Owned'
  BY DEF TypeOK, Owned, OnStack, StackDistinct
<1>5. CalledAtMostOnce'
  BY DEF TypeOK, CalledAtMostOnce
<1>6. CalledIsGone'
  BY DEF TypeOK, CalledIsGone
<1>7. UnbornIsFresh'
  BY DEF TypeOK, UnbornIsFresh
<1>8. QED
  BY <1>1, <1>2, <1>3, <1>4, <1>5, <1>6, <1>7

(* A fresh cell, to which nothing referred. *)
LEMMA ConstructInvariant ==
  ASSUME IInv, NEW s \in Slot, NEW t \in Target, Construct(s, t)
  PROVE  IInv'
<1> USE OneShotAssumption DEF IInv, Construct, Holds, Exists
<1>1. TypeOK'
  BY DEF TypeOK, OnStack, StackDistinct
<1>2. NoDangling'
  BY DEF TypeOK, NoDangling, OnStack, StackDistinct
<1>3. SingleOwner'
  BY DEF TypeOK, SingleOwner, NoDangling, OnStack, StackDistinct
<1>4. Owned'
  <2>1. /\ slot[s] = Absent /\ slot'[s] = t
        /\ \A o \in Slot \ {s} : slot'[o] = slot[o]
        /\ \A u \in Target \ {t} : heap'[u] = heap[u]
    BY DEF TypeOK
  <2>2. captured' = captured /\ \A u \in Target : OnStack(u)' <=> OnStack(u)
    BY DEF OnStack
  <2>3. SUFFICES ASSUME NEW u \in Target, u # t, heap[u] = "live"
                 PROVE  \/ \E o \in Slot : slot'[o] = u
                        \/ \E v \in Target : captured'[v] = u
                        \/ OnStack(u)'
    BY <2>1 DEF Owned
  <2>4. CASE \E o \in Slot : slot[o] = u
    BY <2>1, <2>4
  <2>5. CASE \E v \in Target : captured[v] = u
    BY <2>2, <2>5
  <2>6. CASE OnStack(u)
    BY <2>2, <2>6
  <2>7. QED
    BY <2>3, <2>4, <2>5, <2>6 DEF Owned
<1>5. CalledAtMostOnce'
  BY DEF TypeOK, CalledAtMostOnce
<1>6. CalledIsGone'
  BY DEF TypeOK, CalledIsGone, UnbornIsFresh
<1>7. UnbornIsFresh'
  BY DEF TypeOK, UnbornIsFresh
<1>8. QED
  BY <1>1, <1>2, <1>3, <1>4, <1>5, <1>6, <1>7

(* A fresh cell that takes over what an object owned. *)
LEMMA ConstructCapturingInvariant ==
  ASSUME IInv, NEW s \in Slot, NEW k \in Slot, NEW t \in Target, ConstructCapturing(s, t, k)
  PROVE  IInv'
<1> USE OneShotAssumption DEF IInv, Holds, Exists
<1> DEFINE x == slot[k]
<1>1. /\ s # k /\ slot[s] = Absent
      /\ x \in Target \cup {Null}
      /\ slot' = [slot EXCEPT ![s] = t, ![k] = Null]
      /\ captured' = [captured EXCEPT ![t] = x]
      /\ heap' = [heap EXCEPT ![t] = "live"]
      /\ UNCHANGED <<stack, unwinding, calls>>
  BY DEF TypeOK, ConstructCapturing
<1>2. /\ \A o \in Slot : slot[o] # t
      /\ \A u \in Target : captured[u] # t
      /\ ~OnStack(t)
      /\ captured[t] = Null /\ calls[t] = 0
  BY DEF ConstructCapturing, NoDangling, UnbornIsFresh
<1>3. \A u \in Target : OnStack(u)' <=> OnStack(u)
  BY <1>1 DEF OnStack
<1>4. StackDistinct' <=> StackDistinct
  BY <1>1 DEF StackDistinct
<1>5. TypeOK'
  BY <1>1 DEF TypeOK
<1>6. NoDangling'
  BY <1>1, <1>2, <1>3 DEF TypeOK, NoDangling
<1>7. SingleOwner'
  <2>1. /\ \A p \in Slot : slot'[p] \in Target => p = s \/ (p # k /\ slot'[p] = slot[p])
        /\ slot'[s] = t
        /\ \A u \in Target : captured'[u] = IF u = t THEN x ELSE captured[u]
    BY <1>1 DEF TypeOK
  <2>2. \A p, q \in Slot : slot'[p] \in Target /\ slot'[p] = slot'[q] => p = q
    BY <1>2, <2>1 DEF SingleOwner
  <2>3. \A u, v \in Target : captured'[u] # Null /\ captured'[u] = captured'[v] => u = v
    BY <1>1, <2>1 DEF TypeOK, SingleOwner
  <2>4. \A p \in Slot, u \in Target : slot'[p] \in Target => slot'[p] # captured'[u]
    BY <1>1, <1>2, <2>1 DEF TypeOK, SingleOwner
  <2>5. \A p \in Slot : slot'[p] \in Target => ~OnStack(slot[p])'
    BY <1>2, <1>3, <2>1 DEF SingleOwner
  <2>6. \A u \in Target : captured'[u] # Null => ~OnStack(captured[u])'
    BY <1>1, <1>3, <2>1 DEF TypeOK, SingleOwner
  <2>7. QED
    BY <1>4, <2>2, <2>3, <2>4, <2>5, <2>6 DEF SingleOwner
<1>8. Owned'
  <2> SUFFICES ASSUME NEW u \in Target, heap'[u] = "live"
               PROVE  \/ \E o \in Slot : slot'[o] = u
                      \/ \E v \in Target : captured'[v] = u
                      \/ OnStack(u)'
    BY DEF Owned
  <2>1. CASE u = t
    BY <1>1, <2>1 DEF TypeOK
  <2>2. CASE u = x
    BY <1>1, <2>2 DEF TypeOK
  <2>3. CASE u # t /\ u # x
    <3>1. heap[u] = "live"
      BY <1>1, <2>3 DEF TypeOK
    <3>2. CASE \E o \in Slot : slot[o] = u
      BY <1>1, <1>2, <2>3, <3>2 DEF TypeOK
    <3>3. CASE \E v \in Target : captured[v] = u
      BY <1>1, <1>2, <2>3, <3>3 DEF TypeOK
    <3>4. QED
      BY <1>3, <3>1, <3>2, <3>3 DEF Owned
  <2>4. QED
    BY <2>1, <2>2, <2>3
<1>9. CalledAtMostOnce'
  BY <1>1 DEF CalledAtMostOnce
<1>10. CalledIsGone'
  BY <1>1, <1>2 DEF TypeOK, CalledIsGone
<1>11. UnbornIsFresh'
  BY <1>1 DEF TypeOK, UnbornIsFresh
<1>12. QED
  BY <1>5, <1>6, <1>7, <1>8, <1>9, <1>10, <1>11

(* Ownership passes from one object to another. *)
LEMMA MoveConstructInvariant ==
  ASSUME IInv, NEW s \in Slot, NEW o \in Slot, MoveConstruct(s, o)
  PROVE  IInv'
<1> USE OneShotAssumption DEF IInv, MoveConstruct, Holds, Exists
<1>1. TypeOK'
  BY DEF TypeOK, OnStack, StackDistinct
<1>2. NoDangling'
  BY DEF TypeOK, NoDangling, OnStack, StackDistinct
<1>3. SingleOwner'
  <2>1. /\ \A p \in Slot : slot'[p] \in Target =>
              /\ p = s => slot'[p] = slot[o]
              /\ p # s => p # o /\ slot'[p] = slot[p]
        /\ UNCHANGED <<captured, stack>> /\ s # o
    BY DEF TypeOK
  <2> HIDE DEF MoveConstruct
  <2>2. \A p, q \in Slot : slot'[p] \in Target /\ slot'[p] = slot'[q] => p = q
    BY <2>1 DEF SingleOwner
  <2>3. \A p \in Slot, t \in Target : slot'[p] \in Target => slot'[p] # captured'[t]
    BY <2>1 DEF SingleOwner
  <2>4. \A p \in Slot : slot'[p] \in Target => ~OnStack(slot[p])'
    BY <2>1 DEF SingleOwner, OnStack
  <2>5. \A t \in Target : captured'[t] # Null => ~OnStack(captured[t])'
    BY <2>1 DEF SingleOwner, OnStack
  <2>6. QED
    BY <2>1, <2>2, <2>3, <2>4, <2>5 DEF SingleOwner, StackDistinct
<1>4. Owned'
  <2>1. /\ \A p \in Slot : p # o /\ p # s => slot'[p] = slot[p]
        /\ slot'[s] = slot[o] /\ slot[s] = Absent
        /\ UNCHANGED <<captured, heap, stack>>
    BY DEF TypeOK
  <2> HIDE DEF MoveConstruct
  <2>2. ASSUME NEW t \in Target, NEW p \in Slot, slot[p] = t
        PROVE  \E q \in Slot : slot'[q] = t
    BY <2>1, <2>2
  <2>3. QED
    BY <2>1, <2>2 DEF Owned, OnStack
<1>5. CalledAtMostOnce'
  BY DEF TypeOK, CalledAtMostOnce
<1>6. CalledIsGone'
  BY DEF TypeOK, CalledIsGone
<1>7. UnbornIsFresh'
  BY DEF TypeOK, UnbornIsFresh
<1>8. QED
  BY <1>1, <1>2, <1>3, <1>4, <1>5, <1>6, <1>7

(* What the closure captured is to be deleted. *)
LEMMA ConstructFailsInvariant ==
  ASSUME IInv, NEW s \in Slot, NEW k \in Slot, ConstructFails(s, k)
  PROVE  IInv'
<1> USE OneShotAssumption DEF IInv, ConstructFails, Holds, Exists
<1>1. slot[k] \in Target \cup {Null} /\ IF slot[k] = Null THEN AsBefore ELSE OneMore(slot[k])
  BY PushDelete DEF TypeOK
<1>2. TypeOK'
  BY <1>1 DEF TypeOK, AsBefore, OneMore
<1>3. NoDangling'
  BY <1>1 DEF TypeOK, NoDangling, AsBefore, OneMore
<1>4. SingleOwner'
  BY <1>1 DEF TypeOK, SingleOwner, AsBefore, OneMore
<1>5. Owned'
  BY <1>1 DEF TypeOK, Owned, AsBefore, OneMore
<1>6. CalledAtMostOnce'
  BY <1>1 DEF TypeOK, CalledAtMostOnce
<1>7. CalledIsGone'
  BY <1>1 DEF TypeOK, CalledIsGone
<1>8. UnbornIsFresh'
  BY <1>1 DEF TypeOK, UnbornIsFresh
<1>9. QED
  BY <1>2, <1>3, <1>4, <1>5, <1>6, <1>7, <1>8

(* The target owned before is to be deleted, the other one passes over. *)
LEMMA MoveAssignInvariant ==
  ASSUME IInv, NEW s \in Slot, NEW o \in Slot, MoveAssign(s, o)
  PROVE  IInv'
<1> USE OneShotAssumption DEF IInv, MoveAssign, Holds, Exists
<1>1. slot[s] \in Target \cup {Null} /\ IF slot[s] = Null THEN AsBefore ELSE OneMore(slot[s])
  BY PushDelete DEF TypeOK
<1>2. TypeOK'
  BY <1>1 DEF TypeOK, AsBefore, OneMore
<1>3. NoDangling'
  BY <1>1 DEF TypeOK, NoDangling, AsBefore, OneMore
<1>4. SingleOwner'
  <2>1. /\ \A p \in Slot : slot'[p] \in Target =>
              /\ p = s => slot'[p] = slot[o]
              /\ p # s => p # o /\ slot'[p] = slot[p]
        /\ captured' = captured /\ s # o
    BY DEF TypeOK
  <2> HIDE DEF MoveAssign
  <2>2. \A p, q \in Slot : slot'[p] \in Target /\ slot'[p] = slot'[q] => p = q
    BY <2>1 DEF SingleOwner
  <2>3. \A p \in Slot, t \in Target : slot'[p] \in Target => slot'[p] # captured'[t]
    BY <2>1 DEF SingleOwner
  <2>4. \A p \in Slot : slot'[p] \in Target => ~OnStack(slot[p])'
    BY <1>1, <2>1 DEF SingleOwner, AsBefore, OneMore
  <2>5. \A t \in Target : captured'[t] # Null => ~OnStack(captured[t])'
    BY <1>1, <2>1 DEF TypeOK, SingleOwner, AsBefore, OneMore
  <2>6. StackDistinct'
    BY <1>1 DEF SingleOwner, AsBefore, OneMore
  <2>7. QED
    BY <2>1, <2>2, <2>3, <2>4, <2>5, <2>6 DEF SingleOwner
<1>5. Owned'
  BY <1>1 DEF TypeOK, Owned, AsBefore, OneMore
<1>6. CalledAtMostOnce'
  BY <1>1 DEF TypeOK, CalledAtMostOnce
<1>7. CalledIsGone'
  BY <1>1 DEF TypeOK, CalledIsGone
<1>8. UnbornIsFresh'
  BY <1>1 DEF TypeOK, UnbornIsFresh
<1>9. QED
  BY <1>2, <1>3, <1>4, <1>5, <1>6, <1>7, <1>8

(* What the object owned is to be deleted. *)
LEMMA DestroyInvariant ==
  ASSUME IInv, NEW s \in Slot, Destroy(s)
  PROVE  IInv'
<1> USE OneShotAssumption DEF IInv, Destroy, Holds, Exists
<1>1. slot[s] \in Target \cup {Null} /\ IF slot[s] = Null THEN AsBefore ELSE OneMore(slot[s])
  BY PushDelete DEF TypeOK
<1>2. TypeOK'
  BY <1>1 DEF TypeOK, AsBefore, OneMore
<1>3. NoDangling'
  BY <1>1 DEF TypeOK, NoDangling, AsBefore, OneMore
<1>4. SingleOwner'
  BY <1>1 DEF TypeOK, SingleOwner, AsBefore, OneMore
<1>5. Owned'
  BY <1>1 DEF TypeOK, Owned, AsBefore, OneMore
<1>6. CalledAtMostOnce'
  BY <1>1 DEF TypeOK, CalledAtMostOnce
<1>7. CalledIsGone'
  BY <1>1 DEF TypeOK, CalledIsGone
<1>8. UnbornIsFresh'
  BY <1>1 DEF TypeOK, UnbornIsFresh
<1>9. QED
  BY <1>2, <1>3, <1>4, <1>5, <1>6, <1>7, <1>8

(* The target a closure captured passes to a new activation. *)
LEMMA CallCapturedInvariant ==
  ASSUME IInv, CallCaptured
  PROVE  IInv'
<1> USE OneShotAssumption DEF IInv, CallCaptured, Holds, Exists
<1> DEFINE t == Top.target
<1>1. t \in Target /\ OnStack(t)
  BY TopTarget DEF TypeOK
<1>2. captured[t] \in Target /\ OneMore(captured[t])
  BY <1>1, PushTarget DEF TypeOK
<1>3. calls[captured[t]] = 0
  BY <1>1, <1>2 DEF TypeOK, CalledIsGone
<1>4. /\ captured' = [captured EXCEPT ![t] = Null]
      /\ calls' \in [Target -> Nat]
      /\ \A u \in Target : u # captured[t] => calls'[u] = calls[u]
      /\ calls'[captured[t]] <= 1
      /\ UNCHANGED <<slot, heap, unwinding>>
  BY <1>2, <1>3 DEF TypeOK
<1> HIDE DEF t, CallCaptured
<1>5. TypeOK'
  BY <1>1, <1>2, <1>3, <1>4 DEF TypeOK, OneMore
<1>6. NoDangling'
  BY <1>1, <1>2, <1>3, <1>4 DEF TypeOK, NoDangling, OneMore
<1>7. SingleOwner'
  BY <1>1, <1>2, <1>3, <1>4 DEF TypeOK, SingleOwner, OneMore
<1>8. Owned'
  BY <1>1, <1>2, <1>3, <1>4 DEF TypeOK, Owned, OneMore
<1>9. CalledAtMostOnce'
  BY <1>1, <1>2, <1>3, <1>4 DEF TypeOK, CalledAtMostOnce
<1>10. CalledIsGone'
  BY <1>1, <1>2, <1>3, <1>4 DEF TypeOK, CalledIsGone, SingleOwner
<1>11. UnbornIsFresh'
  BY <1>1, <1>2, <1>3, <1>4 DEF TypeOK, UnbornIsFresh, NoDangling
<1>12. QED
  BY <1>5, <1>6, <1>7, <1>8, <1>9, <1>10, <1>11

(* It is to be deleted before the closure that captured it. *)
LEMMA DeleteCapturedInvariant ==
  ASSUME IInv, DeleteCaptured
  PROVE  IInv'
<1> USE OneShotAssumption DEF IInv, DeleteCaptured, Holds, Exists
<1> DEFINE t == Top.target
<1>1. t \in Target /\ OnStack(t)
  BY TopTarget DEF TypeOK
<1>2. captured[t] \in Target /\ OneMore(captured[t])
  BY <1>1, PushTarget DEF TypeOK
<1>3. calls[captured[t]] = 0
  BY <1>1, <1>2 DEF TypeOK, CalledIsGone
<1>4. /\ captured' = [captured EXCEPT ![t] = Null]
      /\ calls' \in [Target -> Nat]
      /\ \A u \in Target : u # captured[t] => calls'[u] = calls[u]
      /\ calls'[captured[t]] <= 1
      /\ UNCHANGED <<slot, heap, unwinding>>
  BY <1>2, <1>3 DEF TypeOK
<1> HIDE DEF t, DeleteCaptured
<1>5. TypeOK'
  BY <1>1, <1>2, <1>3, <1>4 DEF TypeOK, OneMore
<1>6. NoDangling'
  BY <1>1, <1>2, <1>3, <1>4 DEF TypeOK, NoDangling, OneMore
<1>7. SingleOwner'
  BY <1>1, <1>2, <1>3, <1>4 DEF TypeOK, SingleOwner, OneMore
<1>8. Owned'
  BY <1>1, <1>2, <1>3, <1>4 DEF TypeOK, Owned, OneMore
<1>9. CalledAtMostOnce'
  BY <1>1, <1>2, <1>3, <1>4 DEF TypeOK, CalledAtMostOnce
<1>10. CalledIsGone'
  BY <1>1, <1>2, <1>3, <1>4 DEF TypeOK, CalledIsGone, SingleOwner
<1>11. UnbornIsFresh'
  BY <1>1, <1>2, <1>3, <1>4 DEF TypeOK, UnbornIsFresh, NoDangling
<1>12. QED
  BY <1>5, <1>6, <1>7, <1>8, <1>9, <1>10, <1>11

(* The cell deleted had no other owner, and owned nothing. *)
LEMMA ReleaseInvariant ==
  ASSUME IInv, Release
  PROVE  IInv'
<1> USE OneShotAssumption DEF IInv, Release, Holds, Exists
<1> DEFINE t == Top.target
<1>1. t \in Target /\ OnStack(t)
  BY TopTarget DEF TypeOK
<1>2. /\ stack' \in Seq(Frame)
      /\ \A u \in Target : OnStack(u)' <=> OnStack(u) /\ u # t
      /\ StackDistinct'
  BY PopTarget DEF TypeOK, SingleOwner
<1>3. captured[t] = Null /\ heap' = [heap EXCEPT ![t] = "deleted"] /\ UNCHANGED <<slot, captured, unwinding, calls>>
  OBVIOUS
<1> HIDE DEF t, Release
<1>4. TypeOK'
  BY <1>1, <1>2, <1>3 DEF TypeOK
<1>5. NoDangling'
  BY <1>1, <1>2, <1>3 DEF TypeOK, NoDangling, SingleOwner
<1>6. SingleOwner'
  BY <1>1, <1>2, <1>3 DEF TypeOK, SingleOwner
<1>7. Owned'
  BY <1>1, <1>2, <1>3 DEF TypeOK, Owned
<1>8. CalledAtMostOnce'
  BY <1>1, <1>2, <1>3 DEF TypeOK, CalledAtMostOnce
<1>9. CalledIsGone'
  BY <1>1, <1>2, <1>3 DEF TypeOK, CalledIsGone
<1>10. UnbornIsFresh'
  BY <1>1, <1>2, <1>3 DEF TypeOK, UnbornIsFresh
<1>11. QED
  BY <1>4, <1>5, <1>6, <1>7, <1>8, <1>9, <1>10

(* A closure that returns or throws turns its activation into a deletion. *)
LEMMA OtherInvariant ==
  ASSUME IInv, Return \/ Throw \/ Unwind \/ Catch \/ UNCHANGED vars
  PROVE  IInv'
<1>1. AsBefore /\ UNCHANGED <<slot, captured, heap, calls>> /\ unwinding' \in BOOLEAN
  <2>1. CASE Return \/ Throw \/ Unwind
    BY <2>1, TurnToDelete DEF IInv, TypeOK, Return, Throw, Unwind
  <2>2. CASE Catch \/ UNCHANGED vars
    BY <2>2 DEF IInv, TypeOK, Catch, vars, AsBefore, OnStack, StackDistinct
  <2>3. QED
    BY <2>1, <2>2
<1> USE DEF IInv, AsBefore, Holds
<1>2. TypeOK'
  BY <1>1 DEF TypeOK
<1>3. NoDangling' /\ SingleOwner' /\ Owned'
  BY <1>1 DEF NoDangling, SingleOwner, Owned, TypeOK
<1>4. CalledAtMostOnce' /\ CalledIsGone' /\ UnbornIsFresh'
  BY <1>1 DEF CalledAtMostOnce, CalledIsGone, UnbornIsFresh
<1>5. QED
  BY <1>2, <1>3, <1>4

LEMMA NextInvariant == IInv /\ [Next]_vars => IInv'
  BY DefaultConstructInvariant, ConstructInvariant, ConstructCapturingInvariant,
     ConstructFailsInvariant, MoveConstructInvariant, MoveAssignInvariant,
     DestroyInvariant, CallInvariant, CallCapturedInvariant, DeleteCapturedInvariant,
     ReleaseInvariant, OtherInvariant
  DEF Next

LEMMA Invariant == Spec => []IInv
  BY InitInvariant, NextInvariant, PTL DEF Spec

-----------------------------------------------------------------------------
(* Every state of every program over one_shots is well typed. *)
THEOREM TypeCorrect == Spec => []TypeOK
<1>1. IInv => TypeOK
  BY DEF IInv
<1>2. QED
  BY <1>1, Invariant, PTL

(* No call, move or destructor of one_shot reaches a deleted target. *)
THEOREM NothingDangles == Spec => []NoDangling
<1>1. IInv => NoDangling
  BY DEF IInv
<1>2. QED
  BY <1>1, Invariant, PTL

(* No target of a one_shot is ever to be deleted by two owners. *)
THEOREM OwnersAreSingle == Spec => []SingleOwner
<1>1. IInv => SingleOwner
  BY DEF IInv
<1>2. QED
  BY <1>1, Invariant, PTL

(* The call operator of one_shot enters a target once, whatever its closure does. *)
THEOREM OneShotIsOneShot == Spec => []CalledAtMostOnce
<1>1. IInv => CalledAtMostOnce
  BY DEF IInv
<1>2. QED
  BY <1>1, Invariant, PTL

-----------------------------------------------------------------------------
(***************************************************************************)
(* Chains of captured continuations.                                       *)
(***************************************************************************)

(* Every cell is below the one that is captured in it, and all below n. *)
Ranks(n, rank) ==
  /\ rank \in [Target -> 0 .. n]
  /\ \A t \in Target : captured[t] # Null => rank[t] < rank[captured[t]]

Chained == \E n \in Nat : \E rank \in [Target -> 0 .. n] : Ranks(n, rank)

(* A set of naturals has a least element: {1 .. n : n \in T} has one. *)
LEMMA LeastNatural ==
  ASSUME NEW T, T \subseteq Nat, T # {}
  PROVE  \E x \in T : \A y \in T : x <= y
<1> DEFINE R == StrictSubsetOrdering(Nat)
           F == FiniteSubsetsOf(Nat)
           D == {1 .. n : n \in T}
<1>1. IsWellFoundedOn(R, F)
  BY FS_StrictSubsetOrderingWellFounded
<1>2. \A n \in T : 1 .. n \in FiniteSubsetsOf(Nat)
  <2> SUFFICES ASSUME NEW n \in T PROVE 1 .. n \in FiniteSubsetsOf(Nat)
    OBVIOUS
  <2>1. n \in Int /\ 1 .. n \subseteq Nat
    OBVIOUS
  <2>2. QED
    BY <2>1, FS_Interval DEF FiniteSubsetsOf
<1>3. D \subseteq F /\ D # {}
  BY <1>2
<1>4. PICK d \in D : \A e \in D : ~(<<e, d>> \in R)
  <2> HIDE DEF R, F, D
  <2>1. QED
    BY <1>1, <1>3, WFMin
<1>5. PICK x \in T : d = 1 .. x
  OBVIOUS
<1>6. ASSUME NEW y \in T, y < x PROVE FALSE
  <2>1. x \in 1 .. x /\ x \notin 1 .. y
    BY <1>6
  <2>2. 1 .. y \subseteq 1 .. x
    BY <1>6
  <2>3. 1 .. y \subseteq Nat /\ 1 .. x \subseteq Nat /\ 1 .. y # 1 .. x
    BY <2>1
  <2>4. <<1 .. y, 1 .. x>> \in R
    BY <2>2, <2>3 DEF StrictSubsetOrdering
  <2>5. QED
    BY <1>4, <1>5, <2>4
<1>7. QED
  BY <1>5, <1>6

LEMMA InitChained == Init => Chained
<1> SUFFICES ASSUME Init PROVE Chained
  OBVIOUS
<1> DEFINE rank == [t \in Target |-> 0]
<1>1. Ranks(0, rank)
  BY OneShotAssumption DEF Init, Ranks
<1>2. QED
  BY <1>1 DEF Ranks, Chained

(* A new closure takes a rank below the continuation it captures. *)
LEMMA CapturingChained ==
  ASSUME IInv, Chained, NEW s \in Slot, NEW k \in Slot, NEW t \in Target,
         ConstructCapturing(s, t, k)
  PROVE  Chained'
<1> USE OneShotAssumption
<1>1. PICK n \in Nat : \E rank \in [Target -> 0 .. n] : Ranks(n, rank)
  BY DEF Chained
<1>1r. PICK rank \in [Target -> 0 .. n] : Ranks(n, rank)
  BY <1>1
<1>2. captured' = [captured EXCEPT ![t] = slot[k]] /\ captured \in [Target -> Target \cup {Null}]
  BY DEF ConstructCapturing, IInv, TypeOK
<1>3. \A u \in Target : captured[u] # t
  BY <1>2 DEF ConstructCapturing, IInv, NoDangling, UnbornIsFresh
<1>4. slot[k] # t /\ slot[k] \in Target \cup {Null}
  BY DEF ConstructCapturing, IInv, TypeOK, NoDangling, Holds, Exists
<1> DEFINE higher == [u \in Target |-> IF u = t THEN 0 ELSE rank[u] + 1]
<1>5. higher \in [Target -> 0 .. n + 1]
  OBVIOUS
<1>6. ASSUME NEW u \in Target, captured'[u] # Null
      PROVE  higher[u] < higher[captured'[u]]
  <2>1. CASE u = t
    <3>1. captured'[u] = slot[k] /\ slot[k] \in Target /\ slot[k] # t
      BY <1>2, <1>4, <1>6, <2>1
    <3>2. rank[slot[k]] \in 0 .. n
      BY <3>1
    <3>3. QED
      BY <2>1, <3>1, <3>2
  <2>2. CASE u # t
    <3>1. captured'[u] = captured[u] /\ captured[u] \in Target /\ captured[u] # t
      BY <1>2, <1>3, <1>6, <2>2
    <3>2. rank[u] < rank[captured[u]] /\ rank[u] \in 0 .. n /\ rank[captured[u]] \in 0 .. n
      BY <1>1r, <3>1 DEF Ranks
    <3>3. QED
      BY <2>2, <3>1, <3>2
  <2>3. QED
    BY <2>1, <2>2
<1>7. Ranks(n + 1, higher)'
  BY <1>5, <1>6 DEF Ranks
<1>8. QED
  BY <1>5, <1>7 DEF Chained

(* Every other step leaves the captured ones alone, or empties one closure. *)
LEMMA OtherChained ==
  ASSUME IInv, Chained, captured \in [Target -> Target \cup {Null}],
         \A u \in Target : captured'[u] \in {captured[u], Null}
  PROVE  Chained'
  BY DEF Chained, Ranks

LEMMA NextChained == IInv /\ Chained /\ [Next]_vars => Chained'
<1> SUFFICES ASSUME IInv, Chained, [Next]_vars PROVE Chained'
  OBVIOUS
<1>1. captured \in [Target -> Target \cup {Null}] /\ stack \in Seq(Frame)
  BY DEF IInv, TypeOK
<1>2. CASE \E s, k \in Slot, t \in Target : ConstructCapturing(s, t, k)
  BY <1>2, CapturingChained
<1>3. CASE CallCaptured \/ DeleteCaptured
  <2>1. Top.target \in Target
    BY <1>1, <1>3, TopTarget DEF CallCaptured, DeleteCaptured
  <2>2. \A u \in Target : captured'[u] \in {captured[u], Null}
    BY <1>1, <1>3, <2>1 DEF CallCaptured, DeleteCaptured
  <2>3. QED
    BY <1>1, <2>2, OtherChained
<1>4. CASE captured' = captured
  BY <1>1, <1>4, OtherChained
<1>5. QED
  BY <1>2, <1>3, <1>4
  DEF Next, DefaultConstruct, Destroy, Call, Construct, MoveConstruct, MoveAssign,
      ConstructFails, Return, Throw, Unwind, Catch, Release, vars

(***************************************************************************)
(* With nothing on the stack and every object empty, a live target could   *)
(* only be captured, in a live target of lower rank: the lowest refutes it.*)
(***************************************************************************)
LEMMA ChainsEnd == IInv /\ Chained => NoLeak
<1> SUFFICES ASSUME IInv, Chained, stack = <<>>, \A s \in Slot : ~Holds(s),
                    NEW live \in Target, heap[live] = "live"
             PROVE  FALSE
  BY DEF NoLeak
<1>1. PICK n \in Nat : \E rank \in [Target -> 0 .. n] : Ranks(n, rank)
  BY DEF Chained
<1>1r. PICK rank \in [Target -> 0 .. n] : Ranks(n, rank)
  BY <1>1
<1> DEFINE T == {rank[t] : t \in {u \in Target : heap[u] = "live"}}
<1>2. T \subseteq Nat /\ T # {}
  OBVIOUS
<1>3. PICK x \in T : \A y \in T : x <= y
  <2> HIDE DEF T
  <2>1. QED
    BY <1>2, LeastNatural
<1>4. PICK t \in Target : heap[t] = "live" /\ x = rank[t]
  OBVIOUS
<1>5. ~OnStack(t) /\ \A s \in Slot : slot[s] # t
  BY DEF OnStack, Holds
<1>6. PICK u \in Target : captured[u] = t
  BY <1>4, <1>5 DEF IInv, Owned
<1>7. heap[u] = "live" /\ rank[u] < rank[t]
  BY <1>1r, <1>6, OneShotAssumption DEF IInv, NoDangling, Ranks
<1>8. rank[u] \in T /\ rank[u] \in Int /\ rank[t] \in Int
  BY <1>7
<1>9. x <= rank[u]
  <2> HIDE DEF T
  <2>1. QED
    BY <1>3, <1>8
<1>10. QED
  BY <1>4, <1>7, <1>8, <1>9

(***************************************************************************)
(* one_shot leaks nothing: when every call has returned or thrown and      *)
(* every object is empty or gone, no target is left, however deep the      *)
(* chains of captured continuations were.                                  *)
(***************************************************************************)
THEOREM NothingLeaks == Spec => []NoLeak
<1>1. Spec => [](IInv /\ Chained)
  <2>1. Init => IInv /\ Chained
    BY InitInvariant, InitChained
  <2>2. IInv /\ Chained /\ [Next]_vars => IInv' /\ Chained'
    BY NextInvariant, NextChained
  <2>3. QED
    BY <2>1, <2>2, PTL DEF Spec
<1>2. QED
  BY <1>1, ChainsEnd, PTL

=============================================================================
