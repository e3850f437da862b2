------------------------- MODULE AsyncProcessProofs -------------------------
(***************************************************************************)
(* Proofs about AsyncProcess, for every set of processes, every set of     *)
(* results and every pipe capacity.                                        *)
(*                                                                         *)
(* The argument: a call's pipe has one writer, the call itself, and while  *)
(* the owner of the handle reads it the writer has ended (Reading).  What  *)
(* the pipe holds is therefore known from how far the writer has come      *)
(* (Unsent, Sending, ResultAwaits), and it holds nothing but the writer's  *)
(* own result (Carried).                                                   *)
(***************************************************************************)
EXTENDS AsyncProcess, SequenceTheorems, TLAPS

\* A process that has not returned, and one that waits for a call of its own.
NotReturned == {"unborn", "nofork", "run", "lost", "wait", "readSize", "readBody"}
InAwait == {"wait", "readSize", "readBody"}

\* A process that has not returned has written nothing, and no await of it
\* has delivered a value.
Unsent ==
    \A p \in Proc : pc[p] \in NotReturned =>
        /\ pipe[p] = <<>>
        /\ result[p] = None
        /\ got[p] \notin Value
        /\ status[p] = "alive"

\* Between the two writes of writeChildResult the pipe holds the size part of
\* the writer's own result; before them it is empty.
Sending ==
    \A p \in Proc : pc[p] \in {"sendSize", "sendBody"} =>
        /\ pipeReturn[p] = p
        /\ result[p] \in Value
        /\ got[p] \notin Value
        /\ status[p] = "alive"
        /\ pipe[p] = IF pc[p] = "sendSize" THEN <<>>
                     ELSE <<SizePart(result[p])>>

\* A process writes to the pipe of its own call only; a process in an await
\* made that call itself.
Owned ==
    \A p \in Proc :
        /\ pipeReturn[p] \in {None, p}
        /\ pc[p] = "unborn" => ppid[p] = None
        /\ pc[p] \in InAwait => awaiting[p] \in Proc
        /\ awaiting[p] # None => ppid[awaiting[p]] = p

\* A pipe is read only once its callee was collected or never forked.
Reading ==
    \A p \in Proc : pc[p] \in {"readSize", "readBody"} =>
        pc[awaiting[p]] \in {"nofork", "reaped"}

\* Every part in a pipe carries the result of the callee.
Carried ==
    \A h \in Proc : \A i \in 1..Len(pipe[h]) : pipe[h][i].val = result[h]

\* The inductive invariant.
IInv == TypeOK /\ Unsent /\ Sending /\ Owned /\ Reading /\ Carried
               /\ AwaitFaithful /\ ResultAwaits

\* What appending to a sequence of length 0 or 1 gives.
LEMMA ShortAppends ==
    ASSUME NEW S, NEW x \in S, NEW y \in S
    PROVE  Append(<<>>, x) = <<x>> /\ Append(<<x>>, y) = <<x, y>>
<1>1. Append(<<>>, x) = <<x>>
  <2>1. <<>> \in Seq(S) /\ Len(<<>>) = 0
    BY EmptySeq
  <2>2. /\ Append(<<>>, x) \in Seq(S)
        /\ Len(Append(<<>>, x)) = 1
        /\ Append(<<>>, x)[1] = x
    BY <2>1, AppendProperties
  <2>3. <<x>> \in Seq(S) /\ Len(<<x>>) = 1 /\ <<x>>[1] = x
    OBVIOUS
  <2> QED
    BY <2>2, <2>3, SeqEqual
<1>2. Append(<<x>>, y) = <<x, y>>
  <2>1. <<x>> \in Seq(S) /\ Len(<<x>>) = 1 /\ <<x>>[1] = x
    OBVIOUS
  <2>2. Append(<<x>>, y) \in Seq(S)
    BY <2>1
  <2>3. Len(Append(<<x>>, y)) = 2
    BY <2>1
  <2>4. Append(<<x>>, y)[1] = x
    BY <2>1
  <2>5. Append(<<x>>, y)[2] = y
    BY <2>1
  <2>6. <<x, y>> \in Seq(S) /\ Len(<<x, y>>) = 2 /\ <<x, y>>[1] = x /\ <<x, y>>[2] = y
    OBVIOUS
  <2>7. \A i \in 1..2 : Append(<<x>>, y)[i] = <<x, y>>[i]
    BY <2>4, <2>5, <2>6
  <2> QED
    BY <2>2, <2>3, <2>6, <2>7, SeqEqual
<1> QED
  BY <1>1, <1>2

\* The parts of a message and the two writes that make it.
LEMMA MessageFacts ==
    ASSUME NEW v \in Value
    PROVE  /\ SizePart(v).val = v /\ BodyPart(v).val = v
           /\ Append(<<>>, SizePart(v)) = <<SizePart(v)>>
           /\ Append(<<SizePart(v)>>, BodyPart(v)) = Whole(v)
           /\ Whole(v) # <<>> /\ <<BodyPart(v)>> # <<>>
           /\ Tail(Whole(v)) = <<BodyPart(v)>>
           /\ <<SizePart(v)>> \in Seq(Message) /\ Whole(v) \in Seq(Message)
           /\ \A i \in 1..Len(Whole(v)) : Whole(v)[i].val = v
           /\ \A i \in 1..Len(<<SizePart(v)>>) : <<SizePart(v)>>[i].val = v
<1>1. SizePart(v) \in Message /\ BodyPart(v) \in Message
  BY DEF Message, SizePart, BodyPart
<1>2. SizePart(v).val = v /\ BodyPart(v).val = v
  BY DEF SizePart, BodyPart
<1>3. Append(<<>>, SizePart(v)) = <<SizePart(v)>>
  BY <1>1, ShortAppends
<1>4. Append(<<SizePart(v)>>, BodyPart(v)) = Whole(v)
  BY <1>1, ShortAppends DEF Whole
<1>5. Whole(v) # <<>> /\ <<BodyPart(v)>> # <<>>
  BY DEF Whole
<1>6. Tail(Whole(v)) = <<BodyPart(v)>>
  BY <1>1 DEF Whole
<1>7. <<SizePart(v)>> \in Seq(Message) /\ Whole(v) \in Seq(Message)
  BY <1>1 DEF Whole
<1>8. \A i \in 1..Len(Whole(v)) : Whole(v)[i].val = v
  BY <1>1, <1>2 DEF Whole
<1>9. \A i \in 1..Len(<<SizePart(v)>>) : <<SizePart(v)>>[i].val = v
  BY <1>1, <1>2
<1> QED
  BY <1>2, <1>3, <1>4, <1>5, <1>6, <1>7, <1>8, <1>9

\* The owner of a handle reads alone, from a writer that has ended.
LEMMA ReaderFacts ==
    ASSUME IInv, NEW p \in Proc, pc[p] \in {"readSize", "readBody"}
    PROVE  /\ awaiting[p] \in Proc /\ awaiting[p] # p
           /\ pc[awaiting[p]] \in {"nofork", "reaped"}
           /\ pipe[awaiting[p]] \in Seq(Message)
           /\ \A q \in Proc : awaiting[q] = awaiting[p] => q = p
  BY ConstantsOK DEF IInv, TypeOK, Owned, Reading, InAwait, Control

\* A fork preserves IInv: the new pipe is empty and its writer is the child
\* (spawnAsyncProcess).
LEMMA SpawnInv ==
    ASSUME IInv, NEW p \in Proc, NEW c \in Proc, NEW callOk \in BOOLEAN,
           Spawn(p, c, callOk)
    PROVE  IInv'
<1> USE DEF IInv, TypeOK, NotReturned, InAwait, Control, fds, Spawn
<1>1. TypeOK'
  BY ConstantsOK
<1>2. Unsent'
  BY ConstantsOK DEF Unsent
<1>3. Sending'
  BY ConstantsOK DEF Sending
<1>4. Owned'
  BY ConstantsOK DEF Owned
<1>5. Reading'
  BY ConstantsOK DEF Reading
<1>6. Carried'
  BY ConstantsOK DEF Carried
<1>7. AwaitFaithful'
  BY ConstantsOK DEF AwaitFaithful
<1>8. ResultAwaits'
  BY ConstantsOK DEF ResultAwaits
<1> QED
  BY <1>1, <1>2, <1>3, <1>4, <1>5, <1>6, <1>7, <1>8

\* A failed fork preserves IInv: the handle has a pipe nobody writes to.
LEMMA SpawnFailsInv ==
    ASSUME IInv, NEW p \in Proc, NEW c \in Proc, SpawnFails(p, c)
    PROVE  IInv'
<1> USE DEF IInv, TypeOK, NotReturned, InAwait, Control, fds, SpawnFails
<1>1. TypeOK'
  BY ConstantsOK
<1>2. Unsent'
  BY ConstantsOK DEF Unsent
<1>3. Sending'
  BY ConstantsOK DEF Sending
<1>4. Owned'
  BY ConstantsOK DEF Owned
<1>5. Reading'
  BY ConstantsOK DEF Reading
<1>6. Carried'
  BY ConstantsOK DEF Carried
<1>7. AwaitFaithful'
  BY ConstantsOK DEF AwaitFaithful
<1>8. ResultAwaits'
  BY ConstantsOK DEF ResultAwaits
<1> QED
  BY <1>1, <1>2, <1>3, <1>4, <1>5, <1>6, <1>7, <1>8

\* A refused await preserves IInv (the guards of processChildReturn).
LEMMA AwaitRejectedInv ==
    ASSUME IInv, NEW p \in Proc, AwaitRejected(p)
    PROVE  IInv'
<1> USE DEF IInv, TypeOK, NotReturned, InAwait, Control, fds, AwaitRejected
<1>1. TypeOK'
  BY ConstantsOK
<1>2. Unsent'
  BY ConstantsOK DEF Unsent
<1>3. Sending'
  BY ConstantsOK DEF Sending
<1>4. Owned'
  BY ConstantsOK DEF Owned
<1>5. Reading'
  BY ConstantsOK DEF Reading
<1>6. Carried'
  BY ConstantsOK DEF Carried
<1>7. AwaitFaithful'
  BY ConstantsOK DEF AwaitFaithful
<1>8. ResultAwaits'
  BY ConstantsOK DEF ResultAwaits
<1> QED
  BY <1>1, <1>2, <1>3, <1>4, <1>5, <1>6, <1>7, <1>8

\* Entering waitpid preserves IInv: the ppid check makes the reader the owner.
LEMMA AwaitStartInv ==
    ASSUME IInv, NEW p \in Proc, NEW h \in Proc, AwaitStart(p, h)
    PROVE  IInv'
<1> USE DEF IInv, TypeOK, NotReturned, InAwait, Control, fds, AwaitStart, MayAwait
<1>1. TypeOK'
  BY ConstantsOK
<1>2. Unsent'
  BY ConstantsOK DEF Unsent
<1>3. Sending'
  BY ConstantsOK DEF Sending
<1>4. Owned'
  BY ConstantsOK DEF Owned
<1>5. Reading'
  BY ConstantsOK DEF Reading
<1>6. Carried'
  BY ConstantsOK DEF Carried
<1>7. AwaitFaithful'
  BY ConstantsOK DEF AwaitFaithful
<1>8. ResultAwaits'
  BY ConstantsOK DEF ResultAwaits
<1> QED
  BY <1>1, <1>2, <1>3, <1>4, <1>5, <1>6, <1>7, <1>8

\* The return of waitpid preserves IInv: the writer of the pipe has ended.
LEMMA ReapInv ==
    ASSUME IInv, NEW p \in Proc, NEW c \in Proc, Reap(p, c)
    PROVE  IInv'
<1> USE DEF IInv, TypeOK, NotReturned, InAwait, Control
<1> DEFINE h == awaiting[p]
<1>1. /\ h \in Proc /\ ppid[h] = p
      /\ pc[p] = "wait" /\ pc[c] = "zombie" /\ p # c
      /\ c = h \/ (pc[h] = "nofork" /\ h # p /\ h # c)
  BY ConstantsOK DEF Owned, Reap, Awaited
<1>2. UNCHANGED <<ppid, handles, writeEnds, pipeReturn, pipe, result, reset, status>>
  BY DEF Reap, fds
<1>3. CASE status[c] = "ok"
  <2>1. pc' = [pc EXCEPT ![p] = "readSize", ![c] = "reaped"] /\ UNCHANGED <<awaiting, got>>
    BY <1>3 DEF Reap
  <2>2. /\ pc' \in [Proc -> Control] /\ pc'[p] = "readSize" /\ pc'[c] = "reaped"
        /\ \A q \in Proc \ {p, c} : pc'[q] = pc[q]
    BY <1>1, <2>1
  <2>3. \A q \in Proc : /\ (pc'[q] = "readBody") <=> (pc[q] = "readBody")
                        /\ pc[q] = "readBody" => awaiting'[q] = awaiting[q]
    BY <1>1, <2>1, <2>2
  <2>4. TypeOK'
    BY ConstantsOK, <1>1, <1>2, <1>3, <2>1, <2>2 DEF Unsent, Sending, Owned, Reading, Carried, AwaitFaithful, ResultAwaits
  <2>5. Unsent'
    BY ConstantsOK, <1>1, <1>2, <1>3, <2>1, <2>2 DEF Unsent, Sending, Owned, Reading, Carried, AwaitFaithful, ResultAwaits
  <2>6. Sending'
    BY ConstantsOK, <1>1, <1>2, <1>3, <2>1, <2>2 DEF Unsent, Sending, Owned, Reading, Carried, AwaitFaithful, ResultAwaits
  <2>7. Owned'
    BY ConstantsOK, <1>1, <1>2, <1>3, <2>1, <2>2 DEF Unsent, Sending, Owned, Reading, Carried, AwaitFaithful, ResultAwaits
  <2>8. Reading'
    <3> SUFFICES ASSUME NEW q \in Proc, pc'[q] \in {"readSize", "readBody"}
                 PROVE  pc'[awaiting'[q]] \in {"nofork", "reaped"}
      BY DEF Reading
    <3>1. CASE q = p
      BY <1>1, <2>1, <2>2, <3>1
    <3>2. CASE q # p
      <4>1. pc'[q] = pc[q] /\ awaiting'[q] = awaiting[q]
        BY <1>1, <2>1, <2>2, <3>2
      <4>2. awaiting[q] \in Proc /\ pc[awaiting[q]] \in {"nofork", "reaped"}
        BY <4>1 DEF Reading, Owned
      <4> QED
        BY <1>1, <2>2, <4>1, <4>2
    <3> QED
      BY <3>1, <3>2
  <2>9. Carried'
    BY ConstantsOK, <1>1, <1>2, <1>3, <2>1, <2>2 DEF Unsent, Sending, Owned, Reading, Carried, AwaitFaithful, ResultAwaits
  <2>10. AwaitFaithful'
    BY ConstantsOK, <1>1, <1>2, <1>3, <2>1, <2>2 DEF Unsent, Sending, Owned, Reading, Carried, AwaitFaithful, ResultAwaits
  <2>11. ResultAwaits'
    BY <1>1, <1>2, <2>1, <2>3, ConstantsOK DEF ResultAwaits
  <2> QED
    BY <2>4, <2>5, <2>6, <2>7, <2>8, <2>9, <2>10, <2>11
<1>4. CASE status[c] # "ok"
  <2>1. /\ pc' = [pc EXCEPT ![p] = "run", ![c] = "reaped"]
        /\ got' = [got EXCEPT ![h] = Failed]
        /\ awaiting' = [awaiting EXCEPT ![p] = None]
    BY <1>4 DEF Reap, Deliver
  <2>2. /\ pc' \in [Proc -> Control] /\ pc'[p] = "run" /\ pc'[c] = "reaped"
        /\ \A q \in Proc \ {p, c} : pc'[q] = pc[q]
    BY <1>1, <2>1
  <2>3. \A q \in Proc : /\ (pc'[q] = "readBody") <=> (pc[q] = "readBody")
                        /\ pc[q] = "readBody" => awaiting'[q] = awaiting[q]
    BY <1>1, <2>1, <2>2
  <2>4. TypeOK'
    BY ConstantsOK, <1>1, <1>2, <1>4, <2>1, <2>2 DEF Unsent, Sending, Owned, Reading, Carried, AwaitFaithful, ResultAwaits
  <2>5. Unsent'
    BY ConstantsOK, <1>1, <1>2, <1>4, <2>1, <2>2 DEF Unsent, Sending, Owned, Reading, Carried, AwaitFaithful, ResultAwaits
  <2>6. Sending'
    BY ConstantsOK, <1>1, <1>2, <1>4, <2>1, <2>2 DEF Unsent, Sending, Owned, Reading, Carried, AwaitFaithful, ResultAwaits
  <2>7. Owned'
    BY ConstantsOK, <1>1, <1>2, <1>4, <2>1, <2>2 DEF Unsent, Sending, Owned, Reading, Carried, AwaitFaithful, ResultAwaits
  <2>8. Reading'
    <3> SUFFICES ASSUME NEW q \in Proc, pc'[q] \in {"readSize", "readBody"}
                 PROVE  pc'[awaiting'[q]] \in {"nofork", "reaped"}
      BY DEF Reading
    <3>1. CASE q = p
      BY <1>1, <2>1, <2>2, <3>1
    <3>2. CASE q # p
      <4>1. pc'[q] = pc[q] /\ awaiting'[q] = awaiting[q]
        BY <1>1, <2>1, <2>2, <3>2
      <4>2. awaiting[q] \in Proc /\ pc[awaiting[q]] \in {"nofork", "reaped"}
        BY <4>1 DEF Reading, Owned
      <4> QED
        BY <1>1, <2>2, <4>1, <4>2
    <3> QED
      BY <3>1, <3>2
  <2>9. Carried'
    BY ConstantsOK, <1>1, <1>2, <1>4, <2>1, <2>2 DEF Unsent, Sending, Owned, Reading, Carried, AwaitFaithful, ResultAwaits
  <2>10. AwaitFaithful'
    BY ConstantsOK, <1>1, <1>2, <1>4, <2>1, <2>2 DEF Unsent, Sending, Owned, Reading, Carried, AwaitFaithful, ResultAwaits
  <2>11. ResultAwaits'
    BY <1>1, <1>2, <2>1, <2>3, ConstantsOK DEF ResultAwaits
  <2> QED
    BY <2>4, <2>5, <2>6, <2>7, <2>8, <2>9, <2>10, <2>11
<1> QED
  BY <1>3, <1>4

\* A waitpid that fails preserves IInv: there is no writer left either.
LEMMA NoChildInv ==
    ASSUME IInv, NEW p \in Proc, NoChild(p)
    PROVE  IInv'
<1> USE DEF IInv, TypeOK, NotReturned, InAwait, Control
<1>1. /\ awaiting[p] \in Proc /\ pc[p] = "wait"
      /\ pc[awaiting[p]] \in {"nofork", "reaped"}
  BY ConstantsOK DEF Owned, NoChild, Awaited
<1>2. UNCHANGED <<ppid, handles, writeEnds, pipeReturn, pipe, result, reset, status>>
  BY DEF NoChild, fds
<1>3. CASE pc' = [pc EXCEPT ![p] = "readSize"] /\ UNCHANGED <<awaiting, got>>
  <2>1. TypeOK'
    BY ConstantsOK, <1>1, <1>2, <1>3
  <2>2. Unsent'
    BY ConstantsOK, <1>1, <1>2, <1>3 DEF Unsent
  <2>3. Sending'
    BY ConstantsOK, <1>1, <1>2, <1>3 DEF Sending
  <2>4. Owned'
    BY ConstantsOK, <1>1, <1>2, <1>3 DEF Owned
  <2>5. Reading'
    BY ConstantsOK, <1>1, <1>2, <1>3 DEF Reading
  <2>6. Carried'
    BY ConstantsOK, <1>1, <1>2, <1>3 DEF Carried
  <2>7. AwaitFaithful'
    BY ConstantsOK, <1>1, <1>2, <1>3 DEF AwaitFaithful
  <2>8. ResultAwaits'
    BY ConstantsOK, <1>1, <1>2, <1>3 DEF ResultAwaits
  <2> QED
    BY <2>1, <2>2, <2>3, <2>4, <2>5, <2>6, <2>7, <2>8
<1>4. CASE pc' = [pc EXCEPT ![p] = "run"] /\ Deliver(p, Failed)
  <2>1. TypeOK'
    BY ConstantsOK, <1>1, <1>2, <1>4 DEF Deliver
  <2>2. Unsent'
    BY ConstantsOK, <1>1, <1>2, <1>4 DEF Deliver, Unsent
  <2>3. Sending'
    BY ConstantsOK, <1>1, <1>2, <1>4 DEF Deliver, Sending
  <2>4. Owned'
    BY ConstantsOK, <1>1, <1>2, <1>4 DEF Deliver, Owned
  <2>5. Reading'
    BY ConstantsOK, <1>1, <1>2, <1>4 DEF Deliver, Reading
  <2>6. Carried'
    BY ConstantsOK, <1>1, <1>2, <1>4 DEF Deliver, Carried
  <2>7. AwaitFaithful'
    BY ConstantsOK, <1>1, <1>2, <1>4 DEF Deliver, AwaitFaithful
  <2>8. ResultAwaits'
    BY ConstantsOK, <1>1, <1>2, <1>4 DEF Deliver, ResultAwaits
  <2> QED
    BY <2>1, <2>2, <2>3, <2>4, <2>5, <2>6, <2>7, <2>8
<1> QED
  BY <1>3, <1>4 DEF NoChild

\* The first read of processChildReturn preserves IInv.
LEMMA ReadSizeInv ==
    ASSUME IInv, NEW p \in Proc, ReadSize(p)
    PROVE  IInv'
<1> USE DEF IInv, TypeOK, NotReturned, InAwait, Control
<1> DEFINE h == awaiting[p]
<1>1. /\ h \in Proc /\ h # p /\ pc[p] = "readSize"
      /\ pc[h] \in {"nofork", "reaped"}
      /\ pipe[h] \in Seq(Message) /\ pipe[h] # <<>>
      /\ \A q \in Proc : awaiting[q] = h => q = p
  BY ReaderFacts DEF ReadSize
<1>2. /\ UNCHANGED <<ppid, handles, writeEnds, pipeReturn, result, reset,
                     awaiting, status, got>>
      /\ pc' = [pc EXCEPT ![p] = "readBody"]
      /\ pipe' = [pipe EXCEPT ![h] = Tail(pipe[h])]
  BY DEF ReadSize, fds
<1> HIDE DEF h
<1>3. /\ Tail(pipe[h]) \in Seq(Message)
      /\ Len(Tail(pipe[h])) = Len(pipe[h]) - 1 /\ Len(pipe[h]) \in Nat
      /\ \A i \in 1..Len(Tail(pipe[h])) : Tail(pipe[h])[i] = pipe[h][i + 1]
  BY <1>1, HeadTailProperties, LenProperties
<1>4. TypeOK'
  BY ConstantsOK, <1>1, <1>2, <1>3 DEF Unsent, Sending, Owned, Reading, Carried, AwaitFaithful, ResultAwaits
<1>5. Unsent'
  BY ConstantsOK, <1>1, <1>2, <1>3 DEF Unsent, Sending, Owned, Reading, Carried, AwaitFaithful, ResultAwaits
<1>6. Sending'
  BY ConstantsOK, <1>1, <1>2, <1>3 DEF Unsent, Sending, Owned, Reading, Carried, AwaitFaithful, ResultAwaits
<1>7. Owned'
  BY ConstantsOK, <1>1, <1>2, <1>3 DEF Unsent, Sending, Owned, Reading, Carried, AwaitFaithful, ResultAwaits
<1>8. Reading'
  BY ConstantsOK, <1>1, <1>2, <1>3 DEF Unsent, Sending, Owned, Reading, Carried, AwaitFaithful, ResultAwaits
<1>9. Carried'
  BY ConstantsOK, <1>1, <1>2, <1>3 DEF Unsent, Sending, Owned, Reading, Carried, AwaitFaithful, ResultAwaits
<1>10. AwaitFaithful'
  BY ConstantsOK, <1>1, <1>2, <1>3 DEF Unsent, Sending, Owned, Reading, Carried, AwaitFaithful, ResultAwaits
<1>11. ResultAwaits'
  <2> SUFFICES ASSUME NEW g \in Proc, status[g] = "ok", result[g] \in Value, got[g] = None
               PROVE  pipe'[g] = IF \E q \in Proc : pc'[q] = "readBody" /\ awaiting[q] = g
                                 THEN <<BodyPart(result[g])>> ELSE Whole(result[g])
    BY <1>2 DEF ResultAwaits
  <2>1. CASE g = h
    <3>1. pipe[g] = Whole(result[g])
      BY <1>1, <2>1 DEF ResultAwaits
    <3>2. pipe'[g] = <<BodyPart(result[g])>>
      BY <1>1, <1>2, <2>1, <3>1, MessageFacts
    <3> QED
      BY <1>1, <1>2, <2>1, <3>2 DEF h
  <2>2. CASE g # h
    BY <1>1, <1>2, <2>2 DEF ResultAwaits, h
  <2> QED
    BY <2>1, <2>2
<1> QED
  BY <1>4, <1>5, <1>6, <1>7, <1>8, <1>9, <1>10, <1>11

\* The second read preserves IInv: what it delivers is the result of the call.
LEMMA ReadBodyInv ==
    ASSUME IInv, NEW p \in Proc, ReadBody(p)
    PROVE  IInv'
<1> USE DEF IInv, TypeOK, NotReturned, InAwait, Control
<1> DEFINE h == awaiting[p]
           v == Head(pipe[h]).val
<1>1. /\ h \in Proc /\ h # p /\ pc[p] = "readBody"
      /\ pc[h] \in {"nofork", "reaped"}
      /\ pipe[h] \in Seq(Message) /\ pipe[h] # <<>>
      /\ \A q \in Proc : awaiting[q] = h => q = p
  BY ReaderFacts DEF ReadBody
<1>2. /\ UNCHANGED <<ppid, handles, writeEnds, pipeReturn, result, reset, status>>
      /\ pc' = [pc EXCEPT ![p] = "run"]
      /\ pipe' = [pipe EXCEPT ![h] = Tail(pipe[h])]
      /\ got' = [got EXCEPT ![h] = v]
      /\ awaiting' = [awaiting EXCEPT ![p] = None]
  BY DEF ReadBody, Deliver, fds
<1>3. /\ Tail(pipe[h]) \in Seq(Message)
      /\ Len(Tail(pipe[h])) = Len(pipe[h]) - 1 /\ Len(pipe[h]) \in Nat
      /\ \A i \in 1..Len(Tail(pipe[h])) : Tail(pipe[h])[i] = pipe[h][i + 1]
  BY <1>1, HeadTailProperties, LenProperties
<1>4. v \in Value /\ v = result[h]
  <2>1. v \in Value
    <3>1. Head(pipe[h]) \in Message
      BY <1>1, HeadTailProperties
    <3> QED
      BY <3>1 DEF Message
  <2>2. 1 \in 1..Len(pipe[h]) /\ Head(pipe[h]) = pipe[h][1]
    BY <1>1, EmptySeq
  <2> QED
    BY <1>1, <2>1, <2>2 DEF Carried
<1> HIDE DEF v
<1>5. TypeOK'
  BY ConstantsOK, <1>1, <1>2, <1>3, <1>4 DEF Unsent, Sending, Owned, Reading, Carried, AwaitFaithful, ResultAwaits
<1>6. Unsent'
  BY ConstantsOK, <1>1, <1>2, <1>3, <1>4 DEF Unsent, Sending, Owned, Reading, Carried, AwaitFaithful, ResultAwaits
<1>7. Sending'
  BY ConstantsOK, <1>1, <1>2, <1>3, <1>4 DEF Unsent, Sending, Owned, Reading, Carried, AwaitFaithful, ResultAwaits
<1>8. Owned'
  BY ConstantsOK, <1>1, <1>2, <1>3, <1>4 DEF Unsent, Sending, Owned, Reading, Carried, AwaitFaithful, ResultAwaits
<1>9. Reading'
  BY ConstantsOK, <1>1, <1>2, <1>3, <1>4 DEF Unsent, Sending, Owned, Reading, Carried, AwaitFaithful, ResultAwaits
<1>10. Carried'
  BY ConstantsOK, <1>1, <1>2, <1>3, <1>4 DEF Unsent, Sending, Owned, Reading, Carried, AwaitFaithful, ResultAwaits
<1>11. AwaitFaithful'
  BY ConstantsOK, <1>1, <1>2, <1>3, <1>4 DEF Unsent, Sending, Owned, Reading, Carried, AwaitFaithful, ResultAwaits
<1>12. ResultAwaits'
  <2> SUFFICES ASSUME NEW g \in Proc, status[g] = "ok", result[g] \in Value, got'[g] = None
               PROVE  pipe'[g] = IF \E q \in Proc : pc'[q] = "readBody" /\ awaiting'[q] = g
                                 THEN <<BodyPart(result[g])>> ELSE Whole(result[g])
    BY <1>2 DEF ResultAwaits
  <2>1. g # h /\ got[g] = None /\ pipe'[g] = pipe[g]
    BY ConstantsOK, <1>1, <1>2, <1>4
  <2>2. \A q \in Proc : (pc'[q] = "readBody" /\ awaiting'[q] = g)
                           <=> (pc[q] = "readBody" /\ awaiting[q] = g)
    BY <1>1, <1>2, <2>1
  <2> QED
    BY <2>1, <2>2 DEF ResultAwaits
<1> QED
  BY <1>5, <1>6, <1>7, <1>8, <1>9, <1>10, <1>11, <1>12

\* Reads that find the end of the pipe preserve IInv: no value is delivered.
LEMMA ReadGarbageInv ==
    ASSUME IInv, NEW p \in Proc, ReadGarbage(p)
    PROVE  IInv'
<1> USE DEF IInv, TypeOK, NotReturned, InAwait, Control
<1> DEFINE h == awaiting[p]
<1>1. /\ h \in Proc /\ h # p /\ pc[p] \in {"readSize", "readBody"}
      /\ pc[h] \in {"nofork", "reaped"}
      /\ pipe[h] = <<>>
      /\ \A q \in Proc : awaiting[q] = h => q = p
  BY ReaderFacts DEF ReadGarbage
<1>2. UNCHANGED <<ppid, handles, writeEnds, pipeReturn, pipe, result>>
  BY DEF ReadGarbage, fds
<1>3. ~ (status[h] = "ok" /\ result[h] \in Value /\ got[h] = None)
  <2> SUFFICES ASSUME status[h] = "ok", result[h] \in Value, got[h] = None
               PROVE  FALSE
    OBVIOUS
  <2>1. pipe[h] = Whole(result[h]) \/ pipe[h] = <<BodyPart(result[h])>>
    BY <1>1 DEF ResultAwaits
  <2> QED
    BY <1>1, <2>1, MessageFacts
<1>4. CASE Exit(p, "killed") /\ UNCHANGED <<awaiting, got, reset>>
  <2>1. /\ pc' = [pc EXCEPT ![p] = "zombie"]
        /\ status' = [status EXCEPT ![p] = "killed"]
        /\ UNCHANGED <<awaiting, got, reset>>
    BY <1>4 DEF Exit
  <2>2. TypeOK'
    BY ConstantsOK, <1>1, <1>2, <1>3, <2>1 DEF Unsent, Sending, Owned, Reading, Carried, AwaitFaithful, ResultAwaits
  <2>3. Unsent'
    BY ConstantsOK, <1>1, <1>2, <1>3, <2>1 DEF Unsent, Sending, Owned, Reading, Carried, AwaitFaithful, ResultAwaits
  <2>4. Sending'
    BY ConstantsOK, <1>1, <1>2, <1>3, <2>1 DEF Unsent, Sending, Owned, Reading, Carried, AwaitFaithful, ResultAwaits
  <2>5. Owned'
    BY ConstantsOK, <1>1, <1>2, <1>3, <2>1 DEF Unsent, Sending, Owned, Reading, Carried, AwaitFaithful, ResultAwaits
  <2>6. Reading'
    BY ConstantsOK, <1>1, <1>2, <1>3, <2>1 DEF Unsent, Sending, Owned, Reading, Carried, AwaitFaithful, ResultAwaits
  <2>7. Carried'
    BY ConstantsOK, <1>1, <1>2, <1>3, <2>1 DEF Unsent, Sending, Owned, Reading, Carried, AwaitFaithful, ResultAwaits
  <2>8. AwaitFaithful'
    BY ConstantsOK, <1>1, <1>2, <1>3, <2>1 DEF Unsent, Sending, Owned, Reading, Carried, AwaitFaithful, ResultAwaits
  <2>9. ResultAwaits'
    BY ConstantsOK, <1>1, <1>2, <1>3, <2>1 DEF Unsent, Sending, Owned, Reading, Carried, AwaitFaithful, ResultAwaits
  <2> QED
    BY <2>2, <2>3, <2>4, <2>5, <2>6, <2>7, <2>8, <2>9
<1>5. CASE /\ pc' = [pc EXCEPT ![p] = "run"]
           /\ Deliver(p, Undefined)
           /\ \E r \in {reset[p], TRUE} : reset' = [reset EXCEPT ![p] = r]
           /\ UNCHANGED status
  <2>1. /\ pc' = [pc EXCEPT ![p] = "run"]
        /\ got' = [got EXCEPT ![h] = Undefined]
        /\ awaiting' = [awaiting EXCEPT ![p] = None]
        /\ UNCHANGED status
    BY <1>5 DEF Deliver
  <2>2. reset' \in [Proc -> BOOLEAN]
    BY <1>5
  <2>3. TypeOK'
    BY ConstantsOK, <1>1, <1>2, <1>3, <2>1, <2>2 DEF Unsent, Sending, Owned, Reading, Carried, AwaitFaithful, ResultAwaits
  <2>4. Unsent'
    BY ConstantsOK, <1>1, <1>2, <1>3, <2>1, <2>2 DEF Unsent, Sending, Owned, Reading, Carried, AwaitFaithful, ResultAwaits
  <2>5. Sending'
    BY ConstantsOK, <1>1, <1>2, <1>3, <2>1, <2>2 DEF Unsent, Sending, Owned, Reading, Carried, AwaitFaithful, ResultAwaits
  <2>6. Owned'
    BY ConstantsOK, <1>1, <1>2, <1>3, <2>1, <2>2 DEF Unsent, Sending, Owned, Reading, Carried, AwaitFaithful, ResultAwaits
  <2>7. Reading'
    BY ConstantsOK, <1>1, <1>2, <1>3, <2>1, <2>2 DEF Unsent, Sending, Owned, Reading, Carried, AwaitFaithful, ResultAwaits
  <2>8. Carried'
    BY ConstantsOK, <1>1, <1>2, <1>3, <2>1, <2>2 DEF Unsent, Sending, Owned, Reading, Carried, AwaitFaithful, ResultAwaits
  <2>9. AwaitFaithful'
    BY ConstantsOK, <1>1, <1>2, <1>3, <2>1, <2>2 DEF Unsent, Sending, Owned, Reading, Carried, AwaitFaithful, ResultAwaits
  <2>10. ResultAwaits'
    BY ConstantsOK, <1>1, <1>2, <1>3, <2>1, <2>2 DEF Unsent, Sending, Owned, Reading, Carried, AwaitFaithful, ResultAwaits
  <2> QED
    BY <2>3, <2>4, <2>5, <2>6, <2>7, <2>8, <2>9, <2>10
<1> QED
  BY <1>4, <1>5 DEF ReadGarbage

\* The first write of writeChildResult preserves IInv.
LEMMA SendSizeInv ==
    ASSUME IInv, NEW p \in Proc, SendSize(p)
    PROVE  IInv'
<1> USE DEF IInv, TypeOK, NotReturned, InAwait, Control
<1>1. /\ pc[p] = "sendSize" /\ pipeReturn[p] = p /\ result[p] \in Value
      /\ got[p] \notin Value /\ status[p] = "alive" /\ pipe[p] = <<>>
  BY DEF SendSize, Sending
<1>2. UNCHANGED <<ppid, handles, writeEnds, pipeReturn, result, reset, awaiting, got>>
  BY DEF SendSize, fds
<1>3. CASE HasReader(p)
  <2>1. /\ pipe' = [pipe EXCEPT ![p] = <<SizePart(result[p])>>]
        /\ pc' = [pc EXCEPT ![p] = "sendBody"]
        /\ UNCHANGED status
    BY <1>1, <1>3, MessageFacts DEF SendSize, Write, SizePart
  <2>2. TypeOK'
    BY ConstantsOK, <1>1, <1>2, <2>1, MessageFacts DEF Unsent, Sending, Owned, Reading, Carried, AwaitFaithful, ResultAwaits
  <2>3. Unsent'
    BY ConstantsOK, <1>1, <1>2, <2>1, MessageFacts DEF Unsent, Sending, Owned, Reading, Carried, AwaitFaithful, ResultAwaits
  <2>4. Sending'
    BY ConstantsOK, <1>1, <1>2, <2>1, MessageFacts DEF Unsent, Sending, Owned, Reading, Carried, AwaitFaithful, ResultAwaits
  <2>5. Owned'
    BY ConstantsOK, <1>1, <1>2, <2>1, MessageFacts DEF Unsent, Sending, Owned, Reading, Carried, AwaitFaithful, ResultAwaits
  <2>6. Reading'
    BY ConstantsOK, <1>1, <1>2, <2>1, MessageFacts DEF Unsent, Sending, Owned, Reading, Carried, AwaitFaithful, ResultAwaits
  <2>7. Carried'
    BY ConstantsOK, <1>1, <1>2, <2>1, MessageFacts DEF Unsent, Sending, Owned, Reading, Carried, AwaitFaithful, ResultAwaits
  <2>8. AwaitFaithful'
    BY ConstantsOK, <1>1, <1>2, <2>1, MessageFacts DEF Unsent, Sending, Owned, Reading, Carried, AwaitFaithful, ResultAwaits
  <2>9. ResultAwaits'
    <3> SUFFICES ASSUME NEW g \in Proc, status[g] = "ok", result[g] \in Value, got[g] = None
                 PROVE  pipe'[g] = IF \E q \in Proc : pc'[q] = "readBody" /\ awaiting[q] = g
                                   THEN <<BodyPart(result[g])>> ELSE Whole(result[g])
      BY <1>2, <2>1 DEF ResultAwaits
    <3>1. \A q \in Proc : (pc'[q] = "readBody") <=> (pc[q] = "readBody")
      BY <1>1, <2>1
    <3>2. g # p /\ pipe'[g] = pipe[g]
      BY <1>1, <2>1
    <3> QED
      BY <3>1, <3>2 DEF ResultAwaits
  <2> QED
    BY <2>2, <2>3, <2>4, <2>5, <2>6, <2>7, <2>8, <2>9
<1>4. CASE ~ HasReader(p)
  <2>1. /\ UNCHANGED pipe
        /\ pc' = [pc EXCEPT ![p] = "zombie"]
        /\ status' = [status EXCEPT ![p] = "killed"]
    BY <1>1, <1>4 DEF SendSize, Write, Exit
  <2>2. TypeOK'
    BY ConstantsOK, <1>1, <1>2, <2>1 DEF Unsent, Sending, Owned, Reading, Carried, AwaitFaithful, ResultAwaits
  <2>3. Unsent'
    BY ConstantsOK, <1>1, <1>2, <2>1 DEF Unsent, Sending, Owned, Reading, Carried, AwaitFaithful, ResultAwaits
  <2>4. Sending'
    BY ConstantsOK, <1>1, <1>2, <2>1 DEF Unsent, Sending, Owned, Reading, Carried, AwaitFaithful, ResultAwaits
  <2>5. Owned'
    BY ConstantsOK, <1>1, <1>2, <2>1 DEF Unsent, Sending, Owned, Reading, Carried, AwaitFaithful, ResultAwaits
  <2>6. Reading'
    BY ConstantsOK, <1>1, <1>2, <2>1 DEF Unsent, Sending, Owned, Reading, Carried, AwaitFaithful, ResultAwaits
  <2>7. Carried'
    BY ConstantsOK, <1>1, <1>2, <2>1 DEF Unsent, Sending, Owned, Reading, Carried, AwaitFaithful, ResultAwaits
  <2>8. AwaitFaithful'
    BY ConstantsOK, <1>1, <1>2, <2>1 DEF Unsent, Sending, Owned, Reading, Carried, AwaitFaithful, ResultAwaits
  <2>9. ResultAwaits'
    BY ConstantsOK, <1>1, <1>2, <2>1 DEF Unsent, Sending, Owned, Reading, Carried, AwaitFaithful, ResultAwaits
  <2> QED
    BY <2>2, <2>3, <2>4, <2>5, <2>6, <2>7, <2>8, <2>9
<1> QED
  BY <1>3, <1>4

\* The second write preserves IInv: the message is whole when its writer ends.
LEMMA SendBodyInv ==
    ASSUME IInv, NEW p \in Proc, SendBody(p)
    PROVE  IInv'
<1> USE DEF IInv, TypeOK, NotReturned, InAwait, Control
<1>1. /\ pc[p] = "sendBody" /\ pipeReturn[p] = p /\ result[p] \in Value
      /\ got[p] \notin Value /\ status[p] = "alive"
      /\ pipe[p] = <<SizePart(result[p])>>
  BY DEF SendBody, Sending
<1>2. UNCHANGED <<ppid, handles, writeEnds, pipeReturn, result, reset, awaiting, got>>
  BY DEF SendBody, fds
<1>3. CASE HasReader(p)
  <2>1. /\ pipe' = [pipe EXCEPT ![p] = Whole(result[p])]
        /\ pc' = [pc EXCEPT ![p] = "zombie"]
        /\ status' = [status EXCEPT ![p] = "ok"]
    <3>1. /\ pipe' = [pipe EXCEPT ![p] = Append(pipe[p], BodyPart(result[p]))]
          /\ pc' = [pc EXCEPT ![p] = "zombie"]
          /\ status' = [status EXCEPT ![p] = "ok"]
      BY <1>1, <1>3 DEF SendBody, Write, BodyPart, Exit
    <3>2. Append(pipe[p], BodyPart(result[p])) = Whole(result[p])
      BY <1>1, MessageFacts
    <3> QED
      BY <3>1, <3>2
  <2>2. TypeOK'
    BY ConstantsOK, <1>1, <1>2, <2>1, MessageFacts DEF Unsent, Sending, Owned, Reading, Carried, AwaitFaithful, ResultAwaits
  <2>3. Unsent'
    BY ConstantsOK, <1>1, <1>2, <2>1, MessageFacts DEF Unsent, Sending, Owned, Reading, Carried, AwaitFaithful, ResultAwaits
  <2>4. Sending'
    BY ConstantsOK, <1>1, <1>2, <2>1, MessageFacts DEF Unsent, Sending, Owned, Reading, Carried, AwaitFaithful, ResultAwaits
  <2>5. Owned'
    BY ConstantsOK, <1>1, <1>2, <2>1, MessageFacts DEF Unsent, Sending, Owned, Reading, Carried, AwaitFaithful, ResultAwaits
  <2>6. Reading'
    BY ConstantsOK, <1>1, <1>2, <2>1, MessageFacts DEF Unsent, Sending, Owned, Reading, Carried, AwaitFaithful, ResultAwaits
  <2>7. Carried'
    BY ConstantsOK, <1>1, <1>2, <2>1, MessageFacts DEF Unsent, Sending, Owned, Reading, Carried, AwaitFaithful, ResultAwaits
  <2>8. AwaitFaithful'
    BY ConstantsOK, <1>1, <1>2, <2>1, MessageFacts DEF Unsent, Sending, Owned, Reading, Carried, AwaitFaithful, ResultAwaits
  <2>9. ResultAwaits'
    BY ConstantsOK, <1>1, <1>2, <2>1, MessageFacts DEF Unsent, Sending, Owned, Reading, Carried, AwaitFaithful, ResultAwaits
  <2> QED
    BY <2>2, <2>3, <2>4, <2>5, <2>6, <2>7, <2>8, <2>9
<1>4. CASE ~ HasReader(p)
  <2>1. /\ UNCHANGED pipe
        /\ pc' = [pc EXCEPT ![p] = "zombie"]
        /\ status' = [status EXCEPT ![p] = "killed"]
    BY <1>1, <1>4 DEF SendBody, Write, Exit
  <2>2. TypeOK'
    BY ConstantsOK, <1>1, <1>2, <2>1 DEF Unsent, Sending, Owned, Reading, Carried, AwaitFaithful, ResultAwaits
  <2>3. Unsent'
    BY ConstantsOK, <1>1, <1>2, <2>1 DEF Unsent, Sending, Owned, Reading, Carried, AwaitFaithful, ResultAwaits
  <2>4. Sending'
    BY ConstantsOK, <1>1, <1>2, <2>1 DEF Unsent, Sending, Owned, Reading, Carried, AwaitFaithful, ResultAwaits
  <2>5. Owned'
    BY ConstantsOK, <1>1, <1>2, <2>1 DEF Unsent, Sending, Owned, Reading, Carried, AwaitFaithful, ResultAwaits
  <2>6. Reading'
    BY ConstantsOK, <1>1, <1>2, <2>1 DEF Unsent, Sending, Owned, Reading, Carried, AwaitFaithful, ResultAwaits
  <2>7. Carried'
    BY ConstantsOK, <1>1, <1>2, <2>1 DEF Unsent, Sending, Owned, Reading, Carried, AwaitFaithful, ResultAwaits
  <2>8. AwaitFaithful'
    BY ConstantsOK, <1>1, <1>2, <2>1 DEF Unsent, Sending, Owned, Reading, Carried, AwaitFaithful, ResultAwaits
  <2>9. ResultAwaits'
    BY ConstantsOK, <1>1, <1>2, <2>1 DEF Unsent, Sending, Owned, Reading, Carried, AwaitFaithful, ResultAwaits
  <2> QED
    BY <2>2, <2>3, <2>4, <2>5, <2>6, <2>7, <2>8, <2>9
<1> QED
  BY <1>3, <1>4

\* The end of the script preserves IInv.
LEMMA ReturnScriptInv ==
    ASSUME IInv, NEW p \in Proc, ReturnScript(p)
    PROVE  IInv'
<1> USE DEF IInv, TypeOK, NotReturned, InAwait, Control, fds, ReturnScript, Exit
<1>1. TypeOK'
  BY ConstantsOK
<1>2. Unsent'
  BY ConstantsOK DEF Unsent
<1>3. Sending'
  BY ConstantsOK DEF Sending
<1>4. Owned'
  BY ConstantsOK DEF Owned
<1>5. Reading'
  BY ConstantsOK DEF Reading
<1>6. Carried'
  BY ConstantsOK DEF Carried
<1>7. AwaitFaithful'
  BY ConstantsOK DEF AwaitFaithful
<1>8. ResultAwaits'
  BY ConstantsOK DEF ResultAwaits, Unsent
<1> QED
  BY <1>1, <1>2, <1>3, <1>4, <1>5, <1>6, <1>7, <1>8

\* OP_RETURN of a value that can be sent preserves IInv.
LEMMA ReturnValueInv ==
    ASSUME IInv, NEW p \in Proc, NEW v \in Value, ReturnValue(p, v)
    PROVE  IInv'
<1> USE DEF IInv, TypeOK, NotReturned, InAwait, Control, fds, ReturnValue
<1>1. TypeOK'
  BY ConstantsOK
<1>2. Unsent'
  BY ConstantsOK DEF Unsent
<1>3. Sending'
  BY ConstantsOK DEF Sending, Unsent, Owned
<1>4. Owned'
  BY ConstantsOK DEF Owned
<1>5. Reading'
  BY ConstantsOK DEF Reading
<1>6. Carried'
  BY ConstantsOK DEF Carried, Unsent
<1>7. AwaitFaithful'
  BY ConstantsOK DEF AwaitFaithful, Unsent
<1>8. ResultAwaits'
  BY ConstantsOK DEF ResultAwaits, Unsent
<1> QED
  BY <1>1, <1>2, <1>3, <1>4, <1>5, <1>6, <1>7, <1>8

\* OP_RETURN of a value that cannot be sent preserves IInv.
LEMMA ReturnOpaqueInv ==
    ASSUME IInv, NEW p \in Proc, NEW o \in Opaque, ReturnOpaque(p, o)
    PROVE  IInv'
<1> USE DEF IInv, TypeOK, NotReturned, InAwait, Control, fds, ReturnOpaque, Exit
<1>1. TypeOK'
  BY ConstantsOK
<1>2. Unsent'
  BY ConstantsOK DEF Unsent
<1>3. Sending'
  BY ConstantsOK DEF Sending
<1>4. Owned'
  BY ConstantsOK DEF Owned
<1>5. Reading'
  BY ConstantsOK DEF Reading
<1>6. Carried'
  BY ConstantsOK DEF Carried, Unsent
<1>7. AwaitFaithful'
  BY ConstantsOK DEF AwaitFaithful, Unsent
<1>8. ResultAwaits'
  BY ConstantsOK DEF ResultAwaits
<1> QED
  BY <1>1, <1>2, <1>3, <1>4, <1>5, <1>6, <1>7, <1>8

\* An error that ends the process preserves IInv.
LEMMA RuntimeErrorInv ==
    ASSUME IInv, NEW p \in Proc, RuntimeError(p)
    PROVE  IInv'
<1> USE DEF IInv, TypeOK, NotReturned, InAwait, Control, fds, RuntimeError, Exit
<1>1. TypeOK'
  BY ConstantsOK
<1>2. Unsent'
  BY ConstantsOK DEF Unsent
<1>3. Sending'
  BY ConstantsOK DEF Sending
<1>4. Owned'
  BY ConstantsOK DEF Owned
<1>5. Reading'
  BY ConstantsOK DEF Reading
<1>6. Carried'
  BY ConstantsOK DEF Carried
<1>7. AwaitFaithful'
  BY ConstantsOK DEF AwaitFaithful
<1>8. ResultAwaits'
  BY ConstantsOK DEF ResultAwaits
<1> QED
  BY <1>1, <1>2, <1>3, <1>4, <1>5, <1>6, <1>7, <1>8

\* A crash preserves IInv.
LEMMA CrashInv ==
    ASSUME IInv, NEW p \in Proc, Crash(p)
    PROVE  IInv'
<1> USE DEF IInv, TypeOK, NotReturned, InAwait, Control, fds, Crash, Exit
<1>1. TypeOK'
  BY ConstantsOK
<1>2. Unsent'
  BY ConstantsOK DEF Unsent
<1>3. Sending'
  BY ConstantsOK DEF Sending
<1>4. Owned'
  BY ConstantsOK DEF Owned
<1>5. Reading'
  BY ConstantsOK DEF Reading
<1>6. Carried'
  BY ConstantsOK DEF Carried
<1>7. AwaitFaithful'
  BY ConstantsOK DEF AwaitFaithful
<1>8. ResultAwaits'
  BY ConstantsOK DEF ResultAwaits
<1> QED
  BY <1>1, <1>2, <1>3, <1>4, <1>5, <1>6, <1>7, <1>8

-----------------------------------------------------------------------------
\* IInv holds of a VM that has made no call.
LEMMA InitInv == Init => IInv
<1> SUFFICES ASSUME Init PROVE IInv
  OBVIOUS
<1> USE DEF Init
<1>1. TypeOK
  BY ConstantsOK DEF TypeOK, Control
<1>2. Unsent /\ Sending /\ Owned /\ Reading
  BY ConstantsOK DEF Unsent, Sending, Owned, Reading, NotReturned, InAwait
<1>3. Carried /\ AwaitFaithful /\ ResultAwaits
  BY ConstantsOK DEF Carried, AwaitFaithful, ResultAwaits
<1> QED
  BY <1>1, <1>2, <1>3 DEF IInv

\* Every step preserves IInv.
LEMMA StepInv == IInv /\ [Next]_vars => IInv'
<1> SUFFICES ASSUME IInv, [Next]_vars PROVE IInv'
  OBVIOUS
<1>1. ASSUME NEW p \in Proc, Advance(p) PROVE IInv'
  BY <1>1, SendSizeInv, SendBodyInv, ReapInv, NoChildInv, ReadSizeInv,
     ReadBodyInv, ReadGarbageInv, CrashInv DEF Advance
<1>2. ASSUME NEW p \in Proc, Program(p) PROVE IInv'
  BY <1>2, SpawnInv, SpawnFailsInv, AwaitRejectedInv, AwaitStartInv,
     ReturnScriptInv, ReturnValueInv, ReturnOpaqueInv, RuntimeErrorInv,
     CrashInv DEF Program
<1>3. CASE UNCHANGED vars
  BY <1>3 DEF vars, IInv, TypeOK, Unsent, Sending, Owned, Reading, Carried,
              AwaitFaithful, ResultAwaits
<1> QED
  BY <1>1, <1>2, <1>3 DEF Next, Finished

\* Whatever the program does, IInv holds of every state it reaches.
THEOREM Invariance == Spec => []IInv
  BY InitInv, StepInv, PTL DEF Spec

\* The variables keep their types.
THEOREM TypeCorrect == Spec => []TypeOK
<1>1. IInv => TypeOK
  BY DEF IInv
<1> QED
  BY <1>1, Invariance, PTL

\* An await delivers no value but the one its own callee returned
\* (processChildReturn reads what writeChildResult of that callee wrote).
THEOREM AwaitsFaithfully == Spec => []AwaitFaithful
<1>1. IInv => AwaitFaithful
  BY DEF IInv
<1> QED
  BY <1>1, Invariance, PTL

\* The result of a call that ended well stays whole in its pipe until its
\* first await has read it (waitpid before read, both writes before exit).
THEOREM ResultsAwait == Spec => []ResultAwaits
<1>1. IInv => ResultAwaits
  BY DEF IInv
<1> QED
  BY <1>1, Invariance, PTL

\* No two processes are ever inside an await of the same handle (the ppid
\* check of processChildReturn).
THEOREM ReadsExclusively == Spec => []ExclusiveReader
<1>1. IInv => ExclusiveReader
  BY ConstantsOK DEF IInv, Owned, ExclusiveReader
<1> QED
  BY <1>1, Invariance, PTL

-----------------------------------------------------------------------------
(* AsyncProcess implements AsyncCall: what processes, pipes and wait       *)
(* statuses do is what `async` and `await` promise.                        *)
(*                                                                         *)
(* IInv says what is in a pipe.  What an await delivers when it reads      *)
(* nothing depends on how the callee ended, on who has collected it and on *)
(* whether its parent is still there: History says that.                   *)

Dead == {"zombie", "reaped"}
Reader == {"readSize", "readBody"}

Unforked == \E u \in Proc : pc[u] = "nofork"

\* The process that the shell started answers to nobody.
Genesis ==
    /\ pc[Root] \notin {"unborn", "nofork"}
    /\ ppid[Root] = None /\ pipeReturn[Root] = None /\ result[Root] = None

\* A call has a parent, which holds its read end for ever, and its process a
\* descriptor of its own.
Forked ==
    \A c \in Proc \ {Root} : pc[c] # "unborn" =>
        /\ ppid[c] \in Proc /\ c \in handles[ppid[c]]
        /\ pc[ppid[c]] \notin {"unborn", "nofork"}
        /\ pc[c] # "nofork" => pipeReturn[c] = c

\* A process that exits with 0 has returned something.  One that was killed
\* while it wrote its result has outlived its parent.
EndedWell(c) ==
    /\ status[c] # "alive"
    /\ status[c] = "ok" => result[c] # None
    /\ status[c] # "ok" => /\ result[c] \notin Opaque
                           /\ result[c] = None \/ pc[ppid[c]] \in Dead

Ended == \A c \in Proc \ {Root} : pc[c] \in Dead => EndedWell(c)

\* waitpid has collected a call for an await of its own handle, unless a fork
\* failed (waitpid(-1) collects any child).
CollectedWell(c) ==
    \/ got[c] # None \/ Unforked \/ pc[ppid[c]] \in Dead
    \/ pc[ppid[c]] \in Reader /\ awaiting[ppid[c]] = c

Collected == \A c \in Proc \ {Root} : pc[c] = "reaped" => CollectedWell(c)

\* A first await that reads has seen the callee exit with 0.
ReadsWell(p) == got[awaiting[p]] = None => Unforked \/ status[awaiting[p]] = "ok"

Reads == \A p \in Proc : pc[p] \in Reader => ReadsWell(p)

History == Genesis /\ Forked /\ Ended /\ Collected /\ Reads

-----------------------------------------------------------------------------
(* When the parts of History survive a step. *)

\* A process that has ended stays so, no handle changes hands.
Goes ==
    /\ ppid' = ppid
    /\ Unforked => Unforked'
    /\ \A q \in Proc : pc[q] \in Dead => pc'[q] \in Dead

\* Ended needs to be shown for a process that ends only.
LEMMA EndedKept ==
    ASSUME Ended, Goes,
           \A c \in Proc \ {Root} : pc'[c] \in Dead =>
               \/ pc[c] \in Dead /\ status'[c] = status[c] /\ result'[c] = result[c]
                  /\ ppid[c] \in Proc
               \/ EndedWell(c)'
    PROVE  Ended'
  BY DEF Ended, EndedWell, Goes

\* Collected needs to be shown for a process that is collected and for one
\* whose parent ends its read.
LEMMA CollectedKept ==
    ASSUME Collected, Goes,
           \A c \in Proc \ {Root} : pc'[c] = "reaped" =>
               \/ /\ pc[c] = "reaped" /\ ppid[c] \in Proc
                  /\ got[c] # None => got'[c] # None
                  /\ pc[ppid[c]] \in Reader /\ awaiting[ppid[c]] = c
                        => CollectedWell(c)'
               \/ CollectedWell(c)'
    PROVE  Collected'
  BY DEF Collected, CollectedWell, Goes

\* Reads needs to be shown for an await that begins to read.
LEMMA ReadsKept ==
    ASSUME Reads, Goes,
           \A p \in Proc : pc'[p] \in Reader =>
               \/ /\ pc[p] \in Reader /\ awaiting'[p] = awaiting[p]
                  /\ got[awaiting[p]] # None => got'[awaiting[p]] # None
                  /\ status'[awaiting[p]] = status[awaiting[p]]
               \/ ReadsWell(p)'
    PROVE  Reads'
  BY DEF Reads, ReadsWell, Goes

\* A fork gives the new call a parent, a read end and a descriptor.
LEMMA SpawnHistory ==
    ASSUME IInv, History, NEW p \in Proc, NEW c \in Proc, NEW callOk \in BOOLEAN, Spawn(p, c, callOk)
    PROVE  History'
<1> USE ConstantsOK DEF IInv, TypeOK, Owned, Control, InAwait, History, Dead, Reader, Unforked,
        fds, Spawn
<1>1. Genesis'
  BY DEF Genesis
<1>2. Forked'
  <2> SUFFICES ASSUME NEW d \in Proc \ {Root}, pc'[d] # "unborn"
               PROVE  /\ ppid'[d] \in Proc /\ d \in handles'[ppid'[d]]
                      /\ pc'[ppid'[d]] \notin {"unborn", "nofork"}
                      /\ pc'[d] # "nofork" => pipeReturn'[d] = d
    BY DEF Forked
  <2>1. p # c /\ \A q \in Proc \ {c} : handles[q] \subseteq handles'[q]
    OBVIOUS
  <2>2. CASE d = c
    BY <2>1, <2>2
  <2>3. CASE d # c
    <3>1. /\ ppid'[d] = ppid[d] /\ pc'[d] = pc[d] /\ pipeReturn'[d] = pipeReturn[d]
          /\ ppid[d] \in Proc /\ d \in handles[ppid[d]]
          /\ pc[ppid[d]] \notin {"unborn", "nofork"}
          /\ pc[d] # "nofork" => pipeReturn[d] = d
      BY <2>3 DEF Forked
    <3>2. ppid[d] # c
      BY <3>1
    <3> QED
      BY <2>1, <3>1, <3>2
  <2> QED
    BY <2>2, <2>3
<1>3. Ended'
  BY DEF Genesis, Forked, Ended, EndedWell, Unsent, NotReturned
<1>4. Collected'
  BY DEF Genesis, Forked, Collected, CollectedWell
<1>5. Reads'
  BY DEF Reads, ReadsWell, Reading
<1> QED
  BY <1>1, <1>2, <1>3, <1>4, <1>5

\* A fork that fails gives it a parent and a read end.
LEMMA SpawnFailsHistory ==
    ASSUME IInv, History, NEW p \in Proc, NEW c \in Proc, SpawnFails(p, c)
    PROVE  History'
<1> USE ConstantsOK DEF IInv, TypeOK, Owned, Control, InAwait, History, Dead, Reader, Unforked,
        fds, SpawnFails
<1>1. Genesis'
  BY DEF Genesis
<1>2. Forked'
  BY DEF Genesis, Forked
<1>3. Ended'
  BY DEF Genesis, Forked, Ended, EndedWell, Unsent, NotReturned
<1>4. Collected'
  BY DEF Genesis, Forked, Collected, CollectedWell
<1>5. Reads'
  BY DEF Reads, ReadsWell, Reading
<1> QED
  BY <1>1, <1>2, <1>3, <1>4, <1>5

\* An await that is refused touches no process.
LEMMA AwaitRejectedHistory ==
    ASSUME IInv, History, NEW p \in Proc, AwaitRejected(p)
    PROVE  History'
<1> USE ConstantsOK DEF IInv, TypeOK, Owned, Control, InAwait, History, Dead, Reader, Unforked,
        fds, AwaitRejected
<1>1. Genesis'
  BY DEF Genesis
<1>2. Forked'
  BY DEF Genesis, Forked
<1>3. Ended'
  BY DEF Genesis, Forked, Ended, EndedWell, Unsent, NotReturned
<1>4. Collected'
  BY DEF Genesis, Forked, Collected, CollectedWell
<1>5. Reads'
  BY DEF Reads, ReadsWell, Reading
<1> QED
  BY <1>1, <1>2, <1>3, <1>4, <1>5

\* An await that begins has not read.
LEMMA AwaitStartHistory ==
    ASSUME IInv, History, NEW p \in Proc, NEW h \in Proc, AwaitStart(p, h)
    PROVE  History'
<1> USE ConstantsOK DEF IInv, TypeOK, Owned, Control, InAwait, History, Dead, Reader, Unforked,
        fds, AwaitStart
<1>1. Genesis'
  BY DEF Genesis
<1>2. Forked'
  BY DEF Genesis, Forked
<1>3. Ended'
  BY DEF Genesis, Forked, Ended, EndedWell, Unsent, NotReturned
<1>4. Collected'
  BY DEF Genesis, Forked, Collected, CollectedWell
<1>5. Reads'
  BY DEF Reads, ReadsWell, Reading
<1> QED
  BY <1>1, <1>2, <1>3, <1>4, <1>5

\* The read of the size leaves the handle to its reader.
LEMMA ReadSizeHistory ==
    ASSUME IInv, History, NEW p \in Proc, ReadSize(p)
    PROVE  History'
<1> USE ConstantsOK DEF IInv, TypeOK, Owned, Control, InAwait, History, Dead, Reader, Unforked,
        fds, ReadSize
<1>1. Genesis'
  BY DEF Genesis
<1>2. Forked'
  BY DEF Genesis, Forked
<1>3. Ended'
  BY DEF Genesis, Forked, Ended, EndedWell, Unsent, NotReturned
<1>4. Collected'
  BY DEF Genesis, Forked, Collected, CollectedWell
<1>5. Reads'
  BY DEF Reads, ReadsWell, Reading
<1> QED
  BY <1>1, <1>2, <1>3, <1>4, <1>5

\* The script answers to nobody.
LEMMA ReturnScriptHistory ==
    ASSUME IInv, History, NEW p \in Proc, ReturnScript(p)
    PROVE  History'
<1> USE ConstantsOK DEF IInv, TypeOK, Owned, Control, InAwait, History, Dead, Reader, Unforked,
        fds, ReturnScript, Exit
<1>1. Genesis'
  BY DEF Genesis
<1>2. Forked'
  BY DEF Genesis, Forked
<1>3. Ended'
  <2>1. p = Root
    BY DEF Forked
  <2> QED
    BY <2>1 DEF Genesis, Forked, Ended, EndedWell
<1>4. Collected'
  BY DEF Genesis, Forked, Collected, CollectedWell
<1>5. Reads'
  BY DEF Reads, ReadsWell, Reading
<1> QED
  BY <1>1, <1>2, <1>3, <1>4, <1>5

\* A callee that has returned has yet to end.
LEMMA ReturnValueHistory ==
    ASSUME IInv, History, NEW p \in Proc, NEW v \in Value, ReturnValue(p, v)
    PROVE  History'
<1> USE ConstantsOK DEF IInv, TypeOK, Owned, Control, InAwait, History, Dead, Reader, Unforked,
        fds, ReturnValue
<1>1. Genesis'
  BY DEF Genesis
<1>2. Forked'
  BY DEF Genesis, Forked
<1>3. Ended'
  BY DEF Genesis, Forked, Ended, EndedWell, Unsent, NotReturned
<1>4. Collected'
  BY DEF Genesis, Forked, Collected, CollectedWell
<1>5. Reads'
  BY DEF Reads, ReadsWell, Reading
<1> QED
  BY <1>1, <1>2, <1>3, <1>4, <1>5

\* A callee with a result that no pipe carries exits with 0.
LEMMA ReturnOpaqueHistory ==
    ASSUME IInv, History, NEW p \in Proc, NEW o \in Opaque, ReturnOpaque(p, o)
    PROVE  History'
<1> USE ConstantsOK DEF IInv, TypeOK, Owned, Control, InAwait, History, Dead, Reader, Unforked,
        fds, ReturnOpaque, Exit
<1>1. Genesis'
  BY DEF Genesis
<1>2. Forked'
  BY DEF Genesis, Forked
<1>3. Ended'
  BY DEF Genesis, Forked, Ended, EndedWell, Unsent, NotReturned
<1>4. Collected'
  BY DEF Genesis, Forked, Collected, CollectedWell
<1>5. Reads'
  BY DEF Reads, ReadsWell, Reading
<1> QED
  BY <1>1, <1>2, <1>3, <1>4, <1>5

\* An error ends a process without result.
LEMMA RuntimeErrorHistory ==
    ASSUME IInv, History, NEW p \in Proc, RuntimeError(p)
    PROVE  History'
<1> USE ConstantsOK DEF IInv, TypeOK, Owned, Control, InAwait, History, Dead, Reader, Unforked,
        fds, RuntimeError, Exit
<1>1. Genesis'
  BY DEF Genesis
<1>2. Forked'
  BY DEF Genesis, Forked
<1>3. Ended'
  BY DEF Genesis, Forked, Ended, EndedWell, Unsent, NotReturned
<1>4. Collected'
  BY DEF Genesis, Forked, Collected, CollectedWell
<1>5. Reads'
  <2>1. ASSUME NEW q \in Proc, pc'[q] \in Reader
        PROVE  pc[q] \in Reader /\ awaiting[q] \in Proc /\ awaiting[q] # p
    <3>1. pc[q] \in Reader
      BY <2>1
    <3>2. awaiting[q] \in Proc /\ pc[awaiting[q]] \in {"nofork", "reaped"}
      BY <3>1 DEF Reading
    <3>3. pc[p] \in {"run", "lost"}
      OBVIOUS
    <3> QED
      BY <3>1, <3>2, <3>3
  <2> QED
    BY <2>1 DEF Reads, ReadsWell
<1> QED
  BY <1>1, <1>2, <1>3, <1>4, <1>5

\* So does a crash.
LEMMA CrashHistory ==
    ASSUME IInv, History, NEW p \in Proc, Crash(p)
    PROVE  History'
<1> USE ConstantsOK DEF IInv, TypeOK, Owned, Control, InAwait, History, Dead, Reader, Unforked,
        fds, Crash, Exit
<1>1. Genesis'
  BY DEF Genesis
<1>2. Forked'
  BY DEF Genesis, Forked
<1>3. Ended'
  BY DEF Genesis, Forked, Ended, EndedWell, Unsent, NotReturned
<1>4. Collected'
  BY DEF Genesis, Forked, Collected, CollectedWell
<1>5. Reads'
  <2>1. ASSUME NEW q \in Proc, pc'[q] \in Reader
        PROVE  pc[q] \in Reader /\ awaiting[q] \in Proc /\ awaiting[q] # p
    <3>1. pc[q] \in Reader
      BY <2>1
    <3>2. awaiting[q] \in Proc /\ pc[awaiting[q]] \in {"nofork", "reaped"}
      BY <3>1 DEF Reading
    <3>3. pc[p] \in {"run", "lost"}
      OBVIOUS
    <3> QED
      BY <3>1, <3>2, <3>3
  <2>2. UNCHANGED <<awaiting, got>> /\ \A q \in Proc \ {p} : status'[q] = status[q]
    OBVIOUS
  <2>3. Unforked => Unforked'
    OBVIOUS
  <2> QED
    BY <2>1, <2>2, <2>3 DEF Reads, ReadsWell
<1> QED
  BY <1>1, <1>2, <1>3, <1>4, <1>5

\* A process that waitpid collects has been collected for its own handle.
LEMMA ReapHistory ==
    ASSUME IInv, History, NEW p \in Proc, NEW c \in Proc, Reap(p, c)
    PROVE  History'
<1> USE ConstantsOK DEF IInv, TypeOK, Control, InAwait, History, Dead, Reader
<1> DEFINE h == awaiting[p]
<1>1. /\ h \in Proc /\ ppid[h] = p /\ ppid[c] = p
      /\ pc[p] = "wait" /\ pc[c] = "zombie" /\ p # c
      /\ c = h \/ pc[h] = "nofork"
  BY DEF Owned, Reap, Awaited
<1>2. UNCHANGED <<ppid, handles, writeEnds, pipeReturn, pipe, result, reset, status>>
  BY DEF Reap, fds
<1>3. /\ pc' \in [Proc -> Control] /\ pc'[c] = "reaped"
      /\ \A q \in Proc \ {p, c} : pc'[q] = pc[q]
      /\ \/ /\ pc'[p] = "readSize" /\ status[c] = "ok"
            /\ awaiting' = awaiting /\ got' = got
         \/ /\ pc'[p] = "run"
            /\ got'[h] = Failed
            /\ \A q \in Proc : got[q] # None => got'[q] # None
            /\ \A q \in Proc \ {p} : awaiting'[q] = awaiting[q]
  <2>1. CASE status[c] = "ok"
    <3>1. /\ pc' = [pc EXCEPT ![p] = "readSize", ![c] = "reaped"]
          /\ awaiting' = awaiting /\ got' = got
      BY <2>1 DEF Reap
    <3> QED
      BY <1>1, <2>1, <3>1
  <2>2. CASE status[c] # "ok"
    <3>1. /\ pc' = [pc EXCEPT ![p] = "run", ![c] = "reaped"]
          /\ got' = [got EXCEPT ![h] = Failed]
          /\ awaiting' = [awaiting EXCEPT ![p] = None]
      BY <2>2 DEF Reap, Deliver
    <3> QED
      BY <1>1, <2>2, <3>1
  <2> QED
    BY <2>1, <2>2
<1> HIDE DEF h
<1>4. Goes
  BY <1>1, <1>2, <1>3 DEF Goes, Unforked
<1>5. Genesis'
  BY <1>1, <1>2, <1>3 DEF Genesis
<1>6. Forked'
  <2>1. \A q \in Proc : pc'[q] = pc[q] \/ {pc[q], pc'[q]} \cap {"unborn", "nofork"} = {}
    BY <1>1, <1>3
  <2> QED
    BY <1>2, <2>1 DEF Forked
<1>7. Ended'
  BY <1>1, <1>2, <1>3, <1>4, EndedKept DEF Ended, EndedWell, Forked
<1>8. Collected'
  <2> SUFFICES ASSUME NEW d \in Proc \ {Root}, pc'[d] = "reaped"
               PROVE  \/ /\ pc[d] = "reaped" /\ ppid[d] \in Proc
                         /\ got[d] # None => got'[d] # None
                         /\ pc[ppid[d]] \in Reader /\ awaiting[ppid[d]] = d
                              => CollectedWell(d)'
                      \/ CollectedWell(d)'
    BY <1>4, CollectedKept
  <2>1. CASE d = c
    <3>1. CASE pc[h] = "nofork"
      <4>1. h # p /\ h # c
        BY <1>1, <3>1
      <4> QED
        BY <1>1, <1>3, <3>1, <4>1 DEF CollectedWell, Unforked
    <3>2. CASE c = h
      BY <1>1, <1>2, <1>3, <2>1, <3>2 DEF CollectedWell, h
    <3> QED
      BY <1>1, <3>1, <3>2
  <2>2. CASE d # c
    <3>1. pc[d] = "reaped" /\ d # p /\ ppid[d] \in Proc
      BY <1>1, <1>3, <2>2 DEF Forked
    <3>2. got[d] # None => got'[d] # None
      BY <1>3
    <3>3. ASSUME pc[ppid[d]] \in Reader, awaiting[ppid[d]] = d
          PROVE  CollectedWell(d)'
      BY <1>1, <1>2, <1>3, <3>1, <3>3 DEF CollectedWell
    <3> QED
      BY <3>1, <3>2, <3>3
  <2> QED
    BY <2>1, <2>2
<1>9. Reads'
  <2> SUFFICES ASSUME NEW q \in Proc, pc'[q] \in Reader
               PROVE  \/ /\ pc[q] \in Reader /\ awaiting'[q] = awaiting[q]
                         /\ got[awaiting[q]] # None => got'[awaiting[q]] # None
                         /\ status'[awaiting[q]] = status[awaiting[q]]
                      \/ ReadsWell(q)'
    BY <1>4, ReadsKept
  <2>1. CASE q = p
    <3>1. CASE pc[h] = "nofork"
      <4>1. h # p /\ h # c
        BY <1>1, <3>1
      <4> QED
        BY <1>1, <1>3, <3>1, <4>1 DEF ReadsWell, Unforked
    <3>2. CASE c = h
      BY <1>1, <1>2, <1>3, <2>1, <3>2 DEF ReadsWell, h
    <3> QED
      BY <1>1, <3>1, <3>2
  <2>2. CASE q # p
    BY <1>1, <1>2, <1>3, <2>2 DEF Owned
  <2> QED
    BY <2>1, <2>2
<1> QED
  BY <1>5, <1>6, <1>7, <1>8, <1>9

\* A handle without a child left to wait for was awaited before.
LEMMA NoChildAwaited ==
    ASSUME IInv, History, NEW p \in Proc, NoChild(p)
    PROVE  got[awaiting[p]] # None \/ Unforked
<1> USE ConstantsOK DEF IInv, TypeOK, Control, InAwait, History, Dead, Reader
<1>1. awaiting[p] \in Proc /\ ppid[awaiting[p]] = p /\ pc[p] = "wait"
  BY DEF Owned, NoChild
<1>2. pc[awaiting[p]] \in {"nofork", "reaped"}
  BY <1>1 DEF NoChild, Awaited
<1>3. awaiting[p] # Root
  BY <1>1 DEF Genesis
<1> QED
  BY <1>1, <1>2, <1>3 DEF Collected, CollectedWell, Unforked

\* Nor does an await that finds no child change how any process ended.
LEMMA NoChildHistory ==
    ASSUME IInv, History, NEW p \in Proc, NoChild(p)
    PROVE  History'
<1> USE ConstantsOK DEF IInv, TypeOK, Control, InAwait, History, Dead, Reader
<1> DEFINE h == awaiting[p]
<1>1. h \in Proc /\ pc[p] = "wait" /\ (got[h] # None \/ Unforked)
  BY NoChildAwaited DEF Owned, NoChild
<1>2. UNCHANGED <<ppid, handles, writeEnds, pipeReturn, pipe, result, reset, status>>
  BY DEF NoChild, fds
<1>3. /\ pc' \in [Proc -> Control] /\ \A q \in Proc \ {p} : pc'[q] = pc[q]
      /\ \/ pc'[p] = "readSize" /\ awaiting' = awaiting /\ got' = got
         \/ /\ pc'[p] = "run"
            /\ \A q \in Proc : got[q] # None => got'[q] # None
            /\ \A q \in Proc \ {p} : awaiting'[q] = awaiting[q]
  BY <1>1 DEF NoChild, Deliver
<1> HIDE DEF h
<1>4. Goes
  BY <1>1, <1>2, <1>3 DEF Goes, Unforked
<1>5. Genesis'
  BY <1>1, <1>2, <1>3 DEF Genesis
<1>6. Forked'
  BY <1>1, <1>2, <1>3 DEF Forked
<1>7. Ended'
  BY <1>1, <1>2, <1>3, <1>4, EndedKept DEF Ended, EndedWell, Forked
<1>8. Collected'
  <2>1. ASSUME NEW d \in Proc \ {Root}, pc'[d] = "reaped"
        PROVE  /\ pc[d] = "reaped" /\ ppid[d] \in Proc
               /\ got[d] # None => got'[d] # None
               /\ pc[ppid[d]] \in Reader /\ awaiting[ppid[d]] = d => CollectedWell(d)'
    <3>1. pc[d] = "reaped" /\ d # p /\ ppid[d] \in Proc
      BY <1>1, <1>3, <2>1 DEF Forked
    <3> QED
      BY <1>1, <1>2, <1>3, <3>1 DEF CollectedWell
  <2> QED
    BY <1>4, <2>1, CollectedKept
<1>9. Reads'
  <2>1. ASSUME NEW q \in Proc, pc'[q] \in Reader
        PROVE  \/ /\ pc[q] \in Reader /\ awaiting'[q] = awaiting[q]
                  /\ got[awaiting[q]] # None => got'[awaiting[q]] # None
                  /\ status'[awaiting[q]] = status[awaiting[q]]
               \/ ReadsWell(q)'
    <3>1. CASE q = p
      BY <1>1, <1>3, <1>4, <2>1, <3>1 DEF ReadsWell, Goes, h
    <3>2. CASE q # p
      BY <1>1, <1>2, <1>3, <2>1, <3>2 DEF Owned
    <3> QED
      BY <3>1, <3>2
  <2> QED
    BY <1>4, <2>1, ReadsKept
<1> QED
  BY <1>5, <1>6, <1>7, <1>8, <1>9

\* An await that is answered by p leaves History as it was.
LEMMA AnswerHistory ==
    ASSUME IInv, History, NEW p \in Proc, pc[p] \in Reader,
           UNCHANGED <<ppid, handles, writeEnds, pipeReturn, result, status>>,
           pc' = [pc EXCEPT ![p] = "run"],
           NEW o, o # None, Deliver(p, o)
    PROVE  History'
<1> USE ConstantsOK DEF IInv, TypeOK, Control, InAwait, History, Dead, Reader
<1> DEFINE h == awaiting[p]
<1>1. h \in Proc /\ ppid[h] = p
  BY DEF Owned
<1>2. /\ pc' \in [Proc -> Control] /\ pc'[p] = "run" /\ \A q \in Proc \ {p} : pc'[q] = pc[q]
      /\ got'[h] # None /\ \A q \in Proc : got[q] # None => got'[q] # None
      /\ \A q \in Proc \ {p} : awaiting'[q] = awaiting[q]
  BY <1>1 DEF Deliver
<1> HIDE DEF h
<1>4. Goes
  BY <1>1, <1>2 DEF Goes, Unforked
<1>5. Genesis'
  BY <1>1, <1>2 DEF Genesis
<1>6. Forked'
  BY <1>1, <1>2 DEF Forked
<1>7. Ended'
  BY <1>1, <1>2, <1>4, EndedKept DEF Ended, EndedWell, Forked
<1>8. Collected'
  <2>1. ASSUME NEW d \in Proc \ {Root}, pc'[d] = "reaped"
        PROVE  /\ pc[d] = "reaped" /\ ppid[d] \in Proc
               /\ got[d] # None => got'[d] # None
               /\ pc[ppid[d]] \in Reader /\ awaiting[ppid[d]] = d => CollectedWell(d)'
    <3>1. pc[d] = "reaped" /\ d # p /\ ppid[d] \in Proc
      BY <1>1, <1>2, <2>1 DEF Forked
    <3>2. ASSUME pc[ppid[d]] \in Reader, awaiting[ppid[d]] = d PROVE CollectedWell(d)'
      <4>1. CASE ppid[d] = p
        BY <1>2, <3>2, <4>1 DEF CollectedWell, h
      <4>2. CASE ppid[d] # p
        BY <1>1, <1>2, <3>1, <3>2, <4>2 DEF CollectedWell
      <4> QED
        BY <4>1, <4>2
    <3> QED
      BY <1>2, <3>1, <3>2
  <2> QED
    BY <1>4, <2>1, CollectedKept
<1>9. Reads'
  <2>1. ASSUME NEW q \in Proc, pc'[q] \in Reader
        PROVE  /\ pc[q] \in Reader /\ awaiting'[q] = awaiting[q]
               /\ got[awaiting[q]] # None => got'[awaiting[q]] # None
               /\ status'[awaiting[q]] = status[awaiting[q]]
    BY <1>1, <1>2, <2>1 DEF Owned
  <2> QED
    BY <1>4, <2>1, ReadsKept
<1> QED
  BY <1>5, <1>6, <1>7, <1>8, <1>9

\* A process that dies without a result, or after its parent, leaves History
\* as it was.
LEMMA DeathHistory ==
    ASSUME IInv, History, NEW p \in Proc, Live(p),
           UNCHANGED <<ppid, handles, writeEnds, pipeReturn, result, awaiting, got>>,
           Exit(p, "killed"),
           p # Root => /\ result[p] \notin Opaque
                       /\ result[p] = None \/ pc[ppid[p]] \in Dead
    PROVE  History'
<1> USE ConstantsOK DEF IInv, TypeOK, Control, InAwait, History, Dead, Reader
<1>2. /\ pc' \in [Proc -> Control] /\ pc'[p] = "zombie" /\ \A q \in Proc \ {p} : pc'[q] = pc[q]
      /\ status'[p] = "killed" /\ \A q \in Proc \ {p} : status'[q] = status[q]
      /\ pc[p] \notin {"unborn", "nofork", "zombie", "reaped"}
  BY DEF Exit, Live
<1>4. Goes
  BY <1>2 DEF Goes, Unforked
<1>5. Genesis'
  BY <1>2 DEF Genesis
<1>6. Forked'
  BY <1>2 DEF Forked
<1>7. Ended'
  <2>1. ASSUME NEW d \in Proc \ {Root}, pc'[d] \in Dead
        PROVE  \/ pc[d] \in Dead /\ status'[d] = status[d] /\ result'[d] = result[d]
                  /\ ppid[d] \in Proc
               \/ EndedWell(d)'
    <3>1. CASE d = p
      <4>1. ppid[p] \in Proc
        BY <1>2, <3>1 DEF Forked
      <4> QED
        BY <1>2, <3>1, <4>1 DEF EndedWell
    <3>2. CASE d # p
      BY <1>2, <2>1, <3>2 DEF Forked
    <3> QED
      BY <3>1, <3>2
  <2> QED
    BY <1>4, <2>1, EndedKept
<1>8. Collected'
  <2>1. ASSUME NEW d \in Proc \ {Root}, pc'[d] = "reaped"
        PROVE  /\ pc[d] = "reaped" /\ ppid[d] \in Proc
               /\ got[d] # None => got'[d] # None
               /\ pc[ppid[d]] \in Reader /\ awaiting[ppid[d]] = d => CollectedWell(d)'
    BY <1>2, <2>1 DEF Forked, CollectedWell
  <2> QED
    BY <1>4, <2>1, CollectedKept
<1>9. Reads'
  <2>1. ASSUME NEW q \in Proc, pc'[q] \in Reader
        PROVE  /\ pc[q] \in Reader /\ awaiting'[q] = awaiting[q]
               /\ got[awaiting[q]] # None => got'[awaiting[q]] # None
               /\ status'[awaiting[q]] = status[awaiting[q]]
    <3>1. pc[q] \in Reader /\ awaiting[q] \in Proc
      BY <1>2, <2>1 DEF Owned
    <3>2. awaiting[q] # p
      BY <1>2, <3>1 DEF Reading
    <3> QED
      BY <1>2, <3>1, <3>2
  <2> QED
    BY <1>4, <2>1, ReadsKept
<1> QED
  BY <1>5, <1>6, <1>7, <1>8, <1>9

\* The read of the body ends an await with a value.
LEMMA ReadBodyHistory ==
    ASSUME IInv, History, NEW p \in Proc, ReadBody(p)
    PROVE  History'
<1>1. awaiting[p] \in Proc /\ pipe[awaiting[p]] \in Seq(Message)
  BY DEF IInv, TypeOK, Owned, ReadBody, InAwait
<1>2. Head(pipe[awaiting[p]]) \in Message
  BY <1>1, HeadTailProperties DEF ReadBody
<1>3. Head(pipe[awaiting[p]]).val # None
  BY <1>2, ConstantsOK DEF Message
<1> QED
  BY <1>3, AnswerHistory DEF ReadBody, fds, Reader

\* An await that reads nothing ends too, or its process with it.
LEMMA ReadGarbageHistory ==
    ASSUME IInv, History, NEW p \in Proc, ReadGarbage(p)
    PROVE  History'
<1>1. CASE Exit(p, "killed")
  <2>1. Live(p) /\ result[p] = None
    BY DEF IInv, ReadGarbage, Unsent, NotReturned, Live
  <2>2. UNCHANGED <<awaiting, got>>
    BY <1>1, ConstantsOK DEF ReadGarbage, Exit, IInv, TypeOK, Control
  <2> QED
    BY <1>1, <2>1, <2>2, ConstantsOK, DeathHistory DEF ReadGarbage, fds
<1>2. CASE ~ Exit(p, "killed")
  BY <1>2, ConstantsOK, AnswerHistory DEF ReadGarbage, fds, Reader
<1> QED
  BY <1>1, <1>2

\* A write without reader kills a process whose parent has ended: it held the
\* read end.
LEMMA WriterAbandoned ==
    ASSUME IInv, History, NEW p \in Proc, pc[p] \in {"sendSize", "sendBody"},
           ~ HasReader(pipeReturn[p])
    PROVE  /\ p # Root /\ Live(p) /\ result[p] \in Value
           /\ pc[ppid[p]] \in Dead
<1> USE ConstantsOK DEF IInv, TypeOK, Control, History, Dead
<1>1. pipeReturn[p] = p /\ result[p] \in Value
  BY DEF Sending
<1>2. p # Root
  BY <1>1 DEF Genesis
<1>3. ppid[p] \in Proc /\ p \in handles[ppid[p]] /\ pc[ppid[p]] \notin {"unborn", "nofork"}
  BY <1>2 DEF Forked
<1>4. ~ Live(ppid[p])
  BY <1>1, <1>3 DEF HasReader
<1> QED
  BY <1>1, <1>2, <1>3, <1>4 DEF Live

\* The write of the size goes on to the body, or the writer is abandoned.
LEMMA SendSizeHistory ==
    ASSUME IInv, History, NEW p \in Proc, SendSize(p)
    PROVE  History'
<1>1. CASE HasReader(pipeReturn[p])
  <2> USE ConstantsOK DEF IInv, TypeOK, Owned, Control, InAwait, History, Dead, Reader, fds
  <2>1. /\ pc[p] = "sendSize" /\ pc' = [pc EXCEPT ![p] = "sendBody"]
        /\ UNCHANGED <<fds, result, reset, awaiting, status, got>>
    BY <1>1 DEF SendSize, Write
  <2>2. Goes
    BY <2>1 DEF Goes, Unforked
  <2>3. Genesis'
    BY <2>1 DEF Genesis
  <2>4. Forked'
    BY <2>1 DEF Forked
  <2>5. Ended'
    BY <2>1, <2>2, EndedKept DEF Forked
  <2>6. Collected'
    BY <2>1, <2>2, CollectedKept DEF Forked, CollectedWell
  <2>7. Reads'
    BY <2>1, <2>2, ReadsKept
  <2> QED
    BY <2>3, <2>4, <2>5, <2>6, <2>7
<1>2. CASE ~ HasReader(pipeReturn[p])
  <2>1. Exit(p, "killed") /\ UNCHANGED <<fds, result, reset, awaiting, got>>
    BY <1>2 DEF SendSize, Write
  <2> QED
    BY <1>2, <2>1, WriterAbandoned, DeathHistory, ConstantsOK DEF SendSize, fds
<1> QED
  BY <1>1, <1>2

\* The write of the body ends the process well, or the writer is abandoned.
LEMMA SendBodyHistory ==
    ASSUME IInv, History, NEW p \in Proc, SendBody(p)
    PROVE  History'
<1>1. CASE HasReader(pipeReturn[p])
  <2> USE ConstantsOK DEF IInv, TypeOK, Owned, Control, InAwait, History, Dead, Reader, fds
  <2>1. /\ pc[p] = "sendBody" /\ pc' = [pc EXCEPT ![p] = "zombie"]
        /\ status' = [status EXCEPT ![p] = "ok"]
        /\ UNCHANGED <<fds, result, reset, awaiting, got>>
    BY <1>1 DEF SendBody, Write, Exit
  <2>2. Goes
    BY <2>1 DEF Goes, Unforked
  <2>3. Genesis'
    BY <2>1 DEF Genesis
  <2>4. Forked'
    BY <2>1 DEF Forked
  <2>5. Ended'
    <3>1. result[p] \in Value
      BY <2>1 DEF Sending
    <3> QED
      BY <2>1, <2>2, <3>1, EndedKept DEF Forked, EndedWell
  <2>6. Collected'
    BY <2>1, <2>2, CollectedKept DEF Forked, CollectedWell
  <2>7. Reads'
    <3>1. ASSUME NEW q \in Proc, pc'[q] \in Reader
          PROVE  pc[q] \in Reader /\ awaiting[q] \in Proc /\ awaiting[q] # p
      BY <2>1, <3>1 DEF Reading
    <3> QED
      BY <2>1, <2>2, <3>1, ReadsKept
  <2> QED
    BY <2>3, <2>4, <2>5, <2>6, <2>7
<1>2. CASE ~ HasReader(pipeReturn[p])
  <2>1. Exit(p, "killed") /\ UNCHANGED <<fds, result, reset, awaiting, got>>
    BY <1>2 DEF SendBody, Write
  <2> QED
    BY <1>2, <2>1, WriterAbandoned, DeathHistory, ConstantsOK DEF SendBody, fds
<1> QED
  BY <1>1, <1>2

-----------------------------------------------------------------------------
\* A VM that has made no call has no history.
LEMMA InitHistory == Init => History
  BY ConstantsOK DEF Init, History, Genesis, Forked, Ended, Collected, Reads, Dead, Reader

\* Every step preserves History.
LEMMA StepHistory == IInv /\ History /\ [Next]_vars => History'
<1> SUFFICES ASSUME IInv, History, [Next]_vars PROVE History'
  OBVIOUS
<1>1. ASSUME NEW p \in Proc, Advance(p) PROVE History'
  BY <1>1, SendSizeHistory, SendBodyHistory, ReapHistory, NoChildHistory, ReadSizeHistory,
     ReadBodyHistory, ReadGarbageHistory, CrashHistory DEF Advance
<1>2. ASSUME NEW p \in Proc, Program(p) PROVE History'
  BY <1>2, SpawnHistory, SpawnFailsHistory, AwaitRejectedHistory, AwaitStartHistory,
     ReturnScriptHistory, ReturnValueHistory, ReturnOpaqueHistory, RuntimeErrorHistory,
     CrashHistory DEF Program
<1>3. CASE UNCHANGED vars
  BY <1>3 DEF vars, History, Genesis, Forked, Ended, EndedWell, Collected, CollectedWell,
              Reads, ReadsWell, Unforked
<1> QED
  BY <1>1, <1>2, <1>3 DEF Next, Finished

\* Both invariants hold of every state the processes reach.
THEOREM HistoryHolds == Spec => [](IInv /\ History)
<1>1. Init => IInv /\ History
  BY InitInv, InitHistory
<1>2. IInv /\ History /\ [Next]_vars => IInv' /\ History'
  BY StepInv, StepHistory
<1> QED
  BY <1>1, <1>2, PTL DEF Spec

-----------------------------------------------------------------------------
(* The steps of AsyncProcess as steps of AsyncCall. *)

Call == Proc \ {Root}

\* What has become of a call, from how far its process has come.
LEMMA OutcomeFacts ==
    ASSUME NEW c \in Call
    PROVE  outcome[c] = CASE pc[c] = "unborn" -> "idle"
                          [] pc[c] = "nofork" -> "unforked"
                          [] OTHER -> IF result[c] # None THEN result[c]
                                      ELSE IF status[c] = "alive" THEN "pending" ELSE Failed
  BY DEF outcome, Call

\* A step after which every call has come as far as before it is no step of
\* the promise.
LEMMA OutcomeStays ==
    ASSUME \A c \in Call : outcome'[c] = outcome[c]
    PROVE  outcome' = outcome
  BY DEF outcome, Call

\* A call whose process ends, or returns, is resolved.
LEMMA Resolves ==
    ASSUME NEW c \in Call, outcome[c] = "pending",
           outcome'[c] \in Value \cup Opaque \cup {Failed},
           \A d \in Call \ {c} : outcome'[d] = outcome[d],
           got' = got
    PROVE  Promise!Next
<1>1. outcome' = [outcome EXCEPT ![c] = outcome'[c]]
  BY DEF outcome, Call
<1>2. delivered' = delivered
  BY DEF delivered
<1>3. Promise!Resolve(c, outcome'[c])
  BY <1>1, <1>2 DEF Promise!Resolve
<1> QED
  BY <1>3 DEF Promise!Next, Promise!Resolved, Call

\* What an await may deliver.  The first disjunct is a first await in a
\* program without a failed fork.
Answers(h, o) ==
    /\ h \in Call
    /\ outcome[h] \notin {"idle", "pending"}
    /\ o \in Value \cup {Failed, Undefined}
    /\ \/ ~ Unforked /\ got[h] = None /\ o = Promise!Expected(outcome[h])
       \/ (Unforked \/ got[h] # None) /\ o \in Promise!AnyOf(outcome[h])

\* An answer is a step of the promise.
LEMMA Collects ==
    ASSUME IInv, History, NEW p \in Proc, NEW o, Deliver(p, o), Answers(awaiting[p], o),
           outcome' = outcome
    PROVE  Promise!Next
<1> DEFINE h == awaiting[p]
<1>1. h \in Call
  BY DEF Answers
<1>2. delivered' = [delivered EXCEPT ![h] = o] /\ delivered[h] = got[h]
  BY <1>1 DEF Deliver, delivered, IInv, TypeOK, Call
<1>3. Unforked => \E u \in Call : outcome[u] = "unforked"
  BY OutcomeFacts DEF Unforked, History, Genesis, Call
<1>4. ~ Unforked => outcome[h] # "unforked"
  <2> SUFFICES ASSUME ~ Unforked PROVE outcome[h] # "unforked"
    OBVIOUS
  <2>1. pc[h] # "nofork" /\ result[h] \in Value \cup Opaque \cup {None}
    BY <1>1 DEF Unforked, Call, IInv, TypeOK
  <2> QED
    BY <1>1, <2>1, OutcomeFacts, OutcomesApart
<1>5. Promise!Collect(h, o)
  <2>1. UNCHANGED outcome
    OBVIOUS
  <2>2. \/ delivered[h] = None /\ outcome[h] # "unforked" /\ o = Promise!Expected(outcome[h])
        \/ delivered[h] # None /\ o \in Promise!AnyOf(outcome[h])
        \/ (\E u \in Call : outcome[u] = "unforked") /\ o \in Promise!AnyOf(outcome[h])
    BY <1>2, <1>3, <1>4 DEF Answers
  <2> QED
    BY <1>1, <1>2, <2>1, <2>2 DEF Answers, Promise!Collect, Call
<1> QED
  BY <1>1, <1>5 DEF Promise!Next, Answers, Call

\* Who awaits, awaits a call.
LEMMA AwaitsCall ==
    ASSUME IInv, History, NEW p \in Proc, pc[p] \in InAwait
    PROVE  /\ awaiting[p] \in Call /\ ppid[awaiting[p]] = p
           /\ pc[awaiting[p]] # "unborn"
  BY ConstantsOK DEF IInv, TypeOK, Owned, History, Genesis, Call

\* What has become of a call that was collected.
LEMMA CollectedOutcome ==
    ASSUME IInv, History, NEW h \in Call, pc[h] \in Dead
    PROVE  /\ outcome[h] = IF result[h] # None THEN result[h] ELSE Failed
           /\ outcome[h] \notin {"idle", "pending"}
<1>1. result[h] \in Value \cup Opaque \cup {None} /\ status[h] # "alive"
  BY DEF IInv, TypeOK, History, Ended, EndedWell, Call
<1>2. outcome[h] = IF result[h] # None THEN result[h] ELSE Failed
  BY <1>1, OutcomeFacts DEF Dead
<1> QED
  BY <1>1, <1>2, OutcomesApart

\* What has become of a call that was never forked.
LEMMA UnforkedOutcome ==
    ASSUME NEW h \in Call, pc[h] = "nofork"
    PROVE  Unforked /\ outcome[h] \notin {"idle", "pending"}
  BY OutcomeFacts DEF Unforked, Call

\* The nil that an await yields for a wait status that is not 0.
LEMMA ReapAnswers ==
    ASSUME IInv, History, NEW p \in Proc, NEW c \in Proc, Reap(p, c), status[c] # "ok"
    PROVE  Answers(awaiting[p], Failed)
<1> DEFINE h == awaiting[p]
<1>1. h \in Call /\ ppid[h] = p /\ pc[p] = "wait"
  BY AwaitsCall DEF Reap, InAwait
<1>2. CASE pc[h] = "nofork"
  BY <1>1, <1>2, UnforkedOutcome DEF Answers, Promise!AnyOf
<1>3. CASE c = h
  <2>1. pc[h] \in Dead
    BY <1>3 DEF Reap, Dead
  <2>2. result[h] = None
    BY <1>1, <1>3, <2>1 DEF History, Ended, EndedWell, Call, Dead
  <2>3. outcome[h] = Failed /\ outcome[h] \notin {"idle", "pending"}
    BY <1>1, <2>1, <2>2, CollectedOutcome
  <2>4. Promise!Expected(outcome[h]) = Failed
    BY <2>3, ConstantsOK DEF Promise!Expected
  <2> QED
    BY <1>1, <2>3, <2>4 DEF Answers, Promise!AnyOf
<1> QED
  BY <1>2, <1>3 DEF Reap, Awaited

\* The nil of an await that finds no child: not the first of its call.
LEMMA NoChildAnswers ==
    ASSUME IInv, History, NEW p \in Proc, NoChild(p)
    PROVE  Answers(awaiting[p], Failed)
<1> DEFINE h == awaiting[p]
<1>1. h \in Call /\ ppid[h] = p
  BY AwaitsCall DEF NoChild, InAwait
<1>2. got[h] # None \/ Unforked
  BY NoChildAwaited
<1>3. pc[h] \in {"nofork", "reaped"}
  BY <1>1 DEF NoChild, Awaited, Call
<1>4. outcome[h] \notin {"idle", "pending"}
  BY <1>1, <1>3, UnforkedOutcome, CollectedOutcome DEF Dead
<1> QED
  BY <1>1, <1>2, <1>4 DEF Answers, Promise!AnyOf

\* Whose pipe is read is a call that was collected or never forked.
LEMMA ReadCall ==
    ASSUME IInv, History, NEW p \in Proc, pc[p] \in Reader
    PROVE  /\ awaiting[p] \in Call
           /\ pc[awaiting[p]] = "nofork" \/ pc[awaiting[p]] \in Dead
           /\ outcome[awaiting[p]] \notin {"idle", "pending"}
<1>1. awaiting[p] \in Call
  BY AwaitsCall DEF Reader, InAwait
<1>2. pc[awaiting[p]] = "nofork" \/ pc[awaiting[p]] \in Dead
  BY DEF IInv, Reading, Reader, Dead
<1> QED
  BY <1>1, <1>2, UnforkedOutcome, CollectedOutcome

\* The value that the second read finds is what the callee returned.
LEMMA ReadBodyAnswers ==
    ASSUME IInv, History, NEW p \in Proc, ReadBody(p)
    PROVE  Answers(awaiting[p], Head(pipe[awaiting[p]]).val)
<1> DEFINE h == awaiting[p]
           v == Head(pipe[h]).val
<1>1. h \in Call /\ pipe[h] \in Seq(Message) /\ pipe[h] # <<>>
  BY ReadCall DEF ReadBody, Reader, IInv, TypeOK, Call
<1>2. Head(pipe[h]) = pipe[h][1] /\ 1 \in 1..Len(pipe[h]) /\ Head(pipe[h]) \in Message
  BY <1>1, HeadTailProperties
<1>3. v = result[h] /\ v \in Value
  BY <1>1, <1>2 DEF IInv, Carried, Call, Message
<1>4. pc[h] \in Dead /\ outcome[h] \notin {"idle", "pending"}
  <2>1. pc[h] # "nofork"
    BY <1>1 DEF IInv, Unsent, NotReturned, Call
  <2> QED
    BY <2>1, ReadCall DEF ReadBody, Reader
<1>5. outcome[h] = v
  BY <1>1, <1>3, <1>4, CollectedOutcome, ConstantsOK
<1>6. Promise!Expected(v) = v
  BY <1>3, ConstantsOK DEF Promise!Expected
<1>7. v \in Promise!AnyOf(v)
  BY <1>3 DEF Promise!AnyOf
<1> QED
  BY <1>1, <1>3, <1>4, <1>5, <1>6, <1>7 DEF Answers

\* An await finds nothing to read only where nothing was promised.
LEMMA ReadGarbageAnswers ==
    ASSUME IInv, History, NEW p \in Proc, ReadGarbage(p)
    PROVE  Answers(awaiting[p], Undefined)
<1> DEFINE h == awaiting[p]
<1>1. /\ h \in Call
      /\ pc[h] = "nofork" \/ pc[h] \in Dead
      /\ outcome[h] \notin {"idle", "pending"}
      /\ pipe[h] = <<>> /\ pc[p] \in Reader
  BY ReadCall DEF ReadGarbage, Reader
<1>2. CASE Unforked \/ got[h] # None
  BY <1>1, <1>2 DEF Answers, Promise!AnyOf
<1>3. CASE ~ Unforked /\ got[h] = None
  <2>1. pc[h] \in Dead
    BY <1>1, <1>3 DEF Unforked, Call
  <2>2. status[h] = "ok"
    BY <1>1, <1>3 DEF History, Reads, ReadsWell
  <2>3. result[h] \in Value \cup Opaque
    BY <1>1, <2>1, <2>2 DEF History, Ended, EndedWell, IInv, TypeOK, Call
  <2>4. result[h] \notin Value
    <3> SUFFICES ASSUME result[h] \in Value PROVE FALSE
      OBVIOUS
    <3>1. pipe[h] \in {<<BodyPart(result[h])>>, Whole(result[h])}
      BY <1>1, <1>3, <2>2 DEF IInv, ResultAwaits, Call
    <3> QED
      BY <1>1, <3>1, MessageFacts
  <2>5. outcome[h] \in Opaque
    BY <1>1, <2>1, <2>3, <2>4, CollectedOutcome, ConstantsOK
  <2> QED
    BY <1>1, <1>3, <2>5 DEF Answers, Promise!Expected
<1> QED
  BY <1>2, <1>3

\* What OP_AWAIT and processChildReturn deliver is what was promised.
LEMMA AwaitSteps ==
    ASSUME IInv, History, NEW p \in Proc,
           \/ \E c \in Proc : Reap(p, c)
           \/ NoChild(p) \/ ReadSize(p) \/ ReadBody(p) \/ ReadGarbage(p)
    PROVE  \/ got' = got
           \/ \E o : Deliver(p, o) /\ Answers(awaiting[p], o)
<1>1. CASE \E c \in Proc : Reap(p, c)
  BY <1>1, ReapAnswers DEF Reap
<1>2. CASE NoChild(p)
  BY <1>2, NoChildAnswers DEF NoChild
<1>3. CASE ReadSize(p)
  BY <1>3 DEF ReadSize
<1>4. CASE ReadBody(p)
  BY <1>4, ReadBodyAnswers DEF ReadBody
<1>5. CASE ReadGarbage(p)
  BY <1>5, ReadGarbageAnswers DEF ReadGarbage
<1> QED
  BY <1>1, <1>2, <1>3, <1>4, <1>5

\* Apart from a process that dies, they leave every call as far as it was.
LEMMA AwaitOutcomes ==
    ASSUME IInv, History, NEW p \in Proc,
           \/ \E c \in Proc : Reap(p, c)
           \/ NoChild(p) \/ ReadSize(p) \/ ReadBody(p)
           \/ ReadGarbage(p) /\ ~ Exit(p, "killed")
    PROVE  outcome' = outcome
<1>1. result' = result /\ status' = status
  BY DEF Reap, NoChild, ReadSize, ReadBody, ReadGarbage
<1>2. \A q \in Proc : pc'[q] = pc[q] \/ {pc[q], pc'[q]} \cap {"unborn", "nofork"} = {}
  <2>1. CASE \E c \in Proc : Reap(p, c)
    <3>1. PICK c \in Proc : Reap(p, c)
      BY <2>1
    <3>2. \A q \in Proc \ {p, c} : pc'[q] = pc[q]
      BY <3>1 DEF Reap, IInv, TypeOK
    <3>3. pc'[c] = "reaped" /\ pc[c] = "zombie" /\ pc[p] = "wait" /\ p # c
      BY <3>1 DEF Reap, IInv, TypeOK
    <3>4. pc'[p] \in {"run", "readSize"}
      BY <3>1, <3>3 DEF Reap, IInv, TypeOK
    <3> QED
      BY <3>2, <3>3, <3>4
  <2>2. CASE NoChild(p) \/ ReadSize(p) \/ ReadBody(p) \/ (ReadGarbage(p) /\ ~ Exit(p, "killed"))
    BY <2>2 DEF NoChild, ReadSize, ReadBody, ReadGarbage, IInv, TypeOK
  <2> QED
    BY <2>1, <2>2
<1>3. \A c \in Call : outcome'[c] = outcome[c]
  BY <1>1, <1>2 DEF outcome, Call
<1> QED
  BY <1>3, OutcomeStays

\* A process that ends without a result resolves its call to the nil of a
\* failure.
LEMMA Fails ==
    ASSUME IInv, NEW p \in Proc, pc[p] \in NotReturned \ {"unborn", "nofork"},
           NEW how \in {"error", "killed"}, Exit(p, how), result' = result, got' = got
    PROVE  [Promise!Next]_(Promise!vars)
<1>1. /\ result[p] = None /\ status[p] = "alive"
      /\ pc'[p] = "zombie" /\ status'[p] = how
      /\ \A q \in Proc \ {p} : pc'[q] = pc[q] /\ status'[q] = status[q]
  BY DEF IInv, TypeOK, Unsent, Exit
<1>2. \A d \in Call \ {p} : outcome'[d] = outcome[d]
  BY <1>1 DEF outcome, Call
<1>3. CASE p \in Call
  <2>1. outcome[p] = "pending"
    BY <1>1, <1>3, OutcomeFacts
  <2>2. outcome'[p] = Failed
    BY <1>1, <1>3 DEF outcome, Call
  <2> QED
    BY <1>2, <1>3, <2>1, <2>2, Resolves
<1>4. CASE p \notin Call
  <2>1. outcome' = outcome
    BY <1>2, <1>4, OutcomeStays
  <2> QED
    BY <2>1 DEF Promise!vars, delivered
<1> QED
  BY <1>3, <1>4

\* A callee that returns resolves its call to its result.
LEMMA Returns ==
    ASSUME IInv, History, NEW p \in Proc, NEW o \in Value \cup Opaque,
           ReturnValue(p, o) \/ ReturnOpaque(p, o)
    PROVE  Promise!Next
<1>1. /\ pc[p] = "run" /\ result[p] = None /\ status[p] = "alive" /\ got' = got
      /\ result'[p] = o /\ pc'[p] \in {"sendSize", "zombie"}
      /\ \A q \in Proc \ {p} : /\ pc'[q] = pc[q] /\ status'[q] = status[q]
                              /\ result'[q] = result[q]
  BY DEF ReturnValue, ReturnOpaque, Exit, IInv, TypeOK, Unsent, NotReturned
<1>2. p \in Call
  BY DEF ReturnValue, ReturnOpaque, History, Genesis, Call
<1>3. \A d \in Call \ {p} : outcome'[d] = outcome[d]
  BY <1>1 DEF outcome, Call
<1>4. outcome[p] = "pending"
  BY <1>1, <1>2, OutcomeFacts
<1>5. outcome'[p] = o
  BY <1>1, <1>2, ConstantsOK DEF outcome, Call
<1> QED
  BY <1>1, <1>2, <1>3, <1>4, <1>5, Resolves

\* A fork, successful or not, starts a call.
LEMMA Starts ==
    ASSUME IInv, History, NEW p \in Proc, NEW c \in Proc,
           SpawnFails(p, c) \/ \E callOk \in BOOLEAN : Spawn(p, c, callOk)
    PROVE  Promise!Next
<1>1. /\ pc[c] = "unborn" /\ result[c] = None /\ status[c] = "alive"
      /\ pc'[c] \in {"run", "lost", "nofork"}
      /\ \A q \in Proc \ {c} : pc'[q] = pc[q]
      /\ result' = result /\ status' = status /\ got' = got
  BY DEF SpawnFails, Spawn, IInv, TypeOK, Unsent, NotReturned
<1>2. c \in Call
  BY <1>1 DEF History, Genesis, Call
<1>3. outcome[c] = "idle"
  BY <1>1, <1>2, OutcomeFacts
<1>4. outcome'[c] \in {"pending", "unforked"}
  BY <1>1, <1>2 DEF outcome, Call
<1>5. \A d \in Call \ {c} : outcome'[d] = outcome[d]
  BY <1>1 DEF outcome, Call
<1>6. outcome' = [outcome EXCEPT ![c] = outcome'[c]]
  BY <1>2, <1>5 DEF outcome, Call
<1>7. Promise!Start(c)
  BY <1>1, <1>3, <1>4, <1>6 DEF Promise!Start, delivered
<1> QED
  BY <1>2, <1>7 DEF Promise!Next, Call

\* The writes of a result change nothing about what it is, nor does a step
\* that only moves a process on.
LEMMA Stutters ==
    ASSUME IInv, History, NEW p \in Proc,
           \/ SendSize(p) \/ SendBody(p) \/ AwaitRejected(p) \/ ReturnScript(p)
           \/ \E h \in Proc : AwaitStart(p, h)
    PROVE  outcome' = outcome /\ got' = got
<1>1. /\ result' = result /\ got' = got
      /\ pc[p] \notin {"unborn", "nofork"} /\ pc'[p] \notin {"unborn", "nofork"}
      /\ \A q \in Proc \ {p} : pc'[q] = pc[q] /\ status'[q] = status[q]
  BY DEF SendSize, SendBody, AwaitRejected, ReturnScript, AwaitStart, Write, Exit, IInv, TypeOK
<1>2. \A d \in Call \ {p} : outcome'[d] = outcome[d]
  BY <1>1 DEF outcome, Call
<1>3. CASE p \in Call
  <2>1. CASE SendSize(p) \/ SendBody(p)
    <3>1. pc[p] \in {"sendSize", "sendBody"}
      BY <2>1 DEF SendSize, SendBody
    <3>2. result[p] \in Value
      BY <3>1 DEF IInv, Sending
    <3>3. result[p] # None
      BY <3>2, ConstantsOK
    <3> QED
      BY <1>1, <1>2, <1>3, <3>3, OutcomeStays DEF outcome, Call
  <2>2. CASE ReturnScript(p)
    BY <1>3, <2>2, ConstantsOK DEF ReturnScript, History, Forked, Call
  <2>3. CASE AwaitRejected(p) \/ \E h \in Proc : AwaitStart(p, h)
    BY <1>1, <1>2, <1>3, <2>3, OutcomeStays DEF AwaitRejected, AwaitStart, outcome, Call
  <2> QED
    BY <2>1, <2>2, <2>3
<1>4. CASE p \notin Call
  BY <1>1, <1>2, <1>4, OutcomeStays
<1> QED
  BY <1>3, <1>4

\* Every step of a process is a step of the promise, or none.
LEMMA StepKeepsPromise ==
    IInv /\ History /\ [Next]_vars => [Promise!Next]_(Promise!vars)
<1> SUFFICES ASSUME IInv, History, [Next]_vars PROVE [Promise!Next]_(Promise!vars)
  OBVIOUS
<1> DEFINE Quiet == outcome' = outcome /\ got' = got
<1>1. Quiet => UNCHANGED Promise!vars
  BY DEF Promise!vars, delivered
<1>2. ASSUME NEW p \in Proc,
             \/ \E c \in Proc : Reap(p, c)
             \/ NoChild(p) \/ ReadSize(p) \/ ReadBody(p)
             \/ ReadGarbage(p) /\ ~ Exit(p, "killed")
      PROVE  [Promise!Next]_(Promise!vars)
  BY <1>1, <1>2, AwaitSteps, AwaitOutcomes, Collects
<1>3. ASSUME NEW p \in Proc, ReadGarbage(p), Exit(p, "killed")
      PROVE  [Promise!Next]_(Promise!vars)
  <2>1. pc[p] \in Reader /\ result' = result
    BY <1>3 DEF ReadGarbage, Reader
  <2>2. got' = got
    BY <1>3, <2>1 DEF ReadGarbage, Exit, IInv, TypeOK
  <2> QED
    BY <1>3, <2>1, <2>2, Fails DEF Reader, NotReturned
<1>4. ASSUME NEW p \in Proc, RuntimeError(p) \/ Crash(p)
      PROVE  [Promise!Next]_(Promise!vars)
  BY <1>4, Fails DEF RuntimeError, Crash, NotReturned
<1>5. ASSUME NEW p \in Proc, Advance(p) PROVE [Promise!Next]_(Promise!vars)
  BY <1>1, <1>2, <1>3, <1>4, <1>5, Stutters DEF Advance
<1>6. ASSUME NEW p \in Proc, Program(p) PROVE [Promise!Next]_(Promise!vars)
  BY <1>1, <1>4, <1>6, Stutters, Starts, Returns DEF Program
<1>7. CASE UNCHANGED vars
  BY <1>1, <1>7 DEF vars, outcome
<1> QED
  BY <1>5, <1>6, <1>7 DEF Next, Finished

\* A VM that has made no call has promised nothing.
LEMMA InitKeepsPromise == Init => Promise!Init
  BY DEF Init, Promise!Init, outcome, delivered

\* `async` and `await` as the processes, pipes and wait statuses of vm.c
\* implement them keep the promise of AsyncCall.
THEOREM ImplementsPromise == Spec => KeepsPromise
<1>1. Init => Promise!Init
  BY InitKeepsPromise
<1>2. IInv /\ History /\ [Next]_vars => [Promise!Next]_(Promise!vars)
  BY StepKeepsPromise
<1> QED
  BY <1>1, <1>2, HistoryHolds, PTL DEF Spec, KeepsPromise, Promise!Spec

\* A first await is answered with uninitialised memory only for a result that
\* no pipe carries (processChildReturn after a writeChildResult that wrote
\* nothing).
THEOREM FirstAwaitsDefined == Spec => FirstAwaitDefined
<1> DEFINE Defined == (\A u \in Proc : pc[u] # "nofork") =>
        \A h \in Proc : got[h] = None /\ got'[h] = Undefined => result[h] \in Opaque
<1>1. IInv /\ History /\ [Next]_vars => [Defined]_vars
  <2> SUFFICES ASSUME IInv, History, [Next]_vars, ~ Unforked,
                      NEW h \in Proc, got[h] = None, got'[h] = Undefined
               PROVE  result[h] \in Opaque
    BY DEF Unforked
  <2>1. got' # got
    BY ConstantsOK
  <2>2. PICK p \in Proc : \/ \E c \in Proc : Reap(p, c)
                          \/ NoChild(p) \/ ReadSize(p) \/ ReadBody(p) \/ ReadGarbage(p)
    <3>1. got' = got \/ \E p \in Proc : Advance(p) \/ Program(p)
      BY DEF Next, Finished, vars
    <3>2. ASSUME NEW p \in Proc, Program(p) PROVE got' = got
      BY <3>2 DEF Program, Spawn, SpawnFails, AwaitRejected, AwaitStart, ReturnScript,
                  ReturnValue, ReturnOpaque, RuntimeError, Crash
    <3>3. ASSUME NEW p \in Proc, Advance(p),
                 ~ (\/ \E c \in Proc : Reap(p, c)
                    \/ NoChild(p) \/ ReadSize(p) \/ ReadBody(p) \/ ReadGarbage(p))
          PROVE  got' = got
      BY <3>3 DEF Advance, SendSize, SendBody, Crash
    <3> QED
      BY <2>1, <3>1, <3>2, <3>3
  <2>3. PICK o : Deliver(p, o) /\ Answers(awaiting[p], o)
    BY <2>1, <2>2, AwaitSteps
  <2>4. h = awaiting[p] /\ o = Undefined
    BY <2>3, ConstantsOK DEF Deliver, Answers, IInv, TypeOK, Call
  <2>5. outcome[h] = Undefined \/ outcome[h] \in Opaque
    BY <2>3, <2>4 DEF Answers, Promise!Expected
  <2>6. h \in Call /\ pc[h] # "nofork" /\ outcome[h] \notin {"idle", "pending"}
    BY <2>3, <2>4 DEF Answers, Unforked, Call
  <2>7. outcome[h] \in {result[h], Failed} /\ (outcome[h] = result[h] \/ result[h] = None)
    BY <2>6, OutcomeFacts
  <2> QED
    BY <2>5, <2>6, <2>7, ConstantsOK DEF IInv, TypeOK, Call
<1> QED
  BY <1>1, HistoryHolds, PTL DEF Spec, FirstAwaitDefined
=============================================================================
