------------------------ MODULE StreamCommandProofs ------------------------
(***************************************************************************)
(* Proofs about StreamCommand: the result of a host command has all that   *)
(* was written to a stream, if that is text.                               *)
(* The lines that were read are counted where they are, in the hand of the *)
(* reader, in the channel and in the buffer: since all of them are text,   *)
(* their number alone says which they are.                                 *)
(***************************************************************************)
EXTENDS StreamCommand, FiniteSetTheorems, TLAPS

-----------------------------------------------------------------------------
(* How often a value stands in a queue, and what putting one in at the end *)
(* and taking the first one out do to that.                                *)

(* The places of e in the queue q, and how many there are. *)
Places(q, e) == {i \in DOMAIN q : q[i] = e}
Count(q, e) == Cardinality(Places(q, e))

(* A queue holds a value finitely often. *)
LEMMA PlacesFinite ==
  ASSUME NEW S, NEW q \in Seq(S), NEW e
  PROVE  IsFiniteSet(Places(q, e)) /\ Count(q, e) \in Nat
<1>1. IsFiniteSet(1..Len(q))
  BY FS_Interval
<1>2. Places(q, e) \in SUBSET (1..Len(q))
  BY DEF Places
<1>3. IsFiniteSet(Places(q, e))
  BY <1>1, <1>2, FS_Subset
<1> QED
  BY <1>3, FS_CardinalityType DEF Count

(* An empty queue holds nothing. *)
LEMMA CountEmpty ==
  ASSUME NEW e
  PROVE  Count(<<>>, e) = 0
<1>1. Places(<<>>, e) = {}
  BY DEF Places
<1> QED
  BY <1>1, FS_EmptySet DEF Count

(* One more of what is put in, as many as before of anything else. *)
LEMMA CountAppend ==
  ASSUME NEW S, NEW q \in Seq(S), NEW x \in S, NEW e
  PROVE  IF x = e THEN Count(Append(q, x), e) = Count(q, e) + 1
                  ELSE Count(Append(q, x), e) = Count(q, e)
<1> DEFINE t == Append(q, x)
<1> SUFFICES IF x = e THEN Count(t, e) = Count(q, e) + 1
                      ELSE Count(t, e) = Count(q, e)
  OBVIOUS
<1>1. /\ Len(q) \in Nat /\ DOMAIN q = 1..Len(q) /\ DOMAIN t = 1..(Len(q) + 1)
      /\ \A i \in 1..Len(q) : t[i] = q[i]
      /\ t[Len(q) + 1] = x
  OBVIOUS
<1> HIDE DEF t
<1>2. IsFiniteSet(Places(q, e)) /\ Len(q) + 1 \notin Places(q, e)
  <2>1. IsFiniteSet(Places(q, e))
    BY PlacesFinite
  <2>2. Len(q) + 1 \notin 1..Len(q)
    BY <1>1
  <2>3. Places(q, e) \subseteq 1..Len(q)
    BY <1>1 DEF Places
  <2> QED
    BY <2>1, <2>2, <2>3
<1>3. CASE x = e
  <2>1. Places(t, e) = Places(q, e) \union {Len(q) + 1}
    BY <1>1, <1>3 DEF Places
  <2> QED
    BY <1>2, <1>3, <2>1, FS_AddElement DEF Count
<1>4. CASE x # e
  <2>1. Places(t, e) = Places(q, e)
    BY <1>1, <1>4 DEF Places
  <2> QED
    BY <1>4, <2>1 DEF Count
<1> QED
  BY <1>3, <1>4

(* One less of what is taken out. *)
LEMMA CountTail ==
  ASSUME NEW S, NEW q \in Seq(S), q # <<>>, NEW e
  PROVE  Count(q, e) = IF Head(q) = e THEN Count(Tail(q), e) + 1 ELSE Count(Tail(q), e)
<1> DEFINE t == Tail(q)
           P == Places(t, e)
           Q == Places(q, e) \ {1}
           f == [i \in P |-> i + 1]
<1>1. /\ Len(q) \in Nat \ {0} /\ DOMAIN q = 1..Len(q) /\ DOMAIN t = 1..(Len(q) - 1)
      /\ \A i \in 1..(Len(q) - 1) : t[i] = q[i + 1]
      /\ Head(q) = q[1] /\ t \in Seq(S)
  OBVIOUS
<1> HIDE DEF t
<1>2. IsFiniteSet(P) /\ IsFiniteSet(Places(q, e))
  BY <1>1, PlacesFinite
<1>3. \A i \in P : i \in Nat /\ i + 1 \in Q
  BY <1>1 DEF Places
<1>4. \A j \in Q : j - 1 \in P /\ (j - 1) + 1 = j
  BY <1>1 DEF Places
<1> HIDE DEF P, Q
<1>5. f \in [P -> Q] /\ \A i \in P : f[i] = i + 1
  BY <1>3
<1>6. \A i, j \in P : f[i] = f[j] => i = j
  BY <1>3, <1>5
<1>7. \A j \in Q : \E i \in P : f[i] = j
  BY <1>4, <1>5
<1> HIDE DEF f
<1>8. f \in Bijection(P, Q)
  BY <1>5, <1>6, <1>7 DEF Bijection, Injection, Surjection, IsInjective
<1>9. Cardinality(Q) = Cardinality(P) /\ IsFiniteSet(Q)
  BY <1>2, <1>8, FS_Bijection DEF ExistsBijection
<1>10. CASE Head(q) = e
  <2>1. Places(q, e) = Q \union {1} /\ 1 \notin Q
    BY <1>1, <1>10 DEF Places, Q
  <2> QED
    BY <1>9, <1>10, <2>1, FS_AddElement DEF Count, P, t
<1>11. CASE Head(q) # e
  <2>1. Places(q, e) = Q
    BY <1>1, <1>11 DEF Places, Q
  <2> QED
    BY <1>9, <1>11, <2>1 DEF Count, P, t
<1> QED
  BY <1>10, <1>11

-----------------------------------------------------------------------------
(* The inductive invariant. *)

(* The lines that are passed on, if any kind of line is. *)
Text == LineKind \intersect {"text"}
Items == [stream : StreamKind, line : Text]

Shape ==
  /\ child \in {"running", "zombie", "reaped"} /\ kid \in {"alive", "gone"}
  /\ todo \in [StreamKind -> 0..MaxLines]
  /\ reader \in [StreamKind -> {"read", "send", "done"}]
  /\ line \in [StreamKind -> Text \union {NONE}]
  /\ \A s \in StreamKind : reader[s] = "send" => line[s] \in Text
  /\ pc \in {"loop", "notify", "wait", "done"} /\ token \in BOOLEAN
  /\ wrote \in [StreamKind -> Seq(LineKind)]
  /\ pipe \in [StreamKind -> Seq(LineKind)]
  /\ buffer \in [StreamKind -> Seq(Text)]
  /\ chan \in Seq(Items)

(* No pipe and no channel holds more than it has room for. *)
Roomy ==
  /\ \A s \in StreamKind : Len(pipe[s]) <= PIPE
  /\ Len(chan) <= CAPACITY

(* The lines of s that were read and passed on, or are about to be. *)
Sent(s) == [stream |-> s, line |-> "text"]
InHand(s) == IF reader[s] = "send" THEN 1 ELSE 0
Passed(s) == Len(buffer[s]) + Count(chan, Sent(s)) + InHand(s)

(* After r lines of w, all of them text, comes what is in the pipe p.      *)
Follows(w, r, p) == Len(w) = r + Len(p) /\ \A i \in 1..Len(p) : p[i] = w[r + i]

(* The first r lines of w are text, and they are all before another kind.  *)
AllText(w, r) == r <= Len(w) /\ \A i \in 1..r : w[i] = "text"
UpToOther(w, r) == r < Len(w) => w[r + 1] # "text"

Orderly(s) ==
  /\ AllText(wrote[s], Passed(s))
  /\ reader[s] # "done" => Follows(wrote[s], Passed(s), pipe[s])
  /\ reader[s] = "done" => UpToOther(wrote[s], Passed(s))

(* The loop ends with nothing on its way. *)
Drained ==
  pc \in {"wait", "done"} => chan = <<>> /\ \A s \in StreamKind : reader[s] = "done"

Inv == Shape /\ Roomy /\ (\A s \in StreamKind : Orderly(s)) /\ Drained

-----------------------------------------------------------------------------
(* A stream as sequences: what is written and what is in the pipe. *)

(* A line written goes to the end of both. *)
LEMMA FollowsWrite ==
  ASSUME NEW S, NEW w \in Seq(S), NEW p \in Seq(S), NEW l \in S, NEW r \in Nat,
         Follows(w, r, p)
  PROVE  Follows(Append(w, l), r, Append(p, l))
<1>1. /\ Len(w) \in Nat /\ Len(p) \in Nat /\ Len(w) = r + Len(p)
      /\ \A i \in 1..Len(p) : p[i] = w[r + i]
  BY DEF Follows
<1>2. /\ Len(Append(w, l)) = Len(w) + 1 /\ Len(Append(p, l)) = Len(p) + 1
      /\ \A i \in 1..Len(w) : Append(w, l)[i] = w[i]
      /\ \A i \in 1..Len(p) : Append(p, l)[i] = p[i]
      /\ Append(w, l)[Len(w) + 1] = l /\ Append(p, l)[Len(p) + 1] = l
  OBVIOUS
<1> DEFINE v == Append(w, l)
           q == Append(p, l)
<1> HIDE DEF v, q
<1>3. /\ Len(v) = Len(w) + 1 /\ Len(q) = Len(p) + 1
      /\ \A i \in 1..Len(w) : v[i] = w[i]
      /\ \A i \in 1..Len(p) : q[i] = p[i]
      /\ v[Len(w) + 1] = l /\ q[Len(p) + 1] = l
  BY <1>2 DEF v, q
<1>4. ASSUME NEW i \in 1..Len(q) PROVE q[i] = v[r + i]
  <2>1. CASE i \in 1..Len(p)
    <3>1. r + i \in 1..Len(w)
      BY <1>1, <2>1
    <3> QED
      BY <1>1, <1>3, <2>1, <3>1
  <2>2. CASE i = Len(p) + 1
    <3>1. r + i = Len(w) + 1
      BY <1>1, <2>2
    <3> QED
      BY <1>3, <2>2, <3>1
  <2> QED
    BY <1>1, <1>3, <2>1, <2>2
<1>5. Len(v) = r + Len(q)
  BY <1>1, <1>3
<1>6. Follows(v, r, q)
  BY <1>4, <1>5 DEF Follows
<1> QED
  BY <1>6 DEF v, q

(* The line read is the first that had not been read. *)
LEMMA FollowsRead ==
  ASSUME NEW S, NEW w \in Seq(S), NEW p \in Seq(S), p # <<>>, NEW r \in Nat,
         Follows(w, r, p)
  PROVE  /\ r + 1 <= Len(w) /\ w[r + 1] = Head(p)
         /\ Follows(w, r + 1, Tail(p))
<1>1. /\ Len(w) \in Nat /\ Len(p) \in Nat \ {0} /\ Len(w) = r + Len(p)
      /\ \A i \in 1..Len(p) : p[i] = w[r + i]
  BY DEF Follows
<1>2. /\ Len(Tail(p)) = Len(p) - 1 /\ Head(p) = p[1]
      /\ \A i \in 1..(Len(p) - 1) : Tail(p)[i] = p[i + 1]
  OBVIOUS
<1> DEFINE t == Tail(p)
           n == Len(p) - 1
<1>3. Len(t) = n /\ n \in Nat /\ \A i \in 1..n : t[i] = p[i + 1]
  BY <1>1, <1>2
<1>4. Len(w) = (r + 1) + n
  BY <1>1
<1>5. ASSUME NEW i \in 1..n PROVE t[i] = w[(r + 1) + i]
  <2>1. i + 1 \in 1..Len(p) /\ r + (i + 1) = (r + 1) + i
    BY <1>1
  <2> QED
    BY <1>1, <1>3, <2>1
<1>6. 1 \in 1..Len(p) /\ r + 1 <= Len(w)
  BY <1>1
<1>7. Follows(w, r + 1, t)
  <2> HIDE DEF t, n
  <2> QED
    BY <1>3, <1>4, <1>5 DEF Follows
<1> QED
  BY <1>1, <1>2, <1>6, <1>7

(* What was text is text also when more is written. *)
LEMMA TextWrite ==
  ASSUME NEW S, NEW w \in Seq(S), NEW l \in S, NEW r \in Nat, AllText(w, r)
  PROVE  AllText(Append(w, l), r)
<1>1. /\ Len(Append(w, l)) = Len(w) + 1 /\ Len(w) \in Nat
      /\ \A i \in 1..Len(w) : Append(w, l)[i] = w[i]
  OBVIOUS
<1>2. r <= Len(w) /\ \A i \in 1..r : w[i] = "text"
  BY DEF AllText
<1>3. \A i \in 1..r : i \in 1..Len(w)
  BY <1>1, <1>2
<1>4. r <= Len(Append(w, l))
  BY <1>1, <1>2
<1> QED
  BY <1>1, <1>2, <1>3, <1>4 DEF AllText

(* One more line of text is all text. *)
LEMMA TextRead ==
  ASSUME NEW w, NEW r \in Nat, AllText(w, r), r + 1 <= Len(w), w[r + 1] = "text"
  PROVE  AllText(w, r + 1)
<1>1. \A i \in 1..(r + 1) : i \in 1..r \/ i = r + 1
  OBVIOUS
<1> QED
  BY <1>1 DEF AllText

(* The number of lines passed on is a number. *)
LEMMA PassedType ==
  ASSUME Shape, NEW s \in StreamKind
  PROVE  /\ Passed(s) \in Nat
         /\ Len(buffer[s]) \in Nat /\ Count(chan, Sent(s)) \in Nat /\ InHand(s) \in {0, 1}
<1>1. buffer[s] \in Seq(Text) /\ chan \in Seq(Items)
  BY DEF Shape
<1>2. Count(chan, Sent(s)) \in Nat
  BY <1>1, PlacesFinite
<1>3. Len(buffer[s]) \in Nat
  BY <1>1
<1>4. InHand(s) \in {0, 1}
  BY DEF InHand
<1> QED
  BY <1>2, <1>3, <1>4 DEF Passed

(* A stream nothing happens to stays in order. *)
LEMMA Undisturbed ==
  ASSUME NEW s \in StreamKind, Orderly(s), wrote'[s] = wrote[s], pipe'[s] = pipe[s],
         reader'[s] = reader[s], Passed(s)' = Passed(s)
  PROVE  Orderly(s)'
<1> DEFINE r == Passed(s)
<1>1. /\ AllText(wrote[s], r)
      /\ reader[s] # "done" => Follows(wrote[s], r, pipe[s])
      /\ reader[s] = "done" => UpToOther(wrote[s], r)
  BY DEF Orderly
<1>2. r' = r
  OBVIOUS
<1> QED
  BY <1>1, <1>2 DEF Orderly, AllText, Follows, UpToOther

(* What is passed on, when nothing of it moves. *)
LEMMA PassedSame ==
  ASSUME NEW s \in StreamKind, buffer'[s] = buffer[s], UNCHANGED chan, reader'[s] = reader[s]
  PROVE  Passed(s)' = Passed(s)
BY DEF Passed, InHand, Count, Places, Sent

-----------------------------------------------------------------------------
(* The child *)

(* A line written goes to the end of the pipe. *)
LEMMA InvWrites ==
  ASSUME Inv, NEW s \in StreamKind, ChildWrites(s)
  PROVE  Inv'
<1>1. /\ child = "running" /\ todo[s] > 0 /\ reader[s] # "done" /\ Len(pipe[s]) < PIPE
      /\ todo' = [todo EXCEPT ![s] = todo[s] - 1]
      /\ UNCHANGED <<child, kid, reader, line, chan, pc, token, buffer>>
  BY DEF ChildWrites, readerVars, mainVars, Inv, Shape
<1>2. PICK l \in LineKind : /\ pipe' = [pipe EXCEPT ![s] = Append(pipe[s], l)]
                            /\ wrote' = [wrote EXCEPT ![s] = Append(wrote[s], l)]
  BY DEF ChildWrites, Inv, Shape
<1>3. /\ pipe \in [StreamKind -> Seq(LineKind)] /\ wrote \in [StreamKind -> Seq(LineKind)]
      /\ pipe[s] \in Seq(LineKind) /\ wrote[s] \in Seq(LineKind)
  BY DEF Inv, Shape
<1>4. /\ Append(pipe[s], l) \in Seq(LineKind) /\ Append(wrote[s], l) \in Seq(LineKind)
      /\ Len(Append(pipe[s], l)) = Len(pipe[s]) + 1 /\ Len(pipe[s]) \in Nat
  BY <1>3
<1>5. /\ pipe'[s] = Append(pipe[s], l) /\ wrote'[s] = Append(wrote[s], l)
      /\ \A t \in StreamKind \ {s} : pipe'[t] = pipe[t] /\ wrote'[t] = wrote[t]
  BY <1>2, <1>3
<1>6. Shape'
  <2>1. todo' \in [StreamKind -> 0..MaxLines]
    <3>1. todo \in [StreamKind -> 0..MaxLines]
      BY DEF Inv, Shape
    <3>2. todo[s] - 1 \in 0..MaxLines
      BY <1>1, <3>1, StreamAssumption
    <3> QED
      BY <1>1, <3>1, <3>2
  <2>2. pipe' \in [StreamKind -> Seq(LineKind)] /\ wrote' \in [StreamKind -> Seq(LineKind)]
    BY <1>2, <1>3, <1>4
  <2> QED
    BY <1>1, <2>1, <2>2 DEF Inv, Shape
<1>7. Roomy'
  <2>1. Len(pipe'[s]) <= PIPE
    BY <1>1, <1>4, <1>5, StreamAssumption
  <2> QED
    BY <1>1, <1>5, <2>1 DEF Inv, Roomy
<1>8. \A t \in StreamKind : Passed(t)' = Passed(t)
  BY <1>1, PassedSame
<1>9. \A t \in StreamKind \ {s} : Orderly(t)'
  BY <1>1, <1>5, <1>8, Undisturbed DEF Inv
<1>10. Orderly(s)'
  <2>1. Orderly(s) /\ Passed(s) \in Nat
    BY PassedType DEF Inv
  <2> DEFINE r == Passed(s)
  <2>2. AllText(wrote[s], r) /\ Follows(wrote[s], r, pipe[s])
    BY <1>1, <2>1 DEF Orderly
  <2>3. AllText(wrote'[s], r) /\ Follows(wrote'[s], r, pipe'[s])
    BY <1>3, <1>5, <2>1, <2>2, TextWrite, FollowsWrite
  <2>4. r' = r /\ reader'[s] # "done"
    BY <1>1, <1>8
  <2> HIDE DEF r
  <2>5. AllText(wrote[s], r)' /\ Follows(wrote[s], r, pipe[s])'
    BY <2>3, <2>4 DEF AllText, Follows
  <2> QED
    BY <2>4, <2>5 DEF Orderly, r
<1>11. Drained'
  BY <1>1 DEF Inv, Drained
<1> QED
  BY <1>6, <1>7, <1>9, <1>10, <1>11 DEF Inv

(* The ends of the child and of its descendant, and the steps of the loop  *)
(* that move no line.                                                      *)
LEMMA InvOthers ==
  ASSUME Inv, KidExits \/ ChildExits \/ NotifyTaken \/ LoopEnds \/ Wait
  PROVE  Inv'
<1>1. UNCHANGED <<todo, wrote, pipe, reader, line, chan, token, buffer>>
  BY DEF KidExits, ChildExits, NotifyTaken, LoopEnds, Wait, childVars, readerVars, mainVars
<1>2. /\ child' \in {"running", "zombie", "reaped"} /\ kid' \in {"alive", "gone"}
      /\ pc' \in {"loop", "notify", "wait", "done"}
  BY DEF KidExits, ChildExits, NotifyTaken, LoopEnds, Wait, childVars, readerVars, mainVars,
     Inv, Shape
<1>3. pc' \in {"wait", "done"} =>
        pc \in {"wait", "done"} \/ (chan = <<>> /\ \A s \in StreamKind : reader[s] = "done")
  BY DEF KidExits, ChildExits, NotifyTaken, LoopEnds, Wait, childVars, readerVars, mainVars
<1>4. Shape'
  BY <1>1, <1>2 DEF Inv, Shape
<1>5. Roomy'
  BY <1>1 DEF Inv, Roomy
<1>6. \A s \in StreamKind : Orderly(s)'
  BY <1>1, PassedSame, Undisturbed DEF Inv
<1>7. Drained'
  BY <1>1, <1>3 DEF Inv, Drained
<1> QED
  BY <1>4, <1>5, <1>6, <1>7 DEF Inv

-----------------------------------------------------------------------------
(* The readers *)

(* A line of text is in the hand of the reader, another one ends it. *)
LEMMA InvReads ==
  ASSUME Inv, NEW s \in StreamKind, ReaderReads(s)
  PROVE  Inv'
<1>1. /\ reader[s] = "read" /\ pipe[s] # <<>>
      /\ pipe' = [pipe EXCEPT ![s] = Tail(pipe[s])]
      /\ UNCHANGED <<child, kid, todo, wrote, chan, pc, token, buffer>>
      /\ \/ /\ Head(pipe[s]) = "text"
            /\ reader' = [reader EXCEPT ![s] = "send"]
            /\ line' = [line EXCEPT ![s] = Head(pipe[s])]
         \/ /\ Head(pipe[s]) # "text"
            /\ reader' = [reader EXCEPT ![s] = "done"]
            /\ UNCHANGED line
  BY DEF ReaderReads, childVars, mainVars, Inv, Shape
<1>2. /\ pipe \in [StreamKind -> Seq(LineKind)] /\ pipe[s] \in Seq(LineKind)
      /\ wrote[s] \in Seq(LineKind) /\ reader \in [StreamKind -> {"read", "send", "done"}]
      /\ line \in [StreamKind -> Text \union {NONE}]
  BY DEF Inv, Shape
<1>3. /\ Tail(pipe[s]) \in Seq(LineKind) /\ Head(pipe[s]) \in LineKind
      /\ Len(Tail(pipe[s])) <= Len(pipe[s]) /\ Len(Tail(pipe[s])) \in Nat /\ Len(pipe[s]) \in Nat
  BY <1>1, <1>2
<1>4. /\ pipe'[s] = Tail(pipe[s])
      /\ \A t \in StreamKind \ {s} : pipe'[t] = pipe[t] /\ reader'[t] = reader[t] /\ line'[t] = line[t]
  BY <1>1, <1>2
<1>5. \/ Head(pipe[s]) = "text" /\ reader'[s] = "send" /\ line'[s] = "text"
      \/ Head(pipe[s]) # "text" /\ reader'[s] = "done"
  BY <1>1, <1>2
<1>6. Shape'
  <2>1. pipe' \in [StreamKind -> Seq(LineKind)]
    BY <1>1, <1>2, <1>3
  <2>2. reader' \in [StreamKind -> {"read", "send", "done"}]
    BY <1>1, <1>2
  <2>3. Head(pipe[s]) = "text" => "text" \in Text
    BY <1>3 DEF Text
  <2>4. line' \in [StreamKind -> Text \union {NONE}]
    BY <1>1, <1>2, <2>3
  <2>5. \A t \in StreamKind : reader'[t] = "send" => line'[t] \in Text
    BY <1>4, <1>5, <2>3 DEF Inv, Shape
  <2> QED
    BY <1>1, <2>1, <2>2, <2>4, <2>5 DEF Inv, Shape
<1>7. Roomy'
  <2>1. Len(pipe'[s]) <= PIPE
    BY <1>3, <1>4, StreamAssumption DEF Inv, Roomy
  <2> QED
    BY <1>1, <1>4, <2>1 DEF Inv, Roomy
<1>8. \A t \in StreamKind \ {s} : Orderly(t)'
  BY <1>1, <1>4, PassedSame, Undisturbed DEF Inv
<1>9. Orderly(s)'
  <2> DEFINE r == Passed(s)
  <2>1. r \in Nat /\ AllText(wrote[s], r) /\ Follows(wrote[s], r, pipe[s])
    BY <1>1, PassedType DEF Inv, Orderly
  <2>2. /\ r + 1 <= Len(wrote[s]) /\ wrote[s][r + 1] = Head(pipe[s])
        /\ Follows(wrote[s], r + 1, Tail(pipe[s]))
    BY <1>1, <1>2, <2>1, FollowsRead
  <2>3. CASE Head(pipe[s]) = "text" /\ reader'[s] = "send"
    <3>1. InHand(s) = 0 /\ InHand(s)' = 1
      BY <1>1, <2>3 DEF InHand
    <3>2. Passed(s)' = Len(buffer[s]) + Count(chan, Sent(s)) + 1
      BY <1>1, <3>1 DEF Passed, Count, Places, Sent
    <3>3. r' = r + 1
      BY <3>1, <3>2, PassedType DEF Passed, Inv
    <3>4. AllText(wrote[s], r + 1)
      BY <2>1, <2>2, <2>3, TextRead
    <3> HIDE DEF r
    <3>5. AllText(wrote[s], r)' /\ Follows(wrote[s], r, pipe[s])'
      BY <1>1, <1>4, <2>2, <3>3, <3>4 DEF AllText, Follows
    <3> QED
      BY <2>3, <3>5 DEF Orderly, r
  <2>4. CASE Head(pipe[s]) # "text" /\ reader'[s] = "done"
    <3>1. InHand(s) = 0 /\ InHand(s)' = 0
      BY <1>1, <2>4 DEF InHand
    <3>2. r' = r
      BY <1>1, <3>1 DEF Passed, Count, Places, Sent
    <3> HIDE DEF r
    <3>3. AllText(wrote[s], r)' /\ UpToOther(wrote[s], r)'
      BY <1>1, <2>1, <2>2, <2>4, <3>2 DEF AllText, UpToOther
    <3> QED
      BY <2>4, <3>3 DEF Orderly, r
  <2> QED
    BY <1>5, <2>3, <2>4
<1>10. Drained'
  BY <1>1 DEF Inv, Drained
<1> QED
  BY <1>6, <1>7, <1>8, <1>9, <1>10 DEF Inv

(* At the end of the pipe everything written has been read. *)
LEMMA InvEnds ==
  ASSUME Inv, NEW s \in StreamKind, ReaderEnds(s)
  PROVE  Inv'
<1>1. /\ reader[s] = "read" /\ pipe[s] = <<>>
      /\ reader' = [reader EXCEPT ![s] = "done"]
      /\ UNCHANGED <<child, kid, todo, wrote, pipe, line, chan, pc, token, buffer>>
  BY DEF ReaderEnds, childVars, mainVars
<1>2. /\ reader \in [StreamKind -> {"read", "send", "done"}]
      /\ wrote[s] \in Seq(LineKind)
  BY DEF Inv, Shape
<1>3. reader'[s] = "done" /\ \A t \in StreamKind \ {s} : reader'[t] = reader[t]
  BY <1>1, <1>2
<1>4. Shape'
  <2>1. reader' \in [StreamKind -> {"read", "send", "done"}]
    BY <1>1, <1>2
  <2> QED
    BY <1>1, <1>3, <2>1 DEF Inv, Shape
<1>5. Roomy'
  BY <1>1 DEF Inv, Roomy
<1>6. \A t \in StreamKind \ {s} : Orderly(t)'
  BY <1>1, <1>3, PassedSame, Undisturbed DEF Inv
<1>7. Orderly(s)'
  <2> DEFINE r == Passed(s)
  <2>1. r \in Nat /\ AllText(wrote[s], r) /\ Follows(wrote[s], r, pipe[s])
    BY <1>1, PassedType DEF Inv, Orderly
  <2>2. Len(pipe[s]) = 0 /\ Len(wrote[s]) \in Nat
    BY <1>1, <1>2
  <2>3. InHand(s) = 0 /\ InHand(s)' = 0
    BY <1>1, <1>3 DEF InHand
  <2>4. r' = r
    BY <1>1, <2>3 DEF Passed, Count, Places, Sent
  <2> HIDE DEF r
  <2>5. ~(r < Len(wrote[s]))
    BY <2>1, <2>2 DEF Follows
  <2>6. AllText(wrote[s], r)' /\ UpToOther(wrote[s], r)'
    BY <1>1, <2>1, <2>4, <2>5 DEF AllText, UpToOther
  <2> QED
    BY <1>3, <2>6 DEF Orderly, r
<1>8. Drained'
  BY <1>1 DEF Inv, Drained
<1> QED
  BY <1>4, <1>5, <1>6, <1>7, <1>8 DEF Inv

(* The line in the hand of the reader goes into the channel. *)
LEMMA InvSends ==
  ASSUME Inv, NEW s \in StreamKind, ReaderSends(s)
  PROVE  Inv'
<1> DEFINE item == [stream |-> s, line |-> line[s]]
<1>1. /\ reader[s] = "send" /\ Len(chan) < CAPACITY
      /\ chan' = Append(chan, item)
      /\ reader' = [reader EXCEPT ![s] = "read"]
      /\ line' = [line EXCEPT ![s] = NONE]
      /\ UNCHANGED <<child, kid, todo, wrote, pipe, pc, token, buffer>>
  BY DEF ReaderSends, childVars, mainVars
<1>2. /\ reader \in [StreamKind -> {"read", "send", "done"}]
      /\ line \in [StreamKind -> Text \union {NONE}] /\ line[s] \in Text
      /\ chan \in Seq(Items)
  BY <1>1 DEF Inv, Shape
<1>3. reader'[s] = "read" /\ \A t \in StreamKind \ {s} : reader'[t] = reader[t] /\ line'[t] = line[t]
  BY <1>1, <1>2
<1>4. item \in Items /\ item = Sent(s) /\ \A t \in StreamKind : item = Sent(t) <=> t = s
  BY <1>2 DEF Items, Sent, Text
<1> HIDE DEF item
<1>5. chan' \in Seq(Items) /\ Len(chan') = Len(chan) + 1 /\ Len(chan) \in Nat
  <2>1. Append(chan, item) \in Seq(Items) /\ Len(Append(chan, item)) = Len(chan) + 1 /\ Len(chan) \in Nat
    BY <1>2, <1>4
  <2> QED
    BY <1>1, <2>1
<1>6. Shape'
  <2>1. reader' \in [StreamKind -> {"read", "send", "done"}] /\ line' \in [StreamKind -> Text \union {NONE}]
    BY <1>1, <1>2
  <2>2. \A t \in StreamKind : reader'[t] = "send" => line'[t] \in Text
    BY <1>3 DEF Inv, Shape
  <2> QED
    BY <1>1, <1>5, <2>1, <2>2 DEF Inv, Shape
<1>7. Roomy'
  <2>1. Len(chan') <= CAPACITY
    BY <1>1, <1>5, StreamAssumption
  <2> QED
    BY <1>1, <2>1 DEF Inv, Roomy
<1>8. \A t \in StreamKind : Passed(t)' = Passed(t)
  <2> SUFFICES ASSUME NEW t \in StreamKind PROVE Passed(t)' = Passed(t)
    OBVIOUS
  <2>1. IF item = Sent(t) THEN Count(Append(chan, item), Sent(t)) = Count(chan, Sent(t)) + 1
                          ELSE Count(Append(chan, item), Sent(t)) = Count(chan, Sent(t))
    BY <1>2, <1>4, CountAppend
  <2>2. Passed(t)' = Len(buffer[t]) + Count(Append(chan, item), Sent(t)) + InHand(t)'
    BY <1>1 DEF Passed, Count, Places, Sent
  <2>3. /\ Passed(t) = Len(buffer[t]) + Count(chan, Sent(t)) + InHand(t)
        /\ Len(buffer[t]) \in Nat /\ Count(chan, Sent(t)) \in Nat /\ InHand(t) \in {0, 1}
    BY PassedType DEF Inv, Passed
  <2>4. CASE t = s
    <3>1. InHand(t) = 1 /\ InHand(t)' = 0
      BY <1>1, <1>3, <2>4 DEF InHand
    <3> QED
      BY <1>4, <2>1, <2>2, <2>3, <2>4, <3>1
  <2>5. CASE t # s
    <3>1. InHand(t)' = InHand(t)
      BY <1>3, <2>5 DEF InHand
    <3> QED
      BY <1>4, <2>1, <2>2, <2>3, <2>5, <3>1
  <2> QED
    BY <2>4, <2>5
<1>9. \A t \in StreamKind \ {s} : Orderly(t)'
  BY <1>1, <1>3, <1>8, Undisturbed DEF Inv
<1>10. Orderly(s)'
  <2> DEFINE r == Passed(s)
  <2>1. AllText(wrote[s], r) /\ Follows(wrote[s], r, pipe[s])
    BY <1>1 DEF Inv, Orderly
  <2>2. r' = r
    BY <1>8
  <2> HIDE DEF r
  <2>3. AllText(wrote[s], r)' /\ Follows(wrote[s], r, pipe[s])'
    BY <1>1, <2>1, <2>2 DEF AllText, Follows
  <2> QED
    BY <1>3, <2>3 DEF Orderly, r
<1>11. Drained'
  BY <1>1 DEF Inv, Drained
<1> QED
  BY <1>6, <1>7, <1>9, <1>10, <1>11 DEF Inv

-----------------------------------------------------------------------------
(* The loop *)

(* The line that was sent first goes to the end of its buffer. *)
LEMMA InvReceives ==
  ASSUME Inv, Receive
  PROVE  Inv'
<1> DEFINE item == Head(chan)
           s == item.stream
<1>1. /\ pc = "loop" /\ chan # <<>> /\ chan' = Tail(chan)
      /\ pc' \in {"notify", "loop"}
      /\ UNCHANGED <<child, kid, todo, wrote, pipe, reader, line, token>>
  BY DEF Receive, childVars, readerVars
<1>2. chan \in Seq(Items) /\ buffer \in [StreamKind -> Seq(Text)]
  BY DEF Inv, Shape
<1>3. /\ item \in Items /\ Tail(chan) \in Seq(Items)
      /\ Len(Tail(chan)) <= Len(chan) /\ Len(Tail(chan)) \in Nat /\ Len(chan) \in Nat
  BY <1>1, <1>2
<1>4. s \in StreamKind /\ item.line \in Text /\ \A t \in StreamKind : item = Sent(t) <=> t = s
  BY <1>3 DEF Items, Sent, Text
<1>5. buffer' = [buffer EXCEPT ![s] = Append(buffer[s], item.line)]
  BY <1>2, <1>4 DEF Receive
<1> HIDE DEF s, item
<1>6. /\ buffer'[s] = Append(buffer[s], item.line)
      /\ \A t \in StreamKind \ {s} : buffer'[t] = buffer[t]
  BY <1>2, <1>4, <1>5
<1>7. Append(buffer[s], item.line) \in Seq(Text)
      /\ Len(Append(buffer[s], item.line)) = Len(buffer[s]) + 1
  BY <1>2, <1>4
<1>8. Shape'
  <2>1. buffer' \in [StreamKind -> Seq(Text)]
    BY <1>2, <1>4, <1>5, <1>7
  <2> QED
    BY <1>1, <1>3, <2>1 DEF Inv, Shape
<1>9. Roomy'
  <2>1. Len(chan') <= CAPACITY
    BY <1>1, <1>3, StreamAssumption DEF Inv, Roomy
  <2> QED
    BY <1>1, <2>1 DEF Inv, Roomy
<1>10. \A t \in StreamKind : Passed(t)' = Passed(t)
  <2> SUFFICES ASSUME NEW t \in StreamKind PROVE Passed(t)' = Passed(t)
    OBVIOUS
  <2>1. Count(chan, Sent(t)) = IF Head(chan) = Sent(t) THEN Count(Tail(chan), Sent(t)) + 1
                                                       ELSE Count(Tail(chan), Sent(t))
    BY <1>1, <1>2, CountTail
  <2>2. Passed(t)' = Len(buffer'[t]) + Count(Tail(chan), Sent(t)) + InHand(t)
    BY <1>1 DEF Passed, Count, Places, Sent, InHand
  <2>3. /\ Passed(t) = Len(buffer[t]) + Count(chan, Sent(t)) + InHand(t)
        /\ Len(buffer[t]) \in Nat /\ Count(chan, Sent(t)) \in Nat /\ InHand(t) \in {0, 1}
    BY PassedType DEF Inv, Passed
  <2>4. Count(Tail(chan), Sent(t)) \in Nat
    BY <1>3, PlacesFinite
  <2>5. CASE t = s
    <3>1. Len(buffer'[t]) = Len(buffer[t]) + 1
      BY <1>6, <1>7, <2>5
    <3>2. Count(chan, Sent(t)) = Count(Tail(chan), Sent(t)) + 1
      BY <1>4, <2>1, <2>5 DEF item
    <3> QED
      BY <2>2, <2>3, <2>4, <3>1, <3>2
  <2>6. CASE t # s
    <3>1. Count(chan, Sent(t)) = Count(Tail(chan), Sent(t)) /\ buffer'[t] = buffer[t]
      BY <1>4, <1>6, <2>1, <2>6 DEF item
    <3> QED
      BY <2>2, <2>3, <2>4, <3>1
  <2> QED
    BY <2>5, <2>6
<1>11. \A t \in StreamKind : Orderly(t)'
  BY <1>1, <1>10, Undisturbed DEF Inv
<1>12. Drained'
  BY <1>1 DEF Drained
<1> QED
  BY <1>8, <1>9, <1>11, <1>12 DEF Inv

-----------------------------------------------------------------------------
(* Nothing has been written at first. *)
LEMMA InvInit == Init => Inv
<1> SUFFICES ASSUME Init PROVE Inv
  OBVIOUS
<1>1. <<>> \in Seq(LineKind) /\ <<>> \in Seq(Text) /\ <<>> \in Seq(Items) /\ Len(<<>>) = 0
  OBVIOUS
<1>2. Shape
  BY <1>1 DEF Init, Shape
<1>3. Roomy
  BY <1>1, StreamAssumption DEF Init, Roomy
<1>4. ASSUME NEW s \in StreamKind PROVE Orderly(s)
  <2>1. chan = <<>> /\ buffer[s] = <<>> /\ wrote[s] = <<>> /\ pipe[s] = <<>> /\ reader[s] = "read"
    BY DEF Init
  <2>2. Count(chan, Sent(s)) = 0 /\ InHand(s) = 0 /\ Len(buffer[s]) = 0
    BY <2>1, CountEmpty DEF InHand
  <2>3. Passed(s) = 0
    BY <2>2 DEF Passed
  <2> QED
    BY <2>1, <2>3, <1>1 DEF Orderly, AllText, Follows
<1>5. Drained
  BY DEF Init, Drained
<1> QED
  BY <1>2, <1>3, <1>4, <1>5 DEF Inv

(* Every step, and every stutter, keeps the lines in order. *)
LEMMA InvStep == Inv /\ [Next]_vars => Inv'
<1> SUFFICES ASSUME Inv, [Next]_vars PROVE Inv'
  OBVIOUS
<1>1. CASE KidExits \/ ChildExits \/ NotifyTaken \/ LoopEnds \/ Wait
  BY <1>1, InvOthers
<1>2. CASE Receive
  BY <1>2, InvReceives
<1>3. ASSUME NEW s \in StreamKind, ChildWrites(s) \/ ReaderNext(s)
      PROVE  Inv'
  BY <1>3, InvWrites, InvReads, InvEnds, InvSends DEF ReaderNext
<1>4. CASE UNCHANGED vars
  <2>1. UNCHANGED <<child, kid, todo, wrote, pipe, reader, line, chan, pc, token, buffer>>
    BY <1>4 DEF vars, childVars, readerVars, mainVars
  <2>2. Shape' /\ Roomy' /\ Drained'
    BY <2>1 DEF Inv, Shape, Roomy, Drained
  <2>3. \A s \in StreamKind : Orderly(s)'
    BY <2>1, PassedSame, Undisturbed DEF Inv
  <2> QED
    BY <2>2, <2>3 DEF Inv
<1> QED
  BY <1>1, <1>2, <1>3, <1>4 DEF Next, ChildNext, MainNext

(* The invariant holds always. *)
LEMMA InvAlways == Spec => []Inv
<1> QED
  BY InvInit, InvStep, PTL DEF Spec

(* So many lines of text are those lines of text. *)
LEMMA TextIs ==
  ASSUME NEW b \in Seq(Text), NEW S, NEW w \in Seq(S), AllText(w, Len(b))
  PROVE  b = SubSeq(w, 1, Len(b))
<1> DEFINE r == Len(b)
<1>1. r \in Nat /\ r <= Len(w) /\ Len(w) \in Nat /\ \A i \in 1..r : w[i] = "text"
  BY DEF AllText
<1>2. \A i \in 1..r : b[i] = "text"
  <2>1. \A i \in 1..r : b[i] \in Text
    OBVIOUS
  <2> QED
    BY <2>1 DEF Text
<1>3. b = [i \in 1..r |-> b[i]]
  OBVIOUS
<1>4. SubSeq(w, 1, r) = [i \in 1..r |-> w[i]]
  BY <1>1
<1> HIDE DEF r
<1>5. [i \in 1..r |-> b[i]] = [i \in 1..r |-> w[i]]
  BY <1>1, <1>2
<1> QED
  BY <1>3, <1>4, <1>5 DEF r

(* The invariant gives the property. *)
LEMMA ResultIs == Inv => ResultIsComplete
<1> SUFFICES ASSUME Inv PROVE ResultIsComplete
  OBVIOUS
<1>1. TypeOK
  <2>1. \A s \in StreamKind : buffer[s] \in Seq(LineKind)
    <3> SUFFICES ASSUME NEW s \in StreamKind PROVE buffer[s] \in Seq(LineKind)
      OBVIOUS
    <3>1. buffer[s] \in Seq(Text) /\ Text \subseteq LineKind
      BY DEF Inv, Shape, Text
    <3> QED
      BY <3>1
  <2>2. \A i \in DOMAIN chan : chan[i].stream \in StreamKind
    <3>1. \A i \in DOMAIN chan : chan[i] \in Items
      BY DEF Inv, Shape
    <3> QED
      BY <3>1 DEF Items
  <2>3. line \in [StreamKind -> LineKind \union {NONE}]
    BY DEF Inv, Shape, Text
  <2> QED
    BY <2>1, <2>2, <2>3 DEF Inv, Shape, Roomy, TypeOK
<1>2. ASSUME pc = "done", NEW s \in StreamKind, \A i \in DOMAIN wrote[s] : IsText(wrote[s][i])
      PROVE  buffer[s] = wrote[s]
  <2> DEFINE w == wrote[s]
             r == Len(buffer[s])
  <2>1. chan = <<>> /\ reader[s] = "done"
    BY <1>2 DEF Inv, Drained
  <2>2. Count(chan, Sent(s)) = 0 /\ InHand(s) = 0 /\ r \in Nat
    BY <2>1, CountEmpty, PassedType DEF InHand, Inv
  <2>3. Passed(s) = r
    BY <2>2 DEF Passed
  <2>4. AllText(w, r) /\ UpToOther(w, r)
    BY <2>1, <2>3 DEF Inv, Orderly
  <2>5. w \in Seq(LineKind) /\ buffer[s] \in Seq(Text)
    BY DEF Inv, Shape
  <2>6. buffer[s] = SubSeq(w, 1, r)
    BY <2>4, <2>5, TextIs
  <2>7. DOMAIN w = 1..Len(w) /\ Len(w) \in Nat /\ w = SubSeq(w, 1, Len(w))
    BY <2>5
  <2> HIDE DEF w, r
  <2>8. ~(r < Len(w))
    <3> SUFFICES ASSUME r < Len(w) PROVE FALSE
      OBVIOUS
    <3>1. r + 1 \in DOMAIN w
      BY <2>2, <2>7
    <3>2. w[r + 1] = "text"
      BY <1>2, <3>1 DEF w, IsText
    <3> QED
      BY <2>4, <3>2 DEF UpToOther
  <2>9. r = Len(w)
    <3>1. r \in Nat /\ Len(w) \in Nat
      BY <2>2, <2>7
    <3>2. r <= Len(w)
      BY <2>4 DEF AllText
    <3> QED
      BY <2>8, <3>1, <3>2
  <2>10. buffer[s] = w
    BY <2>6, <2>7, <2>9
  <2> QED
    BY <2>10 DEF w
<1> QED
  BY <1>1, <1>2 DEF ResultIsComplete

(* The result has all of each stream that is text, whatever the other one  *)
(* is, and no pipe and no channel overflows.                               *)
THEOREM ResultIsCompleteHolds == Spec => []ResultIsComplete
<1> QED
  BY InvAlways, ResultIs, PTL
=============================================================================
