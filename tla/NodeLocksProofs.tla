-------------------------- MODULE NodeLocksProofs --------------------------
(***************************************************************************)
(* Theorems about NodeLocks for every wiring without a cycle, stage and pool    *)
(* size: no function is evaluated twice, and pool threads block each other for   *)
(* good only if no order of the nodes agrees with the lists of inputs they       *)
(* follow.  The argument for that is the classic one of ordered locking, for      *)
(* locks that are acquired down a call stack: every lock a thread holds ranks at  *)
(* least as high as the one it asks for.                                      *)
(***************************************************************************)
EXTENDS NodeLocks, SequenceTheorems, WellFoundedInduction, TLAPS

-----------------------------------------------------------------------------
(* Stacks of calls. *)

(* The locks the calls of a stack hold. *)
Held(s) == UNION {FrameHolds(s[k]) : k \in 1 .. Len(s)}

Stacks == {s \in Seq(Frame) : \A k \in 1 .. Len(s) : s[k].got <= Len(Inputs[s[k].node])}

(* Each call was made for the next input of its caller. *)
Chained(s) ==
    \A k \in 1 .. Len(s) - 1 :
        s[k].got < Len(Inputs[s[k].node]) /\ s[k + 1].node = NextInput(s[k])

(* A call's node ranks below its callers and below the locks they hold. *)
Descends(rank, s) ==
  /\ \A k \in 1 .. Len(s) : s[k].node \in DOMAIN rank
  /\ \A i, j \in 1 .. Len(s) : i < j =>
        /\ rank[s[j].node] < rank[s[i].node]
        /\ \A h \in FrameHolds(s[i]) : rank[s[j].node] <= rank[h]

LEMMA InputIsNode ==
    ASSUME NEW n \in Nodes, NEW i \in 1 .. Len(Inputs[n])
    PROVE Inputs[n][i] \in Nodes
BY InputsAssumption, ElementOfSeq

LEMMA HeldAreNodes ==
    ASSUME NEW s \in Stacks
    PROVE Held(s) \subseteq Nodes
<1> SUFFICES ASSUME NEW k \in 1 .. Len(s) PROVE FrameHolds(s[k]) \subseteq Nodes
  BY DEF Held
<1>1. s[k] \in Frame /\ s[k].got <= Len(Inputs[s[k].node])
  BY ElementOfSeq DEF Stacks
<1>2. s[k].node \in Nodes /\ s[k].got \in Nat /\ Len(Inputs[s[k].node]) \in Nat
  BY <1>1, InputsAssumption, LenProperties DEF Frame
<1> QED BY <1>1, <1>2, InputIsNode DEF FrameHolds, Collected

(* A new call adds its node's lock. *)
LEMMA AfterCall ==
    ASSUME NEW s \in Stacks, NEW v \in Nodes
    PROVE LET r == Append(s, [node |-> v, got |-> 0])
          IN  /\ r \in Stacks
              /\ Len(r) = Len(s) + 1
              /\ \A k \in 1 .. Len(s) : r[k] = s[k]
              /\ r[Len(s) + 1] = [node |-> v, got |-> 0]
              /\ Held(r) = Held(s) \cup {v}
<1> DEFINE f == [node |-> v, got |-> 0]
           r == Append(s, f)
<1>1. s \in Seq(Frame) /\ f \in Frame
  BY DEF Stacks, Frame
<1>2. /\ r \in Seq(Frame) /\ Len(r) = Len(s) + 1 /\ Len(s) \in Nat
      /\ \A k \in 1 .. Len(s) : r[k] = s[k]
      /\ r[Len(s) + 1] = f
  BY <1>1, AppendProperties, LenProperties
<1>3. Len(Inputs[v]) \in Nat
  BY InputsAssumption, LenProperties
<1>4. \A k \in 1 .. Len(r) : r[k].got <= Len(Inputs[r[k].node])
  BY <1>2, <1>3 DEF Stacks
<1>5. FrameHolds(f) = {v}
  BY DEF FrameHolds, Collected
<1> HIDE DEF r, f
<1>6. Held(r) = Held(s) \cup {v}
  BY <1>2, <1>5 DEF Held
<1> QED BY <1>1, <1>2, <1>4, <1>6 DEF Stacks, r, f

(* Collecting an input adds its lock to those of the top call. *)
LEMMA AfterInput ==
    ASSUME NEW s \in Stacks, s # <<>>, s[Len(s)].got < Len(Inputs[s[Len(s)].node])
    PROVE /\ OneMore(s) \in Stacks
          /\ Len(OneMore(s)) = Len(s)
          /\ \A k \in 1 .. Len(s) : OneMore(s)[k].node = s[k].node
          /\ \A k \in 1 .. Len(s) - 1 : OneMore(s)[k] = s[k]
          /\ Held(OneMore(s)) = Held(s) \cup {NextInput(s[Len(s)])}
<1> DEFINE n == Len(s)
           r == OneMore(s)
<1>1. s \in Seq(Frame) /\ n \in Nat \ {0} /\ s[n] \in Frame
  BY EmptySeq, LenProperties, ElementOfSeq DEF Stacks
<1>2. s[n].got \in Nat /\ s[n].node \in Nodes /\ Len(Inputs[s[n].node]) \in Nat
  BY <1>1, InputsAssumption, LenProperties DEF Frame
<1>3. r = [s EXCEPT ![n] = [s[n] EXCEPT !.got = @ + 1]]
  BY DEF OneMore
<1>4. [s[n] EXCEPT !.got = @ + 1] \in Frame
  BY <1>1, <1>2 DEF Frame
<1>5. /\ r \in Seq(Frame) /\ Len(r) = n
      /\ \A k \in 1 .. n - 1 : r[k] = s[k]
      /\ r[n] = [s[n] EXCEPT !.got = @ + 1]
  <2> DEFINE e == [s[n] EXCEPT !.got = @ + 1]
  <2>1. r = [s EXCEPT ![n] = e] /\ e \in Frame /\ s \in Seq(Frame) /\ n \in Nat \ {0} /\ n = Len(s)
    BY <1>1, <1>3, <1>4
  <2> HIDE DEF e, r, n
  <2>2. n \in 1 .. Len(s) /\ (\A k \in 1 .. n - 1 : k \in 1 .. Len(s) /\ k # n)
    BY ONLY <2>1
  <2>3. /\ r \in Seq(Frame) /\ Len(r) = Len(s)
        /\ \A k \in 1 .. Len(s) : r[k] = IF k = n THEN e ELSE s[k]
    BY ONLY <2>1, <2>2, ExceptSeq
  <2> QED BY <2>1, <2>2, <2>3 DEF e
<1>6. r[n].node = s[n].node /\ r[n].got = s[n].got + 1
  BY <1>1, <1>5 DEF Frame
<1>7. FrameHolds(r[n]) = FrameHolds(s[n]) \cup {NextInput(s[n])}
  <2> DEFINE v == s[n].node
             k == s[n].got
  <2>1. k \in Nat /\ 1 .. k + 1 = (1 .. k) \cup {k + 1}
    BY <1>2
  <2>2. FrameHolds(s[n]) = {v} \cup {Inputs[v][i] : i \in 1 .. k}
    BY DEF FrameHolds, Collected
  <2>3. FrameHolds(r[n]) = {v} \cup {Inputs[v][i] : i \in 1 .. k + 1}
    BY <1>6 DEF FrameHolds, Collected
  <2>4. NextInput(s[n]) = Inputs[v][k + 1]
    BY DEF NextInput
  <2> DEFINE A == 1 .. k
             B == 1 .. k + 1
             input(i) == Inputs[v][i]
  <2>5. B = A \cup {k + 1}
    BY <2>1
  <2>6. {input(i) : i \in B} = {input(i) : i \in A} \cup {input(k + 1)}
    <3> HIDE DEF v, k, A, B, input
    <3> QED BY ONLY <2>5
  <2> QED BY <2>2, <2>3, <2>4, <2>6
<1> HIDE DEF r, n
<1>8. Held(r) = Held(s) \cup {NextInput(s[n])}
  <2>1. n \in 1 .. n /\ \A k \in 1 .. n : k = n \/ k \in 1 .. n - 1
    BY <1>1
  <2>2. \A k \in 1 .. n - 1 : k \in 1 .. n /\ r[k] = s[k]
    BY <1>1, <1>5
  <2>3. \A k \in 1 .. n : k = n \/ FrameHolds(r[k]) = FrameHolds(s[k])
    BY ONLY <2>1, <2>2
  <2>4. \A x : x \in Held(r) <=> \E k \in 1 .. n : x \in FrameHolds(r[k])
    BY <1>5 DEF Held
  <2>5. \A x : x \in Held(s) <=> \E k \in 1 .. n : x \in FrameHolds(s[k])
    BY DEF Held, n
  <2>6. \A x : x \in Held(r) <=> x \in Held(s) \/ x = NextInput(s[n])
    BY ONLY <1>7, <2>1, <2>3, <2>4, <2>5
  <2> QED BY ONLY <2>6
<1>9. \A k \in 1 .. n : k = n \/ k \in 1 .. n - 1
  BY <1>1
<1>10. \A k \in 1 .. n : r[k].got <= Len(Inputs[r[k].node])
  <2>1. s[n].got + 1 <= Len(Inputs[s[n].node])
    BY <1>2 DEF n
  <2>2. \A k \in 1 .. n : s[k].got <= Len(Inputs[s[k].node])
    BY DEF Stacks, n
  <2>3. ASSUME NEW k \in 1 .. n PROVE r[k].got <= Len(Inputs[r[k].node])
    <3>1. CASE k = n
      BY <1>6, <2>1, <3>1
    <3>2. CASE k # n
      <4>1. k \in 1 .. n - 1
        BY <1>9, <3>2
      <4>2. r[k] = s[k]
        BY <1>5, <4>1
      <4>3. s[k].got <= Len(Inputs[s[k].node])
        BY <2>2
      <4> QED BY <4>2, <4>3
    <3> QED BY <3>1, <3>2
  <2> QED BY <2>3
<1>11. \A k \in 1 .. n : r[k].node = s[k].node
  BY <1>5, <1>6, <1>9
<1> QED BY <1>5, <1>8, <1>10, <1>11 DEF Stacks, r, n

(* A call that ends gives its locks back. *)
LEMMA AfterEnd ==
    ASSUME NEW s \in Stacks, s # <<>>
    PROVE /\ Rest(s) \in Stacks
          /\ Len(Rest(s)) = Len(s) - 1
          /\ \A k \in 1 .. Len(s) - 1 : Rest(s)[k] = s[k]
          /\ Held(Rest(s)) \subseteq Held(s)
<1>1. s \in Seq(Frame) /\ Len(s) \in Nat \ {0}
  BY EmptySeq, LenProperties DEF Stacks
<1> DEFINE n == Len(s) - 1
<1>2. n \in Nat /\ \A k \in 1 .. n : s[k] \in Frame
  BY <1>1, ElementOfSeq
<1> HIDE DEF n
<1>3. /\ SubSeq(s, 1, n) \in Seq(Frame)
      /\ Len(SubSeq(s, 1, n)) = IF 1 <= n THEN n - 1 + 1 ELSE 0
      /\ \A k \in 1 .. n - 1 + 1 : SubSeq(s, 1, n)[k] = s[1 + k - 1]
  BY <1>2, SubSeqProperties
<1>4. /\ Rest(s) \in Seq(Frame) /\ Len(Rest(s)) = n
      /\ \A k \in 1 .. n : Rest(s)[k] = s[k]
  <2>1. Rest(s) = SubSeq(s, 1, n)
    BY DEF Rest, n
  <2>2. \A k \in 1 .. n : k \in 1 .. n - 1 + 1 /\ 1 + k - 1 = k
    BY <1>2
  <2> QED BY <1>2, <1>3, <2>1, <2>2
<1>5. \A k \in 1 .. n : k \in 1 .. Len(s)
  BY <1>1 DEF n
<1>6. Rest(s) \in Stacks
  BY <1>4, <1>5 DEF Stacks
<1>7. Held(Rest(s)) \subseteq Held(s)
  BY <1>4, <1>5 DEF Held
<1> QED BY <1>4, <1>6, <1>7 DEF n

(* What the caller has when its call returned: no lock it had not before.       *)
LEMMA AfterReturn ==
    ASSUME NEW s \in Stacks, Len(s) > 1, Chained(s)
    PROVE LET r == OneMore(Rest(s))
          IN  /\ r \in Stacks
              /\ Len(r) = Len(s) - 1
              /\ \A k \in 1 .. Len(s) - 1 : r[k].node = s[k].node
              /\ \A k \in 1 .. Len(s) - 2 : r[k] = s[k]
              /\ Held(r) \subseteq Held(s)
<1> DEFINE q == Rest(s)
           n == Len(s) - 1
<1>1. s \in Seq(Frame) /\ Len(s) \in Nat /\ n \in Nat \ {0} /\ s # <<>>
  BY LenProperties DEF Stacks
<1>2. /\ q \in Stacks /\ Len(q) = n /\ Held(q) \subseteq Held(s)
      /\ \A k \in 1 .. n : q[k] = s[k]
  BY <1>1, AfterEnd
<1>3. q # <<>> /\ q[n] = s[n]
  BY <1>1, <1>2
<1>4. q[n].got < Len(Inputs[q[n].node]) /\ NextInput(q[n]) = s[n + 1].node
  BY <1>1, <1>3 DEF Chained
<1>5. n + 1 \in 1 .. Len(s)
  BY <1>1
<1>6. s[n + 1].node \in Held(s)
  BY <1>5 DEF Held, FrameHolds
<1> HIDE DEF q, n
<1>7. /\ OneMore(q) \in Stacks /\ Len(OneMore(q)) = n
      /\ \A k \in 1 .. n : OneMore(q)[k].node = q[k].node
      /\ \A k \in 1 .. n - 1 : OneMore(q)[k] = q[k]
      /\ Held(OneMore(q)) = Held(q) \cup {NextInput(q[n])}
  BY <1>2, <1>3, <1>4, AfterInput
<1>8. \A k \in 1 .. n - 1 : k \in 1 .. n
  BY <1>1
<1>9. \A k \in 1 .. n : OneMore(q)[k].node = s[k].node
  BY <1>2, <1>7
<1>10. \A k \in 1 .. n - 1 : OneMore(q)[k] = s[k]
  BY <1>2, <1>7, <1>8
<1>11. Held(OneMore(q)) \subseteq Held(s)
  BY <1>2, <1>4, <1>6, <1>7
<1>12. n - 1 = Len(s) - 2
  BY <1>1 DEF n
<1> QED BY <1>7, <1>9, <1>10, <1>11, <1>12 DEF q, n

(* A stack whose calls were made by the last one of s, or that lost calls of s,  *)
(* is chained as s is: only the top call may change.                          *)
LEMMA ChainStays ==
    ASSUME NEW s \in Stacks, NEW r \in Stacks, Chained(s), Len(r) <= Len(s),
           \A k \in 1 .. Len(r) : r[k].node = s[k].node,
           \A k \in 1 .. Len(r) - 1 : r[k] = s[k]
    PROVE Chained(r)
<1>1. Len(s) \in Nat /\ Len(r) \in Nat
  BY LenProperties DEF Stacks
<1>2. \A k \in 1 .. Len(r) - 1 : k \in 1 .. Len(s) - 1 /\ k + 1 \in 1 .. Len(r)
  BY <1>1
<1> QED BY <1>2 DEF Chained

LEMMA DescentStays ==
    ASSUME NEW rank, NEW s \in Stacks, NEW r \in Stacks, Descends(rank, s), Len(r) <= Len(s),
           \A k \in 1 .. Len(r) : r[k].node = s[k].node,
           \A k \in 1 .. Len(r) - 1 : r[k] = s[k]
    PROVE Descends(rank, r)
<1>1. Len(s) \in Nat /\ Len(r) \in Nat
  BY LenProperties DEF Stacks
<1>0. \A k \in 1 .. Len(r) : r[k].node \in DOMAIN rank
  <2>1. \A k \in 1 .. Len(r) : k \in 1 .. Len(s)
    BY <1>1
  <2> QED BY <2>1 DEF Descends
<1> SUFFICES ASSUME NEW i \in 1 .. Len(r), NEW j \in 1 .. Len(r), i < j
             PROVE /\ rank[r[j].node] < rank[r[i].node]
                   /\ \A h \in FrameHolds(r[i]) : rank[r[j].node] <= rank[h]
  BY <1>0 DEF Descends
<1>2. i \in 1 .. Len(r) - 1 /\ i \in 1 .. Len(s) /\ j \in 1 .. Len(s)
  BY <1>1
<1>3. r[i] = s[i] /\ r[j].node = s[j].node
  BY <1>2
<1> QED BY <1>2, <1>3 DEF Descends

(* Whatever a stack of ranked nodes holds is ranked. *)
LEMMA HeldAreRanked ==
    ASSUME NEW rank, Follows(rank), NEW s \in Stacks, Descends(rank, s)
    PROVE Held(s) \subseteq DOMAIN rank
<1> SUFFICES ASSUME NEW k \in 1 .. Len(s) PROVE FrameHolds(s[k]) \subseteq DOMAIN rank
  BY DEF Held
<1>1. s[k].node \in DOMAIN rank /\ s[k] \in Frame /\ s[k].got <= Len(Inputs[s[k].node])
  BY ElementOfSeq DEF Stacks, Descends
<1>2. s[k].node \in Nodes /\ s[k].got \in Nat
  BY <1>1 DEF Frame
<1>3. Len(Inputs[s[k].node]) \in Nat
  BY <1>2, InputsAssumption, LenProperties
<1>4. \A i \in 1 .. s[k].got : i \in 1 .. Len(Inputs[s[k].node])
  BY <1>1, <1>2, <1>3
<1>5. \A i \in 1 .. s[k].got : Inputs[s[k].node][i] \in DOMAIN rank
  BY <1>1, <1>4 DEF Follows
<1> QED BY <1>1, <1>5 DEF FrameHolds, Collected

(* The next input of the top call ranks below all locks of the stack. *)
LEMMA NextRanksLowest ==
    ASSUME NEW rank, Follows(rank), NEW s \in Stacks, s # <<>>, Descends(rank, s),
           s[Len(s)].got < Len(Inputs[s[Len(s)].node])
    PROVE /\ NextInput(s[Len(s)]) \in DOMAIN rank
          /\ \A h \in Held(s) : rank[NextInput(s[Len(s)])] <= rank[h]
          /\ \A k \in 1 .. Len(s) : rank[NextInput(s[Len(s)])] < rank[s[k].node]
<1> DEFINE n == Len(s)
           m == s[n].node
           g == s[n].got
           v == NextInput(s[n])
<1>1. s \in Seq(Frame) /\ n \in Nat \ {0} /\ s[n] \in Frame
  BY EmptySeq, LenProperties, ElementOfSeq DEF Stacks
<1>2. m \in Nodes /\ g \in Nat /\ Len(Inputs[m]) \in Nat /\ g < Len(Inputs[m])
  BY <1>1, InputsAssumption, LenProperties DEF Frame
<1>3. g + 1 \in 1 .. Len(Inputs[m]) /\ v = Inputs[m][g + 1]
  BY <1>2 DEF NextInput
<1>0. m \in DOMAIN rank
  <2>1. n \in 1 .. n
    BY <1>1
  <2> QED BY <2>1 DEF Descends
<1>4. v \in DOMAIN rank
  BY <1>0, <1>3 DEF Follows
<1>5. rank[v] < rank[m] /\ \A i \in 1 .. g + 1 : rank[v] <= rank[Inputs[m][i]]
  BY <1>0, <1>3 DEF Follows
<1>6. \A h \in Held(s) : rank[h] \in Nat
  BY HeldAreRanked DEF Follows
<1>7. \A k \in 1 .. n : s[k].node \in Held(s)
  BY DEF Held, FrameHolds
<1>8. rank[v] \in Nat /\ rank[m] \in Nat
  BY <1>0, <1>4 DEF Follows
<1>9. \A h \in FrameHolds(s[n]) : rank[v] <= rank[h]
  <2>1. \A i \in 1 .. g : i \in 1 .. g + 1
    BY <1>2
  <2>2. \A h \in Collected(s[n]) : rank[v] <= rank[h]
    BY <1>5, <2>1 DEF Collected
  <2>3. rank[v] <= rank[m]
    BY <1>5, <1>8
  <2> QED BY <2>2, <2>3 DEF FrameHolds
<1>10. ASSUME NEW k \in 1 .. n, k # n
       PROVE /\ rank[v] < rank[s[k].node]
             /\ \A h \in FrameHolds(s[k]) : rank[v] <= rank[h]
  <2>1. k < n /\ n \in 1 .. n
    BY <1>1, <1>10
  <2>2. rank[m] < rank[s[k].node] /\ \A h \in FrameHolds(s[k]) : rank[m] <= rank[h]
    BY <2>1 DEF Descends
  <2>3. \A h \in FrameHolds(s[k]) : h \in Held(s)
    BY DEF Held
  <2> HIDE DEF v, m, n
  <2>4. \A h \in FrameHolds(s[k]) : rank[v] <= rank[h]
    BY <1>5, <1>6, <1>8, <2>2, <2>3
  <2> QED BY <1>5, <1>6, <1>7, <1>8, <2>2, <2>4
<1> HIDE DEF v, g
<1> QED BY <1>4, <1>5, <1>9, <1>10 DEF Held, v

-----------------------------------------------------------------------------
(* What a step does to the stacks: a thread enters its own node, calls an input,  *)
(* takes the lock of one that is settled, loses its top call, or returns from it. *)
Enter(t) ==
    /\ stack[t] = <<>>
    /\ Free(t, t)
    /\ Unsettled(t)
    /\ stack' = [stack EXCEPT ![t] = <<[node |-> t, got |-> 0]>>]
    /\ UNCHANGED <<settled, evals>>

Call(t) ==
    /\ Collecting(t)
    /\ Free(t, NextInput(Top(t)))
    /\ Unsettled(NextInput(Top(t)))
    /\ stack' = [stack EXCEPT ![t] = Append(@, [node |-> NextInput(Top(t)), got |-> 0])]
    /\ UNCHANGED <<settled, evals>>

Take(t) ==
    /\ Collecting(t)
    /\ Free(t, NextInput(Top(t)))
    /\ stack' = [stack EXCEPT ![t] = OneMore(@)]
    /\ UNCHANGED <<settled, evals>>

(* A call that ends has settled its node, by evaluating it or by an error. *)
Settles(t) ==
    /\ stack[t] # <<>>
    /\ settled' = settled \cup {Top(t).node}
    /\ \/ UNCHANGED evals
       \/ evals' = [evals EXCEPT ![Top(t).node] = @ + 1]

Drop(t) ==
    /\ Settles(t)
    /\ stack' = [stack EXCEPT ![t] = Rest(@)]

Hand(t) ==
    /\ Settles(t)
    /\ Len(stack[t]) > 1
    /\ stack' = [stack EXCEPT ![t] = OneMore(Rest(@))]

Rested ==
    \A t \in Stage : /\ thread[t] \in {"pending", "done"} => stack[t] = <<>>
                     /\ thread[t] = "raising" => stack[t] # <<>>

StacksOK == stack \in [Stage -> Stacks] /\ Rested

LEMMA StacksOfTypes == TypeOK /\ Rested => StacksOK
BY DEF TypeOK, StacksOK, Stacks

LEMMA RestOfOne ==
    ASSUME NEW s \in Stacks, s # <<>>
    PROVE Rest(s) = <<>> <=> Len(s) = 1
<1>1. Len(s) \in Nat \ {0} /\ Rest(s) \in Seq(Frame) /\ Len(Rest(s)) = Len(s) - 1
  BY EmptySeq, LenProperties, AfterEnd DEF Stacks
<1>2. Rest(s) = <<>> <=> Len(Rest(s)) = 0
  BY <1>1, EmptySeq
<1>3. \A n \in Nat \ {0} : n - 1 = 0 <=> n = 1
  OBVIOUS
<1> QED BY <1>1, <1>2, <1>3

LEMMA StepsAreMoves ==
    ASSUME StacksOK, [Next]_vars
    PROVE \/ UNCHANGED <<stack, settled, evals>>
          \/ \E t \in Stage : Enter(t) \/ Call(t) \/ Take(t) \/ Drop(t) \/ Hand(t)
<1>1. ASSUME NEW t \in Stage, LockOwn(t)
      PROVE Enter(t) \/ UNCHANGED <<stack, settled, evals>>
  BY <1>1 DEF LockOwn, Enter
<1>2. ASSUME NEW t \in Stage, LockInput(t) PROVE Call(t) \/ Take(t)
  BY <1>2 DEF LockInput, Call, Take
<1>3. ASSUME NEW t \in Stage, stack[t] # <<>>, Settles(t), Return(t) \/ Throw(t)
      PROVE Drop(t) \/ Hand(t)
  <2>1. stack[t] \in Stacks /\ Len(stack[t]) \in Nat \ {0}
    BY <1>3, EmptySeq, LenProperties DEF StacksOK, Stacks
  <2>2. CASE Throw(t)
    BY <1>3, <2>2 DEF Throw, Drop
  <2>3. CASE Return(t) /\ Len(stack[t]) = 1
    BY <1>3, <2>1, <2>3, RestOfOne DEF Return, Drop
  <2>4. ASSUME Return(t), Len(stack[t]) # 1 PROVE Hand(t)
    <3>1. Len(stack[t]) > 1
      <4>1. \A n \in Nat \ {0} : n # 1 => n > 1
        OBVIOUS
      <4> QED BY <2>1, <2>4, <4>1
    <3>2. stack' = [stack EXCEPT ![t] = OneMore(Rest(@))]
      BY <2>4 DEF Return
    <3> QED BY <1>3, <3>1, <3>2 DEF Hand
  <2> QED BY <1>3, <2>2, <2>3, <2>4
<1>4. ASSUME NEW t \in Stage, Evaluate(t) \/ Canceled(t) \/ Unwind(t)
      PROVE stack[t] # <<>> /\ Settles(t) /\ (Return(t) \/ Throw(t))
  BY <1>4 DEF Evaluate, Canceled, Unwind, Settles, StacksOK, Rested
<1>5. ASSUME NEW t \in Stage, Submit(t) PROVE UNCHANGED <<stack, settled, evals>>
  BY <1>5 DEF Submit
<1>6. CASE Terminated \/ UNCHANGED vars
  BY <1>6 DEF Terminated, vars
<1> QED BY <1>1, <1>2, <1>3, <1>4, <1>5, <1>6 DEF Next, ThreadStep

(* A move changes one stack, to a well-formed one that is chained as the old one  *)
(* was, and holds a lock the old one did not only if it was free.              *)
LEMMA MovesOfStacks ==
    ASSUME StacksOK, NEW t \in Stage, Chained(stack[t]),
           Enter(t) \/ Call(t) \/ Take(t) \/ Drop(t) \/ Hand(t)
    PROVE \E r \in Stacks :
            /\ stack' = [stack EXCEPT ![t] = r]
            /\ Chained(r)
            /\ \A h \in Held(r) \ Held(stack[t]) : Free(t, h)
            /\ \A rank : Follows(rank) /\ t \in DOMAIN rank /\ Descends(rank, stack[t])
                          => Descends(rank, r)
<1> DEFINE s == stack[t]
<1>1. s \in Stacks /\ s \in Seq(Frame) /\ Len(s) \in Nat
  BY LenProperties DEF StacksOK, Stacks
<1>2. s # <<>> => Len(s) \in Nat \ {0}
  BY <1>1, EmptySeq
<1>3. CASE Enter(t)
  <2> DEFINE r == <<[node |-> t, got |-> 0]>>
  <2>1. t \in Nodes
    BY StageAssumption
  <2>2. r = Append(<<>>, [node |-> t, got |-> 0])
    OBVIOUS
  <2>3. <<>> \in Stacks /\ Len(<<>>) = 0
    BY <1>1, <1>3, EmptySeq DEF Enter
  <2>4. r \in Stacks /\ Len(r) = 1 /\ Held(r) = Held(<<>>) \cup {t}
    BY <2>1, <2>2, <2>3, AfterCall
  <2>5. Chained(r) /\ \A rank : t \in DOMAIN rank => Descends(rank, r)
    <3>1. r[1].node = t /\ \A k \in 1 .. Len(r) : k = 1
      BY <2>4
    <3> QED BY <2>4, <3>1 DEF Chained, Descends
  <2>6. \A h \in Held(r) \ Held(stack[t]) : Free(t, h)
    BY <1>3, <2>4 DEF Enter
  <2> QED BY <1>3, <2>4, <2>5, <2>6 DEF Enter
<1>4. ASSUME Call(t) \/ Take(t)
      PROVE /\ s # <<>> /\ s[Len(s)].got < Len(Inputs[s[Len(s)].node])
            /\ Top(t) = s[Len(s)] /\ Free(t, NextInput(s[Len(s)]))
            /\ Len(Inputs[s[Len(s)].node]) \in Nat /\ s[Len(s)].got \in Nat
            /\ NextInput(s[Len(s)]) \in Nodes
  <2>1. s # <<>> /\ Top(t) = s[Len(s)] /\ Free(t, NextInput(s[Len(s)]))
        /\ s[Len(s)].got < Len(Inputs[s[Len(s)].node])
    BY <1>4 DEF Call, Take, Collecting, Top
  <2>2. s[Len(s)] \in Frame
    BY <1>1, <1>2, <2>1, ElementOfSeq
  <2>3. s[Len(s)].node \in Nodes /\ s[Len(s)].got \in Nat
    BY <2>2 DEF Frame
  <2>4. Len(Inputs[s[Len(s)].node]) \in Nat
    BY <2>3, InputsAssumption, LenProperties
  <2>5. NextInput(s[Len(s)]) \in Nodes
    <3>1. s[Len(s)].got + 1 \in 1 .. Len(Inputs[s[Len(s)].node])
      BY <2>1, <2>3, <2>4
    <3> QED BY <2>3, <3>1, InputIsNode DEF NextInput
  <2> QED BY <2>1, <2>3, <2>4, <2>5
<1>5. CASE Call(t)
  <2> DEFINE v == NextInput(s[Len(s)])
             r == Append(s, [node |-> v, got |-> 0])
  <2>1. /\ r \in Stacks /\ Len(r) = Len(s) + 1
        /\ \A k \in 1 .. Len(s) : r[k] = s[k]
        /\ r[Len(s) + 1] = [node |-> v, got |-> 0]
        /\ Held(r) = Held(s) \cup {v}
    BY <1>1, <1>4, <1>5, AfterCall
  <2>2. stack' = [stack EXCEPT ![t] = r]
    BY <1>4, <1>5 DEF Call
  <2>3. Free(t, v) /\ v \in Nodes
    BY <1>4, <1>5
  <2>4. s # <<>> /\ s[Len(s)].got < Len(Inputs[s[Len(s)].node])
    BY <1>4, <1>5
  <2> HIDE DEF r, s
  <2>5. Chained(r)
    <3> SUFFICES ASSUME NEW k \in 1 .. Len(s)
                 PROVE /\ r[k].got < Len(Inputs[r[k].node])
                       /\ r[k + 1].node = NextInput(r[k])
      BY <1>1, <2>1 DEF Chained
    <3>1. CASE k = Len(s)
      BY <2>1, <2>4, <3>1 DEF v
    <3>2. CASE k # Len(s)
      <4>1. k \in 1 .. Len(s) - 1 /\ k + 1 \in 1 .. Len(s)
        BY <1>1, <3>2
      <4> QED BY <2>1, <4>1 DEF Chained, s
    <3> QED BY <3>1, <3>2
  <2>6. ASSUME NEW rank, Follows(rank), Descends(rank, s) PROVE Descends(rank, r)
    <3>1. /\ \A h \in Held(s) : rank[v] <= rank[h]
          /\ \A k \in 1 .. Len(s) : rank[v] < rank[s[k].node]
          /\ v \in DOMAIN rank
      BY <1>1, <2>4, <2>6, NextRanksLowest
    <3>0. \A k \in 1 .. Len(r) : r[k].node \in DOMAIN rank
      <4>1. \A k \in 1 .. Len(r) : k \in 1 .. Len(s) \/ k = Len(s) + 1
        BY <1>1, <2>1
      <4>2. \A k \in 1 .. Len(s) : s[k].node \in DOMAIN rank
        BY <2>6 DEF Descends
      <4> QED BY <2>1, <3>1, <4>1, <4>2
    <3> SUFFICES ASSUME NEW i \in 1 .. Len(r), NEW j \in 1 .. Len(r), i < j
                 PROVE /\ rank[r[j].node] < rank[r[i].node]
                       /\ \A h \in FrameHolds(r[i]) : rank[r[j].node] <= rank[h]
      BY <3>0 DEF Descends
    <3>2. i \in 1 .. Len(s) /\ r[i] = s[i]
      BY <1>1, <2>1
    <3>3. FrameHolds(s[i]) \subseteq Held(s)
      BY <3>2 DEF Held
    <3>4. CASE j = Len(s) + 1
      BY <2>1, <3>1, <3>2, <3>3, <3>4
    <3>5. CASE j # Len(s) + 1
      <4>1. j \in 1 .. Len(s) /\ r[j] = s[j]
        BY <1>1, <2>1, <3>5
      <4> QED BY <2>6, <3>2, <4>1 DEF Descends
    <3> QED BY <3>4, <3>5
  <2>7. \A h \in Held(r) \ Held(stack[t]) : Free(t, h)
    BY <2>1, <2>3 DEF s
  <2> QED BY <2>1, <2>2, <2>5, <2>6, <2>7 DEF s
<1>6. CASE Take(t)
  <2> DEFINE r == OneMore(s)
  <2>1. /\ r \in Stacks /\ Len(r) = Len(s)
        /\ \A k \in 1 .. Len(s) : r[k].node = s[k].node
        /\ \A k \in 1 .. Len(s) - 1 : r[k] = s[k]
        /\ Held(r) = Held(s) \cup {NextInput(s[Len(s)])}
    BY <1>1, <1>4, <1>6, AfterInput
  <2>2. stack' = [stack EXCEPT ![t] = r] /\ Free(t, NextInput(s[Len(s)]))
    BY <1>4, <1>6 DEF Take
  <2>3. Len(r) <= Len(s)
    BY <1>1, <2>1
  <2> HIDE DEF r
  <2>4. Chained(r) /\ \A rank : Descends(rank, s) => Descends(rank, r)
    BY <1>1, <2>1, <2>3, ChainStays, DescentStays
  <2> QED BY <2>1, <2>2, <2>4
<1>7. CASE Drop(t)
  <2> DEFINE r == Rest(s)
  <2>1. s # <<>> /\ stack' = [stack EXCEPT ![t] = r]
    BY <1>7 DEF Drop, Settles
  <2>2. /\ r \in Stacks /\ Len(r) = Len(s) - 1 /\ Held(r) \subseteq Held(s)
        /\ \A k \in 1 .. Len(s) - 1 : r[k] = s[k]
    BY <1>1, <2>1, AfterEnd
  <2> HIDE DEF r
  <2>3. /\ Len(r) <= Len(s)
        /\ \A k \in 1 .. Len(r) : r[k] = s[k]
        /\ \A k \in 1 .. Len(r) - 1 : r[k] = s[k]
    BY <1>1, <2>2
  <2>4. Chained(r) /\ \A rank : Descends(rank, s) => Descends(rank, r)
    BY <1>1, <2>2, <2>3, ChainStays, DescentStays
  <2> QED BY <2>1, <2>2, <2>4
<1>8. CASE Hand(t)
  <2> DEFINE r == OneMore(Rest(s))
  <2>1. Len(s) > 1 /\ stack' = [stack EXCEPT ![t] = r]
    BY <1>8 DEF Hand
  <2>2. /\ r \in Stacks /\ Len(r) = Len(s) - 1 /\ Held(r) \subseteq Held(s)
        /\ \A k \in 1 .. Len(s) - 1 : r[k].node = s[k].node
        /\ \A k \in 1 .. Len(s) - 2 : r[k] = s[k]
    BY <1>1, <2>1, AfterReturn
  <2> HIDE DEF r
  <2>3. /\ Len(r) <= Len(s)
        /\ \A k \in 1 .. Len(r) : r[k].node = s[k].node
        /\ \A k \in 1 .. Len(r) - 1 : r[k] = s[k]
    BY <1>1, <2>1, <2>2
  <2>4. Chained(r) /\ \A rank : Descends(rank, s) => Descends(rank, r)
    BY <1>1, <2>2, <2>3, ChainStays, DescentStays
  <2> QED BY <2>1, <2>2, <2>4
<1> QED BY <1>3, <1>5, <1>6, <1>7, <1>8

-----------------------------------------------------------------------------
(* The invariant: the stacks are as the calls make them; a lock has one holder;   *)
(* a node on a stack is not settled, and a settled node is evaluated once.      *)
Exclusive == \A t, u \in Stage : t # u => Held(stack[t]) \cap Held(stack[u]) = {}

Chains == \A t \in Stage : Chained(stack[t])

Open == \A t \in Stage : \A k \in 1 .. Len(stack[t]) : stack[t][k].node \notin settled

Counted == \A n \in Nodes : evals[n] <= 1 /\ (n \notin settled => evals[n] = 0)

Descending ==
    \A rank : Follows(rank) => \A t \in Stage \cap DOMAIN rank : Descends(rank, stack[t])

IInv ==
    /\ TypeOK
    /\ Rested
    /\ Chains
    /\ Exclusive
    /\ Descending
    /\ Open
    /\ Counted

LEMMA HoldsIsHeld == \A t : Holds(t) = Held(stack[t])
BY DEF Holds, Held

LEMMA InitStacks ==
    Init => /\ stack \in [Stage -> Stacks] /\ Rested /\ Chains /\ Exclusive /\ Open
            /\ Descending
<1>1. <<>> \in Stacks /\ Len(<<>>) = 0
  BY EmptySeq DEF Stacks
<1>2. Held(<<>>) = {} /\ Chained(<<>>) /\ \A rank : Descends(rank, <<>>)
  BY <1>1 DEF Held, Chained, Descends
<1> QED BY <1>1, <1>2 DEF Init, Rested, Chains, Exclusive, Open, Descending

LEMMA InitTypes == Init => TypeOK /\ Rested
<1>1. ASSUME Init PROVE stack \in [Stage -> Seq(Frame)] /\ \A t \in Stage : Len(stack[t]) = 0
  BY <1>1, EmptySeq DEF Init
<1>2. ASSUME Init PROVE \A t \in Stage : \A k \in 1 .. Len(stack[t]) : FALSE
  BY <1>1, <1>2
<1> QED BY <1>1, <1>2, InitStacks, ComputedAssumption DEF Init, TypeOK

(* The types of the other variables need nothing but themselves. *)
LEMMA TypesStay ==
    ASSUME TypeOK, Rested, Chains, [Next]_vars
    PROVE TypeOK' /\ Rested'
<1>1. StacksOK
  BY StacksOfTypes
<1>2. stack' \in [Stage -> Stacks]
  BY <1>1, StepsAreMoves, MovesOfStacks DEF StacksOK, Chains
<1>3. stack' \in [Stage -> Seq(Frame)]
      /\ \A t \in Stage : \A k \in 1 .. Len(stack'[t]) :
            stack'[t][k].got <= Len(Inputs[stack'[t][k].node])
  BY <1>2 DEF Stacks
<1>4. \A t \in Stage : stack[t] # <<>> => Top(t).node \in Nodes
  <2> SUFFICES ASSUME NEW t \in Stage, stack[t] # <<>> PROVE Top(t).node \in Nodes
    OBVIOUS
  <2>1. stack[t] \in Seq(Frame) /\ Len(stack[t]) \in Nat \ {0}
    BY EmptySeq, LenProperties DEF TypeOK
  <2>2. Top(t) \in Frame
    BY <2>1, ElementOfSeq DEF Top
  <2> QED BY <2>2 DEF Frame
<1>5. settled' \in SUBSET Nodes /\ evals' \in [Nodes -> Nat]
  <2>1. CASE UNCHANGED <<settled, evals>>
    BY <2>1 DEF TypeOK
  <2>2. ASSUME NEW t \in Stage, Settles(t)
        PROVE settled' \in SUBSET Nodes /\ evals' \in [Nodes -> Nat]
    BY <1>4, <2>2 DEF TypeOK, Settles
  <2> QED BY <1>1, <2>1, <2>2, StepsAreMoves DEF Enter, Call, Take, Drop, Hand
<1>6. thread' \in [Stage -> {"pending", "running", "raising", "done"}]
  BY DEF TypeOK, Next, ThreadStep, Submit, LockOwn, LockInput, Evaluate, Canceled, Unwind,
         Return, Throw, Terminated, vars
<1>7. Rested'
  <2>1. ASSUME NEW t \in Stage, Submit(t) \/ LockOwn(t) PROVE Rested'
    <3>1. <<[node |-> t, got |-> 0]>> # <<>>
      OBVIOUS
    <3> QED BY <2>1, <3>1 DEF TypeOK, Rested, Submit, LockOwn
  <2>2. ASSUME NEW t \in Stage, LockInput(t) PROVE Rested'
    BY <2>2, <1>1 DEF TypeOK, Rested, LockInput, Collecting
  <2>3. ASSUME NEW t \in Stage, Evaluate(t) \/ Canceled(t) \/ Unwind(t) PROVE Rested'
    <3>1. stack[t] \in Stacks /\ stack[t] # <<>> /\ thread[t] \in {"running", "raising"}
      BY <1>1, <2>3 DEF StacksOK, Rested, Evaluate, Canceled, Unwind
    <3>2. Rest(stack[t]) = <<>> <=> Len(stack[t]) = 1
      BY <3>1, RestOfOne
    <3>3. CASE Throw(t)
      BY <3>2, <3>3 DEF TypeOK, Rested, Throw
    <3>4. CASE Return(t) /\ thread[t] = "running"
      BY <3>4 DEF TypeOK, Rested, Return
    <3> QED BY <2>3, <3>3, <3>4 DEF Evaluate, Canceled, Unwind
  <2>4. CASE Terminated \/ UNCHANGED vars
    BY <2>4 DEF Rested, Terminated, vars
  <2> QED BY <2>1, <2>2, <2>3, <2>4 DEF Next, ThreadStep
<1> QED BY <1>3, <1>5, <1>6, <1>7 DEF TypeOK

(* Locks keep one holder, and stacks their order. *)
LEMMA StacksStay ==
    ASSUME TypeOK, Rested, Chains, Exclusive, [Next]_vars
    PROVE /\ Chains'
          /\ Exclusive'
          /\ Descending => Descending'
<1>1. StacksOK /\ stack \in [Stage -> Stacks]
  BY StacksOfTypes DEF StacksOK
<1>2. CASE UNCHANGED <<stack, settled, evals>>
  BY <1>2 DEF Chains, Exclusive, Descending
<1>3. ASSUME NEW t \in Stage, Enter(t) \/ Call(t) \/ Take(t) \/ Drop(t) \/ Hand(t)
      PROVE /\ Chains'
            /\ Exclusive'
            /\ Descending => Descending'
  <2>1. Chained(stack[t])
    BY DEF Chains
  <2>2. PICK r \in Stacks :
          /\ stack' = [stack EXCEPT ![t] = r]
          /\ Chained(r)
          /\ \A h \in Held(r) \ Held(stack[t]) : Free(t, h)
          /\ \A k : Follows(k) /\ t \in DOMAIN k /\ Descends(k, stack[t]) => Descends(k, r)
    BY <1>1, <1>3, <2>1, MovesOfStacks
  <2>3. stack'[t] = r /\ \A u \in Stage \ {t} : stack'[u] = stack[u]
    BY <1>1, <2>2
  <2>4. Chains'
    BY <2>2, <2>3 DEF Chains
  <2>5. ASSUME NEW u \in Stage \ {t} PROVE Held(r) \cap Held(stack[u]) = {}
    <3>1. Held(stack[t]) \cap Held(stack[u]) = {}
      BY DEF Exclusive
    <3>2. \A h \in Held(r) \ Held(stack[t]) : h \notin Held(stack[u])
      BY <2>2, HoldsIsHeld DEF Free, Others
    <3> QED BY <3>1, <3>2
  <2>6. Exclusive'
    <3> SUFFICES ASSUME NEW a \in Stage, NEW b \in Stage, a # b
                 PROVE Held(stack'[a]) \cap Held(stack'[b]) = {}
      BY DEF Exclusive
    <3>1. CASE a = t
      BY <2>3, <2>5, <3>1
    <3>2. CASE b = t
      BY <2>3, <2>5, <3>2
    <3>3. CASE a # t /\ b # t
      BY <2>3, <3>3 DEF Exclusive
    <3> QED BY <3>1, <3>2, <3>3
  <2>7. Descending => Descending'
    BY <2>2, <2>3 DEF Descending
  <2> QED BY <2>4, <2>6, <2>7
<1> QED BY <1>1, <1>2, <1>3, StepsAreMoves

(* A call on a stack is of a node whose lock the stack holds. *)
LEMMA CallHoldsItsNode ==
    ASSUME NEW s, NEW k \in 1 .. Len(s)
    PROVE s[k].node \in Held(s)
BY DEF Held, FrameHolds

(* On a stack no two calls are of one node: the nodes of the calls between would  *)
(* all have an input among themselves.                                        *)
LEMMA CalledOnce ==
    ASSUME NEW s \in Stacks, Chained(s),
           NEW i \in 1 .. Len(s), NEW j \in 1 .. Len(s), i < j
    PROVE s[i].node # s[j].node
<1> SUFFICES ASSUME s[i].node = s[j].node PROVE FALSE
  OBVIOUS
<1>1. Len(s) \in Nat /\ i \in Nat /\ j \in Nat
  BY LenProperties DEF Stacks
<1> DEFINE U == {s[k].node : k \in i + 1 .. j}
<1>2. ASSUME NEW k \in i .. j - 1
      PROVE \E h \in 1 .. Len(Inputs[s[k].node]) : Inputs[s[k].node][h] \in U
  <2>1. k \in 1 .. Len(s) - 1 /\ k + 1 \in i + 1 .. j /\ k \in 1 .. Len(s)
    BY <1>1
  <2>2. s[k] \in Frame
    BY <2>1, ElementOfSeq DEF Stacks
  <2>3. s[k].got \in Nat /\ Len(Inputs[s[k].node]) \in Nat
    BY <2>2, InputsAssumption, LenProperties DEF Frame
  <2>4. s[k].got < Len(Inputs[s[k].node]) /\ s[k + 1].node = Inputs[s[k].node][s[k].got + 1]
    BY <2>1 DEF Chained, NextInput
  <2>5. s[k].got + 1 \in 1 .. Len(Inputs[s[k].node])
    BY <2>3, <2>4
  <2>6. s[k + 1].node \in U
    BY <2>1
  <2> QED BY <2>4, <2>5, <2>6
<1>3. U \in SUBSET Nodes /\ s[j].node \in U
  <2>1. \A k \in i + 1 .. j : k \in 1 .. Len(s)
    BY <1>1
  <2>2. ASSUME NEW k \in i + 1 .. j PROVE s[k].node \in Nodes
    <3>1. s[k] \in Frame
      BY <2>1, ElementOfSeq DEF Stacks
    <3> QED BY <3>1 DEF Frame
  <2>3. j \in i + 1 .. j
    BY <1>1
  <2> QED BY <2>2, <2>3
<1>4. ASSUME NEW n \in U PROVE \E h \in 1 .. Len(Inputs[n]) : Inputs[n][h] \in U
  <2>1. PICK k \in i + 1 .. j : n = s[k].node
    OBVIOUS
  <2> HIDE DEF U
  <2>2. CASE k = j
    <3>1. i \in i .. j - 1
      BY <1>1
    <3> QED BY <1>2, <2>1, <2>2, <3>1
  <2>3. CASE k # j
    <3>1. k \in i .. j - 1
      BY <1>1, <2>3
    <3> QED BY <1>2, <2>1, <3>1
  <2> QED BY <2>2, <2>3
<1> HIDE DEF U
<1> QED BY <1>3, <1>4, AcyclicAssumption

(* Calls enter unsettled nodes; the call that settles its node is the only one of *)
(* that node on any stack.                                                    *)
LEMMA OpenStays ==
    ASSUME IInv, [Next]_vars
    PROVE Open' /\ Counted'
<1>1. StacksOK /\ stack \in [Stage -> Stacks]
  BY StacksOfTypes DEF StacksOK, IInv
<1>2. \A t \in Stage : stack[t] \in Stacks /\ Len(stack[t]) \in Nat
  BY <1>1, LenProperties DEF Stacks
<1>3. CASE UNCHANGED <<stack, settled, evals>>
  BY <1>3 DEF IInv, Open, Counted
<1>4. ASSUME NEW t \in Stage, NEW v \in Nodes, v \notin settled, UNCHANGED <<settled, evals>>,
             NEW s \in Stacks, s = stack[t] \/ s = <<>>,
             stack' = [stack EXCEPT ![t] = Append(s, [node |-> v, got |-> 0])]
      PROVE Open' /\ Counted'
  <2> DEFINE r == Append(s, [node |-> v, got |-> 0])
  <2>1. /\ Len(r) = Len(s) + 1
        /\ \A k \in 1 .. Len(s) : r[k] = s[k]
        /\ r[Len(s) + 1].node = v
    BY AfterCall
  <2>2. Len(s) \in Nat /\ \A k \in 1 .. Len(s) : s[k].node \notin settled
    BY <1>2, <1>4, EmptySeq DEF IInv, Open
  <2> HIDE DEF r
  <2>3. \A k \in 1 .. Len(r) : k \in 1 .. Len(s) \/ k = Len(s) + 1
    BY <2>1, <2>2
  <2>4. \A k \in 1 .. Len(r) : r[k].node \notin settled
    BY <1>4, <2>1, <2>2, <2>3
  <2>5. stack'[t] = r /\ \A u \in Stage \ {t} : stack'[u] = stack[u]
    BY <1>1, <1>4 DEF r
  <2> QED BY <1>4, <2>4, <2>5 DEF IInv, Open, Counted
<1>5. ASSUME NEW t \in Stage, Settles(t), NEW r,
             stack' = [stack EXCEPT ![t] = r],
             Len(r) = Len(stack[t]) - 1,
             \A k \in 1 .. Len(stack[t]) - 1 : r[k].node = stack[t][k].node
      PROVE Open' /\ Counted'
  <2> DEFINE s == stack[t]
             n == Top(t).node
  <2>1. s \in Stacks /\ Len(s) \in Nat \ {0} /\ n = s[Len(s)].node
    BY <1>1, <1>2, <1>5, EmptySeq DEF Settles, Top, Stacks
  <2>2. Len(s) \in 1 .. Len(s)
    BY <2>1
  <2>3. n \in Held(s) /\ n \notin settled
    BY <2>1, <2>2, CallHoldsItsNode DEF IInv, Open
  <2>4. n \in Nodes
    BY <2>1, <2>3, HeldAreNodes
  <2>5. settled' = settled \cup {n}
    BY <1>5 DEF Settles
  <2>6. \A k \in 1 .. Len(s) - 1 : s[k].node # n
    <3>1. \A k \in 1 .. Len(s) - 1 : k \in 1 .. Len(s) /\ k < Len(s)
      BY <2>1
    <3> QED BY <2>1, <2>2, <3>1, CalledOnce DEF IInv, Chains
  <2>7. \A u \in Stage \ {t} : \A k \in 1 .. Len(stack[u]) : stack[u][k].node # n
    BY <2>3, CallHoldsItsNode DEF IInv, Exclusive
  <2>8. stack'[t] = r /\ \A u \in Stage \ {t} : stack'[u] = stack[u]
    BY <1>1, <1>5
  <2> HIDE DEF n, s
  <2>9. \A k \in 1 .. Len(r) : r[k].node \notin settled'
    <3>1. \A k \in 1 .. Len(r) : k \in 1 .. Len(s) - 1 /\ k \in 1 .. Len(s)
      BY <1>5, <2>1 DEF s
    <3>2. \A k \in 1 .. Len(s) : s[k].node \notin settled
      BY DEF IInv, Open, s
    <3> QED BY <1>5, <2>5, <2>6, <3>1, <3>2 DEF s
  <2>10. Open'
    <3> SUFFICES ASSUME NEW u \in Stage, NEW k \in 1 .. Len(stack'[u])
                 PROVE stack'[u][k].node \notin settled'
      BY DEF Open
    <3>1. CASE u = t
      BY <2>8, <2>9, <3>1
    <3>2. CASE u # t
      BY <2>5, <2>7, <2>8, <3>2 DEF IInv, Open
    <3> QED BY <3>1, <3>2
  <2>11. Counted'
    <3>1. evals[n] = 0 /\ evals \in [Nodes -> Nat]
      BY <2>3, <2>4 DEF IInv, TypeOK, Counted
    <3>2. evals' = evals \/ evals' = [evals EXCEPT ![n] = @ + 1]
      BY <1>5 DEF Settles, n
    <3> QED BY <2>4, <2>5, <3>1, <3>2 DEF IInv, Counted
  <2> QED BY <2>10, <2>11
<1>6. ASSUME NEW t \in Stage, Enter(t) PROVE Open' /\ Counted'
  <2>1. <<[node |-> t, got |-> 0]>> = Append(<<>>, [node |-> t, got |-> 0])
    OBVIOUS
  <2>2. <<>> \in Stacks /\ t \in Nodes
    BY <1>2, <1>6, StageAssumption DEF Enter
  <2> QED BY <1>4, <1>6, <2>1, <2>2 DEF Enter, Unsettled
<1>7. ASSUME NEW t \in Stage, Call(t) PROVE Open' /\ Counted'
  <2>1. stack[t] \in Seq(Frame) /\ Len(stack[t]) \in Nat \ {0}
    BY <1>2, <1>7, EmptySeq DEF Stacks, Call, Collecting
  <2>2. Top(t) \in Frame /\ Top(t).got < Len(Inputs[Top(t).node])
    BY <1>7, <2>1, ElementOfSeq DEF Call, Collecting, Top
  <2>3. Top(t).got + 1 \in 1 .. Len(Inputs[Top(t).node]) /\ Top(t).node \in Nodes
    BY <2>2, InputsAssumption, LenProperties DEF Frame
  <2>4. NextInput(Top(t)) \in Nodes
    BY <2>3, InputIsNode DEF NextInput
  <2> QED BY <1>2, <1>4, <1>7, <2>4 DEF Call, Unsettled
<1>8. ASSUME NEW t \in Stage, Take(t) PROVE Open' /\ Counted'
  <2> DEFINE s == stack[t]
  <2>1. /\ Len(OneMore(s)) = Len(s)
        /\ \A k \in 1 .. Len(s) : OneMore(s)[k].node = s[k].node
    BY <1>2, <1>8, AfterInput DEF Take, Collecting, Top
  <2>2. stack'[t] = OneMore(s) /\ \A u \in Stage \ {t} : stack'[u] = stack[u]
    BY <1>1, <1>8 DEF Take
  <2> QED BY <1>8, <2>1, <2>2 DEF Take, IInv, Open, Counted
<1>9. ASSUME NEW t \in Stage, Drop(t) PROVE Open' /\ Counted'
  <2>1. stack[t] # <<>> /\ Settles(t) /\ stack' = [stack EXCEPT ![t] = Rest(stack[t])]
    BY <1>9 DEF Drop, Settles
  <2>2. /\ Len(Rest(stack[t])) = Len(stack[t]) - 1
        /\ \A k \in 1 .. Len(stack[t]) - 1 : Rest(stack[t])[k].node = stack[t][k].node
    BY <1>2, <2>1, AfterEnd
  <2> QED BY <1>5, <2>1, <2>2
<1>10. ASSUME NEW t \in Stage, Hand(t) PROVE Open' /\ Counted'
  <2>1. Len(stack[t]) > 1 /\ Settles(t) /\ stack' = [stack EXCEPT ![t] = OneMore(Rest(stack[t]))]
    BY <1>10 DEF Hand
  <2>2. Chained(stack[t])
    BY DEF IInv, Chains
  <2>3. /\ Len(OneMore(Rest(stack[t]))) = Len(stack[t]) - 1
        /\ \A k \in 1 .. Len(stack[t]) - 1 : OneMore(Rest(stack[t]))[k].node = stack[t][k].node
    BY <1>2, <2>1, <2>2, AfterReturn
  <2> QED BY <1>5, <2>1, <2>3
<1> QED BY <1>1, <1>3, <1>6, <1>7, <1>8, <1>9, <1>10, StepsAreMoves

-----------------------------------------------------------------------------
(* The steps keep every variable in its type, for any wiring at all. *)
THEOREM TypeCorrect == Spec => []TypeOK
<1>1. Init => TypeOK /\ Rested /\ Chains /\ Exclusive
  BY InitTypes, InitStacks
<1>2. TypeOK /\ Rested /\ Chains /\ Exclusive /\ [Next]_vars
        => (TypeOK /\ Rested /\ Chains /\ Exclusive)'
  BY TypesStay, StacksStay
<1> QED BY <1>1, <1>2, PTL DEF Spec

LEMMA Invariant == Spec => []IInv
<1>1. Init => IInv
  <2>1. Init => Counted
    BY DEF Init, Counted
  <2> QED BY <2>1, InitTypes, InitStacks DEF IInv
<1>2. IInv /\ [Next]_vars => IInv'
  <2> SUFFICES ASSUME IInv, [Next]_vars PROVE IInv'
    OBVIOUS
  <2>1. TypeOK' /\ Rested'
    BY TypesStay DEF IInv
  <2>2. Chains' /\ Exclusive' /\ Descending'
    BY StacksStay DEF IInv
  <2>3. Open' /\ Counted'
    BY OpenStays
  <2> QED BY <2>1, <2>2, <2>3 DEF IInv
<1> QED BY <1>1, <1>2, PTL DEF Spec

-----------------------------------------------------------------------------
LEMMA LeastNat ==
    ASSUME NEW R, R \subseteq Nat, R # {}
    PROVE \E m \in R : \A n \in R : m <= n
<1>1. PICK m \in R : \A n \in R : ~ (<<n, m>> \in OpToRel(<, Nat))
  BY NatLessThanWellFounded, WFMin
<1>2. \A n \in R : ~ (n < m)
  BY <1>1 DEF OpToRel
<1> QED BY <1>2

(* A thread asks for one lock at a time, of a node that ranks no higher than any  *)
(* lock it holds.                                                             *)
LEMMA WantedRanksLowest ==
    ASSUME NEW rank, Follows(rank), IInv, NEW t \in Stage \cap DOMAIN rank, NEW n \in Wanted(t)
    PROVE /\ n \in DOMAIN rank
          /\ Wanted(t) = {n}
          /\ \A h \in Held(stack[t]) : rank[n] <= rank[h]
<1>1. stack[t] \in Stacks /\ Descends(rank, stack[t])
  BY StacksOfTypes DEF StacksOK, IInv, Descending
<1>2. CASE Collecting(t)
  <2>1. stack[t] # <<>> /\ Top(t) = stack[t][Len(stack[t])] /\ n = NextInput(Top(t))
        /\ Top(t).got < Len(Inputs[Top(t).node]) /\ Wanted(t) = {n}
    BY <1>2 DEF Wanted, Collecting, Top
  <2> QED BY <1>1, <2>1, NextRanksLowest
<1>3. CASE ~Collecting(t)
  <2>1. stack[t] = <<>> /\ Wanted(t) = {n} /\ n = t
    BY <1>3 DEF Wanted
  <2>2. Held(stack[t]) = {}
    BY <2>1, EmptySeq DEF Held
  <2> QED BY <2>1, <2>2
<1> QED BY <1>2, <1>3

(* Of the threads of a set that all wait for each other, the one that waits for   *)
(* the least lock would wait for a thread that waits for a lesser one.         *)
LEMMA SomebodyMoves ==
    ASSUME NEW rank, Follows(rank), IInv, NEW T \in SUBSET Stage, T # {}, T \subseteq DOMAIN rank
    PROVE ~Stuck(T)
<1> SUFFICES ASSUME \A t \in T : \E n \in Wanted(t) : \E u \in T \ {t} : n \in Holds(u)
             PROVE FALSE
  BY DEF Stuck, Others
<1> DEFINE W == UNION {Wanted(t) : t \in T}
           R == {rank[n] : n \in W}
<1>1. \A t \in T : \A n \in Wanted(t) : n \in DOMAIN rank
  BY WantedRanksLowest
<1>2. R \subseteq Nat /\ R # {}
  BY <1>1 DEF Follows
<1> HIDE DEF R
<1>3. PICK m \in R : \A k \in R : m <= k
  BY <1>2, LeastNat
<1>4. PICK t \in T : \E n \in Wanted(t) : m = rank[n]
  BY <1>3 DEF R
<1>5. PICK n \in Wanted(t) : m = rank[n]
  BY <1>4
<1>6. Wanted(t) = {n} /\ n \in DOMAIN rank
  BY <1>5, WantedRanksLowest
<1>7. PICK u \in T \ {t} : n \in Held(stack[u])
  BY <1>6, HoldsIsHeld
<1>8. PICK p \in Wanted(u) : \E v \in T \ {u} : p \in Held(stack[v])
  BY HoldsIsHeld
<1>9. rank[p] <= rank[n] /\ p \in DOMAIN rank
  BY <1>7, WantedRanksLowest
<1>10. rank[n] <= rank[p]
  BY <1>3, <1>5 DEF R
<1>11. p = n
  BY <1>6, <1>9, <1>10 DEF Follows
<1> QED BY <1>7, <1>8, <1>11 DEF IInv, Exclusive

(* DeadlocksAreCrossed for every wiring, pool and schedule: a set of pool threads   *)
(* in which each waits for a lock that another holds has lists of inputs, among    *)
(* those of its nodes and of all they depend on, that no order agrees with.      *)
THEOREM OnlyCrossedInputsDeadlock == Spec => []DeadlocksAreCrossed
<1>1. ASSUME IInv, NEW T \in (SUBSET Stage) \ {{}}, Ordered(T) PROVE ~Stuck(T)
  <2>1. PICK C \in SUBSET Nodes :
          T \subseteq C /\ \E rank \in [C -> 1 .. Cardinality(C)] : Follows(rank)
    BY <1>1 DEF Ordered
  <2>2. PICK rank \in [C -> 1 .. Cardinality(C)] : Follows(rank)
    BY <2>1
  <2>3. DOMAIN rank = C
    OBVIOUS
  <2> QED BY <1>1, <2>1, <2>2, <2>3, SomebodyMoves
<1>2. IInv => DeadlocksAreCrossed
  BY <1>1 DEF DeadlocksAreCrossed
<1> QED BY <1>2, Invariant, PTL

(* EvaluatedOnce for every wiring without a cycle, crossed or not: whichever       *)
(* thread comes to need a node first, the others find its result or its error.   *)
THEOREM EachEvaluatedOnce == Spec => []EvaluatedOnce
<1>1. IInv => EvaluatedOnce
  BY DEF IInv, Counted, EvaluatedOnce
<1> QED BY <1>1, Invariant, PTL
=============================================================================
