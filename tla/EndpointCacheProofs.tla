------------------------- MODULE EndpointCacheProofs -------------------------
(***************************************************************************)
(* Proofs about EndpointCache, for any clients, any times to fill and any  *)
(* parameters of the queries.  CatalogueProofs foretells how the frames of *)
(* each handler stand at each of its steps; here they do stand so, however *)
(* the requests overlap.                                                   *)
(***************************************************************************)
EXTENDS CatalogueProofs

-------------------------------------------------------------------------------
(* What is foretold of a whole request *)

\* How old what it reads may be when it comes.
Limit(e) == IF e[1] \in BoardNames THEN 3 * Level ELSE Any
Starts(e) == e[1] \in EarlyStarters

\* Its frames at each of its steps.
IsCourse(acc, e) == Runs(acc, e[3], <<>>, {}, Limit(e), 3, Starts(e))
Course(e) == CHOOSE acc : IsCourse(acc, e)
TheSteps(e) == 1..Len(e[3])
ThePlaces(e) == 1..(Len(e[3]) + 1)

LEMMA CourseRuns == ASSUME NEW e \in Catalogue PROVE IsCourse(Course(e), e)
<1>. SUFFICES \E acc : IsCourse(acc, e)
  BY DEF Course
<1>1. Served(e[3], Starts(e)) /\ (e[1] \in BoardNames => OnBoard(e[3], Starts(e)))
  BY CatalogueFits DEF Starts
<1>2. Limit(e) \in Ages /\ Covers(Limit(e), Limit(e)) /\ 3 \in Nat /\ 3 >= 3
  BY LevelsAre, AgesAre DEF Limit
<1>3. Fits(e[3], 3, Limit(e), Starts(e))
  BY <1>1, <1>2 DEF Served, OnBoard, Within, Foretold, Limit
<1>4. IsStack(<<>>)
  <2>1. IsProgram(<<>>) /\ Len(<<>>) = 0
    BY OneStep
  <2>2. 1..0 = {}
    OBVIOUS
  <2>. QED
    BY <2>1, <2>2 DEF IsStack
<1>. QED
  BY <1>2, <1>3, <1>4 DEF Fits, IsCourse

LEMMA CourseIs ==
  ASSUME NEW e \in Catalogue
  PROVE  /\ Len(e[3]) \in Nat
         /\ Course(e)[1] = Rest(<<[said |-> {}, old |-> Limit(e)]>>)
         /\ Course(e)[Len(e[3]) + 1] = Rest(<<[said |-> Topics(e[3]), old |-> Limit(e)]>>)
         /\ Limit(e) \in Ages
         /\ \A i \in ThePlaces(e) :
              IsStack(Course(e)[i].stack) /\ Len(Course(e)[i].stack) \in 1..4
         /\ \A i \in TheSteps(e) :
              /\ Lands(e[3], i) \in ThePlaces(e) /\ i + 1 \in ThePlaces(e)
              /\ i \in ThePlaces(e)
              /\ StepFits(e[3][i], Course(e)[i], Course(e)[i + 1],
                          Course(e)[Lands(e[3], i)], Starts(e))
<1>1. Runs(Course(e), e[3], <<>>, {}, Limit(e), 3, Starts(e))
  BY CourseRuns DEF IsCourse
<1>2. IsProgram(e[3]) /\ Limit(e) \in Ages
  <2>1. Served(e[3], TRUE)
    BY CatalogueFits
  <2>2. Limit(e) \in Ages /\ Any \in Ages
    BY LevelsAre DEF Limit
  <2>3. Covers(Any, Any) /\ 3 \in Nat /\ 3 >= 3
    BY <2>2, AgesAre
  <2>4. Fits(e[3], 3, Any, TRUE)
    BY <2>1, <2>2, <2>3 DEF Served, Foretold
  <2>. QED
    BY <2>2, <2>4 DEF Fits
<1>3. Len(e[3]) \in Nat
  BY <1>2, Catenation
<1>4. \A f : Append(<<>>, f) = <<f>>
  OBVIOUS
<1>5. \A A, b : Begun(<<>>, A, b) = Rest(<<[said |-> A, old |-> b]>>)
  BY <1>4 DEF Begun
<1>6. {} \cup Topics(e[3]) = Topics(e[3])
  OBVIOUS
<1>7. /\ Course(e)[1] = Rest(<<[said |-> {}, old |-> Limit(e)]>>)
      /\ Course(e)[Len(e[3]) + 1] = Rest(<<[said |-> Topics(e[3]), old |-> Limit(e)]>>)
  BY <1>1, <1>5, <1>6 DEF Runs
<1>8. \A i \in ThePlaces(e) :
        IsStack(Course(e)[i].stack) /\ Len(Course(e)[i].stack) \in 1..4
  <2>1. Len(<<>>) + 1 + 3 = 4
    OBVIOUS
  <2>. QED
    BY <1>1, <2>1 DEF Runs, ThePlaces
<1>9. \A i \in TheSteps(e) : i + 1 \in ThePlaces(e) /\ i \in ThePlaces(e)
  BY <1>3 DEF TheSteps, ThePlaces
<1>10. \A i \in TheSteps(e) :
         /\ Lands(e[3], i) \in ThePlaces(e)
         /\ StepFits(e[3][i], Course(e)[i], Course(e)[i + 1],
                     Course(e)[Lands(e[3], i)], Starts(e))
  BY <1>1 DEF Runs, TheSteps, ThePlaces
<1>. QED
  BY <1>2, <1>3, <1>7, <1>8, <1>9, <1>10

-------------------------------------------------------------------------------
(* Frames that are as foretold *)

\* With the time that the request has left, of fill.
PartsFit(parts, old, left, fill) ==
  \A p \in parts : p[2] \in Nat /\ (old # Any => p[2] + left <= old + fill)
FrameFits(frame, f, left, fill) ==
  About(Said(frame)) = f.said /\ PartsFit(frame, f.old, left, fill)
FramesFit(frames, stack, left, fill) ==
  /\ IsProgram(frames) /\ Len(frames) = Len(stack)
  /\ \A j \in 1..Len(stack) : FrameFits(frames[j], stack[j], left, fill)

Replaced(U, i, k) == [U EXCEPT ![i] = k]

LEMMA Replacing ==
  ASSUME NEW U, IsProgram(U), NEW i \in 1..Len(U), NEW k
  PROVE  /\ IsProgram(Replaced(U, i, k)) /\ Len(Replaced(U, i, k)) = Len(U)
         /\ Replaced(U, i, k)[i] = k
         /\ \A j \in 1..Len(U) : j # i => Replaced(U, i, k)[j] = U[j]
<1>1. PICK S : U \in Seq(S)
  BY DEF IsProgram
<1>2. U \in Seq(S \cup {k}) /\ k \in S \cup {k}
  BY <1>1
<1>3. /\ [U EXCEPT ![i] = k] \in Seq(S \cup {k}) /\ Len([U EXCEPT ![i] = k]) = Len(U)
      /\ \A j \in 1..Len(U) : [U EXCEPT ![i] = k][j] = IF j = i THEN k ELSE U[j]
  BY <1>2, ExceptSeq
<1>. QED
  BY <1>3 DEF IsProgram, Replaced

LEMMA SaidOfBoth ==
  ASSUME NEW P, NEW Q
  PROVE  About(Said(P \cup Q)) = About(Said(P)) \cup About(Said(Q))
BY DEF About, Said

LEMMA FramesAdding ==
  ASSUME NEW frames, NEW stack, NEW left, NEW fill, FramesFit(frames, stack, left, fill),
         IsStack(stack), Len(stack) >= 1,
         NEW parts, PartsFit(parts, TopOf(stack).old, left, fill)
  PROVE  FramesFit(Adding(frames, parts), Plus(stack, About(Said(parts))), left, fill)
<1>. DEFINE n == Len(stack)
            topics == About(Said(parts))
            frame == frames[n] \cup parts
            top == [said |-> stack[n].said \cup topics, old |-> stack[n].old]
<1>1. IsProgram(frames) /\ Len(frames) = n /\ IsProgram(stack) /\ n \in Nat /\ n \in 1..n
  <2>1. IsProgram(frames) /\ Len(frames) = n /\ IsProgram(stack)
    BY DEF FramesFit, IsStack
  <2>2. n \in Nat
    BY <2>1, Catenation
  <2>. QED
    BY <2>1, <2>2
<1>2. \A j \in 1..n : FrameFits(frames[j], stack[j], left, fill)
  BY DEF FramesFit
<1>3. Adding(frames, parts) = Replaced(frames, n, frame)
  BY <1>1 DEF Adding, Replaced
<1>4. Plus(stack, topics) = Replaced(stack, n, top)
  BY DEF Plus, Replaced
<1>5. PartsFit(parts, stack[n].old, left, fill)
  BY DEF TopOf
<1>6. FrameFits(frames[n], stack[n], left, fill)
  BY <1>1, <1>2
<1>7. About(Said(frame)) = stack[n].said \cup topics
  <2>1. About(Said(frames[n])) = stack[n].said
    BY <1>6 DEF FrameFits
  <2>2. About(Said(frame)) = About(Said(frames[n])) \cup topics
    BY SaidOfBoth
  <2>. QED
    BY <2>1, <2>2
<1>8. PartsFit(frame, stack[n].old, left, fill)
  BY <1>5, <1>6 DEF FrameFits, PartsFit
<1>9. top.said = stack[n].said \cup topics /\ top.old = stack[n].old
  OBVIOUS
<1>. HIDE DEF n, topics, frame, top
<1>10. FrameFits(frame, top, left, fill)
  BY <1>7, <1>8, <1>9 DEF FrameFits
<1>. DEFINE F == Replaced(frames, n, frame)
            T == Replaced(stack, n, top)
<1>11. /\ IsProgram(F) /\ Len(F) = n /\ F[n] = frame
       /\ \A j \in 1..n : j # n => F[j] = frames[j]
  <2>1. n \in 1..Len(frames)
    BY <1>1
  <2>2. /\ IsProgram(F) /\ Len(F) = Len(frames) /\ F[n] = frame
        /\ \A j \in 1..Len(frames) : j # n => F[j] = frames[j]
    BY <1>1, <2>1, Replacing
  <2>. HIDE DEF F
  <2>. QED
    BY <1>1, <2>2
<1>12. Len(T) = n /\ T[n] = top /\ \A j \in 1..n : j # n => T[j] = stack[j]
  <2>1. n = Len(stack)
    BY DEF n
  <2>. QED
    BY <1>1, <2>1, Replacing
<1>. HIDE DEF F, T
<1>13. ASSUME NEW j \in 1..n PROVE FrameFits(F[j], T[j], left, fill)
  <2>1. CASE j = n
    BY <2>1, <1>10, <1>11, <1>12
  <2>2. CASE j # n
    BY <2>2, <1>2, <1>11, <1>12
  <2>. QED
    BY <2>1, <2>2
<1>14. FramesFit(F, T, left, fill)
  BY <1>11, <1>12, <1>13 DEF FramesFit
<1>. QED
  BY <1>3, <1>4, <1>14 DEF F, T, topics

\* Nothing more.
LEMMA FramesAddingNone ==
  ASSUME NEW frames, NEW stack, NEW left, NEW fill, FramesFit(frames, stack, left, fill),
         IsStack(stack), Len(stack) >= 1
  PROVE  FramesFit(Adding(frames, {}), stack, left, fill)
<1>. DEFINE n == Len(stack)
<1>1. IsProgram(frames) /\ Len(frames) = n /\ n \in Nat /\ n \in 1..n
  <2>1. IsProgram(frames) /\ Len(frames) = n
    BY DEF FramesFit
  <2>2. n \in Nat
    BY <2>1, Catenation
  <2>. QED
    BY <2>1, <2>2
<1>2. \A j \in 1..n : FrameFits(frames[j], stack[j], left, fill)
  BY DEF FramesFit
<1>. DEFINE F == Replaced(frames, n, frames[n])
<1>3. frames[n] \cup {} = frames[n]
  OBVIOUS
<1>4. Adding(frames, {}) = F
  BY <1>1, <1>3 DEF Adding, Replaced
<1>. HIDE DEF n
<1>5. /\ IsProgram(F) /\ Len(F) = n /\ F[n] = frames[n]
      /\ \A j \in 1..n : j # n => F[j] = frames[j]
  <2>1. n \in 1..Len(frames)
    BY <1>1
  <2>2. /\ IsProgram(F) /\ Len(F) = Len(frames) /\ F[n] = frames[n]
        /\ \A j \in 1..Len(frames) : j # n => F[j] = frames[j]
    BY <1>1, <2>1, Replacing
  <2>. HIDE DEF F
  <2>. QED
    BY <1>1, <2>2
<1>. HIDE DEF F
<1>6. \A j \in 1..n : F[j] = frames[j]
  BY <1>5
<1>7. FramesFit(F, stack, left, fill)
  BY <1>2, <1>5, <1>6 DEF FramesFit, n
<1>. QED
  BY <1>4, <1>7

LEMMA FramesPushing ==
  ASSUME NEW frames, NEW stack, NEW left, NEW fill, FramesFit(frames, stack, left, fill),
         IsStack(stack), NEW old
  PROVE  FramesFit(Append(frames, {}), Append(stack, [said |-> {}, old |-> old]), left, fill)
<1>. DEFINE n == Len(stack)
            f == [said |-> {}, old |-> old]
<1>1. IsProgram(frames) /\ Len(frames) = n /\ IsProgram(stack)
  BY DEF FramesFit, IsStack
<1>2. \A j \in 1..n : FrameFits(frames[j], stack[j], left, fill)
  BY DEF FramesFit
<1>3. FrameFits({}, f, left, fill)
  BY DEF FrameFits, PartsFit, About, Said
<1>. HIDE DEF f
<1>4. /\ IsProgram(Append(frames, {})) /\ Len(Append(frames, {})) = n + 1
      /\ \A i \in 1..n : Append(frames, {})[i] = frames[i]
      /\ Append(frames, {})[n + 1] = {}
  BY <1>1, Appending
<1>5. /\ n \in Nat /\ Len(Append(stack, f)) = n + 1
      /\ \A i \in 1..n : Append(stack, f)[i] = stack[i]
      /\ Append(stack, f)[n + 1] = f
  BY <1>1, Appending
<1>. HIDE DEF n
<1>6. ASSUME NEW j \in 1..(n + 1)
      PROVE  FrameFits(Append(frames, {})[j], Append(stack, f)[j], left, fill)
  <2>1. CASE j = n + 1
    BY <2>1, <1>3, <1>4, <1>5
  <2>2. CASE j # n + 1
    <3>1. j \in 1..n
      BY <2>2, <1>5
    <3>. QED
      BY <3>1, <1>2, <1>4, <1>5
  <2>. QED
    BY <2>1, <2>2
<1>7. FramesFit(Append(frames, {}), Append(stack, f), left, fill)
  BY <1>4, <1>5, <1>6 DEF FramesFit
<1>. QED
  BY <1>7 DEF f

LEMMA OlderStill ==
  ASSUME NEW a \in Nat, NEW o \in Nat, NEW q \in Nat, NEW left \in Nat, NEW fill \in Nat,
         a + left <= o + fill, o <= q
  PROVE  a + left <= q + fill
OBVIOUS

LEMMA SaidOfOlder == ASSUME NEW parts PROVE Said(Older(parts)) = Said(parts)
<1>1. \A q : q \in Older(parts) <=> \E p \in parts : q = <<p[1], p[2] + 1>>
  BY DEF Older
<1>2. ASSUME NEW x \in Said(Older(parts)) PROVE x \in Said(parts)
  <2>1. PICK q \in Older(parts) : x = q[1]
    BY <1>2 DEF Said
  <2>2. PICK p \in parts : q = <<p[1], p[2] + 1>>
    BY <1>1, <2>1
  <2>3. x = p[1]
    BY <2>1, <2>2
  <2>. QED
    BY <2>3 DEF Said
<1>3. ASSUME NEW x \in Said(parts) PROVE x \in Said(Older(parts))
  <2>1. PICK p \in parts : x = p[1]
    BY <1>3 DEF Said
  <2>. DEFINE q == <<p[1], p[2] + 1>>
  <2>2. q \in Older(parts) /\ q[1] = x
    BY <1>1, <2>1
  <2>. QED
    BY <2>2 DEF Said
<1>. QED
  BY <1>2, <1>3

LEMMA FramesMerging ==
  ASSUME NEW frames, NEW stack, NEW left, NEW fill, FramesFit(frames, stack, left, fill),
         left \in Nat, fill \in Nat,
         IsStack(stack), Len(stack) >= 2,
         Covers(stack[Len(stack) - 1].old, TopOf(stack).old)
  PROVE  FramesFit(Adding(SubSeq(frames, 1, Len(frames) - 1), frames[Len(frames)]),
                   Merge(stack), left, fill)
<1>. DEFINE n == Len(stack)
            F == SubSeq(frames, 1, n - 1)
            T == SubSeq(stack, 1, n - 1)
<1>1. IsProgram(frames) /\ Len(frames) = n /\ IsProgram(stack) /\ n \in Nat
  <2>1. IsProgram(frames) /\ Len(frames) = n /\ IsProgram(stack)
    BY DEF FramesFit, IsStack
  <2>2. n \in Nat
    BY <2>1, Catenation
  <2>. QED
    BY <2>1, <2>2
<1>2. \A j \in 1..n : FrameFits(frames[j], stack[j], left, fill)
  BY DEF FramesFit
<1>3. \A j \in 1..n : stack[j].old \in Ages
  BY DEF IsStack
<1>4. n >= 2 /\ TopOf(stack) = stack[n] /\ Covers(stack[n - 1].old, stack[n].old)
  BY DEF TopOf
<1>5. Merge(stack) = Plus(T, stack[n].said)
  BY DEF Merge, TopOf
<1>. HIDE DEF n
<1>6. IsProgram(F) /\ Len(F) = n - 1 /\ \A j \in 1..(n - 1) : F[j] = frames[j]
  <2>1. PICK S : frames \in Seq(S)
    BY <1>1 DEF IsProgram
  <2>2. \A j \in 1..(n - 1) : frames[j] \in S
    BY <1>1, <2>1
  <2>3. F \in Seq(S) /\ Len(F) = n - 1 /\ \A j \in 1..(n - 1) : F[j] = frames[j]
    BY <1>1, <1>4, <2>2, SubSeqProperties
  <2>. QED
    BY <2>3 DEF IsProgram
<1>7. IsProgram(T) /\ Len(T) = n - 1 /\ \A j \in 1..(n - 1) : T[j] = stack[j]
  <2>1. PICK S : stack \in Seq(S)
    BY <1>1 DEF IsProgram
  <2>2. \A j \in 1..(n - 1) : stack[j] \in S
    BY <1>1, <2>1 DEF n
  <2>3. T \in Seq(S) /\ Len(T) = n - 1 /\ \A j \in 1..(n - 1) : T[j] = stack[j]
    BY <1>1, <1>4, <2>2, SubSeqProperties
  <2>. QED
    BY <2>3 DEF IsProgram
<1>. HIDE DEF F, T
<1>8. n - 1 \in 1..n /\ n \in 1..n /\ n - 1 \in 1..(n - 1) /\ n - 1 >= 1
      /\ \A j \in 1..(n - 1) : j \in 1..n
  BY <1>1, <1>4
<1>9. IsStack(T)
  <2>1. \A j \in 1..(n - 1) : T[j].old \in Ages
    BY <1>3, <1>7, <1>8
  <2>. QED
    BY <1>7, <2>1 DEF IsStack
<1>10. FramesFit(F, T, left, fill)
  <2>1. \A j \in 1..(n - 1) : FrameFits(F[j], T[j], left, fill)
    BY <1>2, <1>6, <1>7, <1>8
  <2>. QED
    BY <1>6, <1>7, <2>1 DEF FramesFit
<1>11. TopOf(T) = stack[n - 1]
  BY <1>7, <1>8 DEF TopOf
<1>12. FrameFits(frames[n], stack[n], left, fill)
  BY <1>2, <1>8
<1>13. PartsFit(frames[n], stack[n - 1].old, left, fill)
  <2>1. stack[n - 1].old \in Ages /\ stack[n].old \in Ages
    BY <1>3, <1>8
  <2>. SUFFICES ASSUME NEW p \in frames[n]
                PROVE  p[2] \in Nat /\ (stack[n - 1].old # Any =>
                                         p[2] + left <= stack[n - 1].old + fill)
    BY DEF PartsFit
  <2>2. p[2] \in Nat /\ (stack[n].old # Any => p[2] + left <= stack[n].old + fill)
    BY <1>12 DEF FrameFits, PartsFit
  <2>3. CASE stack[n - 1].old # Any
    <3>1. /\ stack[n].old # Any /\ stack[n].old <= stack[n - 1].old
          /\ stack[n].old \in Nat /\ stack[n - 1].old \in Nat
      BY <1>4, <2>1, <2>3 DEF Covers, Ages
    <3>2. p[2] \in Nat /\ p[2] + left <= stack[n].old + fill
      BY <2>2, <3>1
    <3>. QED
      BY <3>1, <3>2, OlderStill
  <2>. QED
    BY <2>2, <2>3
<1>14. stack[n].said = About(Said(frames[n]))
  BY <1>12 DEF FrameFits
<1>15. Len(T) >= 1
  BY <1>7, <1>8
<1>16. FramesFit(Adding(F, frames[n]), Plus(T, About(Said(frames[n]))), left, fill)
  BY <1>9, <1>10, <1>11, <1>13, <1>15, FramesAdding
<1>. QED
  BY <1>1, <1>5, <1>14, <1>16 DEF F

LEMMA FramesAging ==
  ASSUME NEW frames, NEW stack, NEW left \in Nat, NEW fill \in Nat, left > 0,
         FramesFit(frames, stack, left, fill), IsStack(stack)
  PROVE  FramesFit([i \in DOMAIN frames |-> Older(frames[i])], stack, left - 1, fill)
<1>. DEFINE n == Len(stack)
            F == [i \in DOMAIN frames |-> Older(frames[i])]
<1>1. IsProgram(frames) /\ Len(frames) = n /\ n \in Nat /\ DOMAIN frames = 1..n
  <2>1. IsProgram(frames) /\ Len(frames) = n
    BY DEF FramesFit
  <2>2. n \in Nat /\ DOMAIN frames = 1..n
    BY <2>1, Catenation
  <2>. QED
    BY <2>1, <2>2
<1>2. \A j \in 1..n : FrameFits(frames[j], stack[j], left, fill)
  BY DEF FramesFit
<1>3. \A j \in 1..n : stack[j].old \in Ages
  BY DEF IsStack
<1>. HIDE DEF n
<1>4. \A i \in 1..n : F[i] = Older(frames[i])
  BY <1>1
<1>5. F \in Seq({F[i] : i \in 1..n}) /\ Len(F) = n
  <2>1. DOMAIN F = 1..n /\ F = [i \in 1..n |-> F[i]]
    BY <1>1
  <2>. HIDE DEF F
  <2>. DEFINE S == {F[i] : i \in 1..n}
  <2>2. \A i \in 1..n : F[i] \in S
    OBVIOUS
  <2>. HIDE DEF S
  <2>3. F \in [1..n -> S]
    BY <2>1, <2>2
  <2>4. F \in Seq(S) /\ Len(F) = n
    BY <1>1, <2>3
  <2>. QED
    BY <2>4 DEF S
<1>6. IsProgram(F)
  BY <1>5 DEF IsProgram
<1>. HIDE DEF F
<1>7. ASSUME NEW j \in 1..n PROVE FrameFits(F[j], stack[j], left - 1, fill)
  <2>1. FrameFits(frames[j], stack[j], left, fill) /\ stack[j].old \in Ages
    BY <1>2, <1>3
  <2>2. Said(Older(frames[j])) = Said(frames[j])
    BY SaidOfOlder
  <2>3. PartsFit(Older(frames[j]), stack[j].old, left - 1, fill)
    <3>. SUFFICES ASSUME NEW q \in frames[j]
                  PROVE  /\ q[2] + 1 \in Nat
                         /\ stack[j].old # Any => q[2] + 1 + (left - 1) <= stack[j].old + fill
      BY DEF PartsFit, Older
    <3>1. q[2] \in Nat /\ (stack[j].old # Any => q[2] + left <= stack[j].old + fill)
      BY <2>1 DEF FrameFits, PartsFit
    <3>2. stack[j].old \in Int
      BY <2>1 DEF Ages, Any
    <3>. QED
      BY <3>1, <3>2
  <2>4. About(Said(Older(frames[j]))) = stack[j].said
    BY <2>1, <2>2 DEF FrameFits
  <2>. QED
    BY <1>4, <2>3, <2>4 DEF FrameFits
<1>8. FramesFit(F, stack, left - 1, fill)
  BY <1>5, <1>6, <1>7 DEF FramesFit, n
<1>. QED
  BY <1>8 DEF F

-------------------------------------------------------------------------------
(* A request at a step *)

\* What its frames are to hold on arriving: what the step sends counts.
Sends(e, i) == i <= Len(e[3]) /\ e[3][i].op \in {"ask", "start", "join"}
SentAt(e, i) == IF Sends(e, i) THEN (UNION e[3][i].queries) \X {0} ELSE {}
Expected(e, i) ==
  IF Sends(e, i) THEN Plus(Course(e)[i].stack, Asked(e[3][i])) ELSE Course(e)[i].stack

IsRequest(r, e, fill) ==
  /\ r = [pc |-> r.pc, frames |-> r.frames, left |-> r.left, early |-> r.early]
  /\ r.pc \in ThePlaces(e) /\ r.left \in 0..fill /\ r.early \in BOOLEAN
  /\ r.early => Starts(e)
  /\ FramesFit(r.frames, Expected(e, r.pc), r.left, fill)

LEMMA SaidOfAnswers == ASSUME NEW X, NEW n PROVE Said(X \X {n}) = X
<1>1. ASSUME NEW x \in X PROVE x \in Said(X \X {n})
  <2>1. <<x, n>> \in X \X {n} /\ <<x, n>>[1] = x
    OBVIOUS
  <2>. QED
    BY <2>1 DEF Said
<1>2. ASSUME NEW x \in Said(X \X {n}) PROVE x \in X
  <2>1. PICK p \in X \X {n} : x = p[1]
    BY <1>2 DEF Said
  <2>. QED
    BY <2>1
<1>. QED
  BY <1>1, <1>2

LEMMA Arriving ==
  ASSUME NEW e \in Catalogue, NEW i \in ThePlaces(e), NEW fill \in Nat, NEW left \in 0..fill,
         NEW frames, FramesFit(frames, Course(e)[i].stack, left, fill)
  PROVE  FramesFit(Adding(frames, SentAt(e, i)), Expected(e, i), left, fill)
<1>. DEFINE stack == Course(e)[i].stack
<1>1. IsStack(stack) /\ Len(stack) >= 1
  <2>1. IsStack(stack) /\ Len(stack) \in 1..4
    BY CourseIs
  <2>2. \A n \in 1..4 : n >= 1
    OBVIOUS
  <2>. QED
    BY <2>1, <2>2
<1>2. stack = Course(e)[i].stack /\ FramesFit(frames, stack, left, fill)
  OBVIOUS
<1>. HIDE DEF stack
<1>3. CASE Sends(e, i)
  <2>. DEFINE parts == (UNION e[3][i].queries) \X {0}
  <2>1. Said(parts) = UNION e[3][i].queries
    BY SaidOfAnswers
  <2>2. Asked(e[3][i]) = About(Said(parts))
    BY <1>3, <2>1 DEF Asked, Sends
  <2>3. TopOf(stack).old \in Ages
    BY <1>1 DEF TopOf, IsStack
  <2>4. PartsFit(parts, TopOf(stack).old, left, fill)
    <3>. SUFFICES ASSUME NEW p \in parts
                  PROVE  p[2] \in Nat /\ (TopOf(stack).old # Any =>
                                           p[2] + left <= TopOf(stack).old + fill)
      BY DEF PartsFit
    <3>1. p[2] = 0
      OBVIOUS
    <3>2. CASE TopOf(stack).old # Any
      <4>. DEFINE old == TopOf(stack).old
      <4>1. old \in Nat
        BY <2>3, <3>2 DEF Ages
      <4>. HIDE DEF old
      <4>2. 0 + left <= old + fill
        BY <4>1
      <4>. QED
        BY <3>1, <4>2 DEF old
    <3>. QED
      BY <3>1, <3>2
  <2>. HIDE DEF parts
  <2>5. FramesFit(Adding(frames, parts), Plus(stack, About(Said(parts))), left, fill)
    BY <1>1, <1>2, <2>4, FramesAdding
  <2>6. SentAt(e, i) = parts
    BY <1>3 DEF SentAt, parts
  <2>7. Expected(e, i) = Plus(stack, Asked(e[3][i]))
    BY <1>2, <1>3 DEF Expected
  <2>. QED
    BY <2>2, <2>5, <2>6, <2>7
<1>4. CASE ~Sends(e, i)
  <2>1. FramesFit(Adding(frames, {}), stack, left, fill)
    BY <1>1, <1>2, FramesAddingNone
  <2>2. SentAt(e, i) = {}
    BY <1>4 DEF SentAt
  <2>3. Expected(e, i) = stack
    BY <1>2, <1>4 DEF Expected
  <2>. QED
    BY <2>1, <2>2, <2>3
<1>. QED
  BY <1>3, <1>4

\* A request at a step that does op, and what is foretold of the step.
IsAt(r, e, fill, op) ==
  /\ e \in Catalogue /\ r.pc \in TheSteps(e) /\ e[3][r.pc].op = op
  /\ fill \in Nat /\ IsRequest(r, e, fill)

LEMMA StepForetold ==
  ASSUME NEW r, NEW e, NEW fill, NEW op, IsAt(r, e, fill, op)
  PROVE  /\ StepFits(e[3][r.pc], Course(e)[r.pc], Course(e)[r.pc + 1],
                     Course(e)[Lands(e[3], r.pc)], Starts(e))
         /\ IsStack(Course(e)[r.pc].stack) /\ Len(Course(e)[r.pc].stack) >= 1
         /\ r.pc + 1 \in ThePlaces(e) /\ Lands(e[3], r.pc) \in ThePlaces(e)
         /\ op \in {"ask", "start", "join"} =>
              FramesFit(r.frames, Plus(Course(e)[r.pc].stack, Asked(e[3][r.pc])), r.left, fill)
         /\ op \notin {"ask", "start", "join"} =>
              FramesFit(r.frames, Course(e)[r.pc].stack, r.left, fill)
         /\ r.left \in Nat /\ r.left <= fill
<1>1. e \in Catalogue /\ r.pc \in TheSteps(e) /\ e[3][r.pc].op = op /\ fill \in Nat
      /\ r.left \in 0..fill /\ FramesFit(r.frames, Expected(e, r.pc), r.left, fill)
  BY DEF IsAt, IsRequest
<1>2. Len(e[3]) \in Nat /\ r.pc \in ThePlaces(e)
  BY <1>1, CourseIs
<1>3. r.pc <= Len(e[3])
  BY <1>1, <1>2 DEF TheSteps
<1>4. Len(Course(e)[r.pc].stack) \in 1..4 /\ IsStack(Course(e)[r.pc].stack)
  BY <1>1, <1>2, CourseIs
<1>5. Len(Course(e)[r.pc].stack) >= 1
  <2>1. \A n \in 1..4 : n >= 1
    OBVIOUS
  <2>. QED
    BY <1>4, <2>1
<1>6. /\ op \in {"ask", "start", "join"} =>
           FramesFit(r.frames, Plus(Course(e)[r.pc].stack, Asked(e[3][r.pc])), r.left, fill)
      /\ op \notin {"ask", "start", "join"} =>
           FramesFit(r.frames, Course(e)[r.pc].stack, r.left, fill)
  <2>1. Sends(e, r.pc) <=> op \in {"ask", "start", "join"}
    BY <1>1, <1>3 DEF Sends
  <2>2. CASE op \in {"ask", "start", "join"}
    <3>1. Expected(e, r.pc) = Plus(Course(e)[r.pc].stack, Asked(e[3][r.pc]))
      BY <2>1, <2>2 DEF Expected
    <3>. QED
      BY <1>1, <2>2, <3>1
  <2>3. CASE op \notin {"ask", "start", "join"}
    <3>1. Expected(e, r.pc) = Course(e)[r.pc].stack
      BY <2>1, <2>3 DEF Expected
    <3>. QED
      BY <1>1, <2>3, <3>1
  <2>. QED
    BY <2>2, <2>3
<1>7. r.left \in Nat /\ r.left <= fill
  BY <1>1
<1>8. r.pc + 1 \in ThePlaces(e) /\ Lands(e[3], r.pc) \in ThePlaces(e)
  BY <1>1, CourseIs
<1>9. StepFits(e[3][r.pc], Course(e)[r.pc], Course(e)[r.pc + 1],
               Course(e)[Lands(e[3], r.pc)], Starts(e))
  BY <1>1, CourseIs
<1>. QED
  BY <1>4, <1>5, <1>6, <1>7, <1>8, <1>9

\* The frames after a step, before what the next one sends.
LEMMA RestIs ==
  ASSUME NEW stack
  PROVE  Rest(stack).stack = stack /\ Rest(stack).table = FALSE /\ Rest(stack).rows = {}
BY DEF Rest

LEMMA AfterAsking ==
  ASSUME NEW r, NEW e, NEW fill, NEW op \in {"ask", "start", "join"}, IsAt(r, e, fill, op)
  PROVE  /\ FramesFit(r.frames, Course(e)[r.pc + 1].stack, r.left, fill)
         /\ Course(e)[r.pc + 1].table = FALSE
         /\ op = "start" => Starts(e)
<1>1. e[3][r.pc].op = op
  BY DEF IsAt
<1>2. Course(e)[r.pc + 1] = Rest(Plus(Course(e)[r.pc].stack, Asked(e[3][r.pc])))
      /\ (op = "start" => Starts(e))
  BY <1>1, StepForetold DEF StepFits
<1>3. FramesFit(r.frames, Plus(Course(e)[r.pc].stack, Asked(e[3][r.pc])), r.left, fill)
  BY StepForetold
<1>5. Course(e)[r.pc + 1].stack = Plus(Course(e)[r.pc].stack, Asked(e[3][r.pc]))
      /\ Course(e)[r.pc + 1].table = FALSE
  <2>. DEFINE after == Plus(Course(e)[r.pc].stack, Asked(e[3][r.pc]))
  <2>1. Course(e)[r.pc + 1] = Rest(after)
    BY <1>2
  <2>. HIDE DEF after
  <2>2. Course(e)[r.pc + 1].stack = after /\ Course(e)[r.pc + 1].table = FALSE
    BY <2>1, RestIs
  <2>. QED
    BY <2>2 DEF after
<1>. QED
  BY <1>2, <1>3, <1>5

LEMMA AfterOpening ==
  ASSUME NEW r, NEW e, NEW fill, NEW op \in {"look", "open"}, IsAt(r, e, fill, op)
  PROVE  /\ FramesFit(Append(r.frames, {}), Course(e)[r.pc + 1].stack, r.left, fill)
         /\ Course(e)[r.pc + 1].table = FALSE
<1>1. e[3][r.pc].op = op
  BY DEF IsAt
<1>2. PICK old \in Ages :
        Course(e)[r.pc + 1] = Rest(Append(Course(e)[r.pc].stack, [said |-> {}, old |-> old]))
  BY <1>1, StepForetold DEF StepFits
<1>3. FramesFit(r.frames, Course(e)[r.pc].stack, r.left, fill) /\ IsStack(Course(e)[r.pc].stack)
  BY StepForetold
<1>4. FramesFit(Append(r.frames, {}),
                Append(Course(e)[r.pc].stack, [said |-> {}, old |-> old]), r.left, fill)
  BY <1>3, FramesPushing
<1>5. Course(e)[r.pc + 1].stack = Append(Course(e)[r.pc].stack, [said |-> {}, old |-> old])
      /\ Course(e)[r.pc + 1].table = FALSE
  <2>. DEFINE after == Append(Course(e)[r.pc].stack, [said |-> {}, old |-> old])
  <2>1. Course(e)[r.pc + 1] = Rest(after)
    BY <1>2
  <2>. HIDE DEF after
  <2>2. Course(e)[r.pc + 1].stack = after /\ Course(e)[r.pc + 1].table = FALSE
    BY <2>1, RestIs
  <2>. QED
    BY <2>2 DEF after
<1>. QED
  BY <1>2, <1>4, <1>5

LEMMA AfterMerging ==
  ASSUME NEW r, NEW e, NEW fill, NEW op \in {"close", "keep"}, IsAt(r, e, fill, op)
  PROVE  /\ FramesFit(Adding(SubSeq(r.frames, 1, Len(r.frames) - 1),
                             r.frames[Len(r.frames)]),
                      Course(e)[r.pc + 1].stack, r.left, fill)
         /\ Course(e)[r.pc + 1].table = FALSE
<1>1. e[3][r.pc].op = op /\ fill \in Nat
  BY DEF IsAt
<1>2. Merges(Course(e)[r.pc], Course(e)[r.pc + 1])
  BY <1>1, StepForetold DEF StepFits
<1>. DEFINE stack == Course(e)[r.pc].stack
<1>3. /\ FramesFit(r.frames, stack, r.left, fill) /\ IsStack(stack)
      /\ r.left \in Nat
  BY StepForetold
<1>4. /\ Len(stack) >= 2 /\ Covers(stack[Len(stack) - 1].old, TopOf(stack).old)
      /\ Course(e)[r.pc + 1] = Rest(Merge(stack))
  BY <1>2 DEF Merges
<1>. HIDE DEF stack
<1>5. FramesFit(Adding(SubSeq(r.frames, 1, Len(r.frames) - 1), r.frames[Len(r.frames)]),
                Merge(stack), r.left, fill)
  BY <1>1, <1>3, <1>4, FramesMerging
<1>6. Course(e)[r.pc + 1].stack = Merge(stack) /\ Course(e)[r.pc + 1].table = FALSE
  BY <1>4, RestIs
<1>. QED
  BY <1>5, <1>6

\* The batch on the temporary table, and what leaves the frames as they are.
LEMMA AfterWriting ==
  ASSUME NEW r, NEW e, NEW fill, NEW op \in {"share", "create", "insert"}, IsAt(r, e, fill, op)
  PROVE  /\ FramesFit(r.frames, Course(e)[r.pc + 1].stack, r.left, fill)
         /\ op = "share" => Course(e)[r.pc + 1].table = FALSE
         /\ op = "create" => Course(e)[r.pc + 1].rows = {}
         /\ op = "insert" => /\ Course(e)[r.pc].table = TRUE
                             /\ Course(e)[r.pc + 1].rows
                                  = Course(e)[r.pc].rows \cup Asked(e[3][r.pc])
<1>1. e[3][r.pc].op = op
  BY DEF IsAt
<1>2. FramesFit(r.frames, Course(e)[r.pc].stack, r.left, fill)
  BY StepForetold
<1>3. StepFits(e[3][r.pc], Course(e)[r.pc], Course(e)[r.pc + 1],
               Course(e)[Lands(e[3], r.pc)], Starts(e))
  BY StepForetold
<1>. DEFINE step == e[3][r.pc]
            here == Course(e)[r.pc]
            next == Course(e)[r.pc + 1]
            land == Course(e)[Lands(e[3], r.pc)]
            early == Starts(e)
<1>. SUFFICES /\ FramesFit(r.frames, next.stack, r.left, fill)
              /\ op = "share" => next.table = FALSE
              /\ op = "create" => next.rows = {}
              /\ op = "insert" => here.table = TRUE /\ next.rows = here.rows \cup Asked(step)
  OBVIOUS
<1>4. StepFits(step, here, next, land, early) /\ step.op = op
      /\ FramesFit(r.frames, here.stack, r.left, fill)
  BY <1>1, <1>2, <1>3
<1>. HIDE DEF step, here, next, land, early
<1>5. CASE op = "share"
  <2>1. next = here /\ here.table = FALSE
    BY <1>4, <1>5 DEF StepFits
  <2>. QED
    BY <1>4, <1>5, <2>1
<1>6. CASE op = "create"
  <2>1. next = [stack |-> here.stack, table |-> TRUE, rows |-> {}]
    BY <1>4, <1>6 DEF StepFits
  <2>2. next.stack = here.stack /\ next.rows = {}
    BY <2>1
  <2>. QED
    BY <1>4, <1>6, <2>2
<1>7. CASE op = "insert"
  <2>1. /\ next = [stack |-> here.stack, table |-> TRUE, rows |-> here.rows \cup Asked(step)]
        /\ here.table = TRUE
    BY <1>4, <1>7 DEF StepFits
  <2>2. next.stack = here.stack /\ next.rows = here.rows \cup Asked(step)
    BY <2>1
  <2>. QED
    BY <1>4, <1>7, <2>1, <2>2
<1>. QED
  BY <1>5, <1>6, <1>7

LEMMA AfterDropping ==
  ASSUME NEW r, NEW e, NEW fill, IsAt(r, e, fill, "drop"),
         NEW rows, About(rows) = Course(e)[r.pc].rows
  PROVE  /\ FramesFit(Adding(r.frames, rows \X {fill - r.left}),
                      Course(e)[r.pc + 1].stack, r.left, fill)
         /\ Course(e)[r.pc + 1].table = FALSE /\ Course(e)[r.pc].table = TRUE
<1>1. e[3][r.pc].op = "drop" /\ fill \in Nat
  BY DEF IsAt
<1>. DEFINE stack == Course(e)[r.pc].stack
            parts == rows \X {fill - r.left}
<1>2. /\ FramesFit(r.frames, stack, r.left, fill) /\ IsStack(stack) /\ Len(stack) >= 1
      /\ r.left \in Nat /\ r.left <= fill
  BY StepForetold
<1>3. Course(e)[r.pc + 1] = Rest(Plus(stack, Course(e)[r.pc].rows))
      /\ Course(e)[r.pc].table = TRUE
  BY <1>1, StepForetold DEF StepFits
<1>4. About(Said(parts)) = Course(e)[r.pc].rows
  BY SaidOfAnswers
<1>. HIDE DEF stack
<1>5. TopOf(stack).old \in Ages
  BY <1>2 DEF TopOf, IsStack
<1>6. PartsFit(parts, TopOf(stack).old, r.left, fill)
  <2>. DEFINE old == TopOf(stack).old
              left == r.left
  <2>. SUFFICES ASSUME NEW p \in parts
                PROVE  p[2] \in Nat /\ (old # Any => p[2] + left <= old + fill)
    BY DEF PartsFit
  <2>1. p[2] = fill - left
    OBVIOUS
  <2>2. left \in Nat /\ left <= fill /\ old \in Ages
    BY <1>2, <1>5
  <2>. HIDE DEF old, left
  <2>3. fill - left \in Nat /\ (fill - left) + left = fill
    BY <1>1, <2>2
  <2>4. old # Any => fill <= old + fill
    BY <1>1, <2>2 DEF Ages
  <2>. QED
    BY <2>1, <2>3, <2>4
<1>. HIDE DEF parts
<1>7. FramesFit(Adding(r.frames, parts), Plus(stack, About(Said(parts))), r.left, fill)
  BY <1>2, <1>6, FramesAdding
<1>8. Course(e)[r.pc + 1].stack = Plus(stack, Course(e)[r.pc].rows)
      /\ Course(e)[r.pc + 1].table = FALSE
  BY <1>3, RestIs
<1>. QED
  BY <1>3, <1>4, <1>7, <1>8 DEF parts

\* An entry says what its key means.
IsEntry(k, entry) ==
  /\ entry.left \in Nat \ {0} /\ ~Never(k)
  /\ Unlooked(k) \/ About(Said(entry.parts)) = Meaning(k)
  /\ PartsFit(entry.parts, Old(k), entry.left, 0)

LEMMA AfterHitting ==
  ASSUME NEW r, NEW e, NEW fill, IsAt(r, e, fill, "look"),
         NEW entry, IsEntry(e[3][r.pc].key, entry)
  PROVE  /\ r.pc + e[3][r.pc].to \in ThePlaces(e)
         /\ FramesFit(Adding(r.frames, entry.parts),
                      Course(e)[r.pc + e[3][r.pc].to].stack, r.left, fill)
         /\ Course(e)[r.pc + e[3][r.pc].to].table = FALSE
<1>. DEFINE step == e[3][r.pc]
            stack == Course(e)[r.pc].stack
            k == step.key
<1>1. step.op = "look" /\ fill \in Nat
  BY DEF IsAt
<1>2. Lands(e[3], r.pc) = r.pc + step.to
  BY <1>1 DEF Lands
<1>3. /\ FramesFit(r.frames, stack, r.left, fill) /\ IsStack(stack) /\ Len(stack) >= 1
      /\ r.left \in Nat /\ r.left <= fill /\ Lands(e[3], r.pc) \in ThePlaces(e)
  BY StepForetold
<1>4. /\ ~Unlooked(k)
      /\ \/ Never(k)
         \/ /\ Course(e)[Lands(e[3], r.pc)] = Rest(Plus(stack, Meaning(k)))
            /\ Covers(TopOf(stack).old, Old(k))
  BY <1>1, StepForetold DEF StepFits
<1>5. /\ entry.left \in Nat \ {0} /\ About(Said(entry.parts)) = Meaning(k)
      /\ PartsFit(entry.parts, Old(k), entry.left, 0) /\ ~Never(k)
  BY <1>4 DEF IsEntry
<1>6. Course(e)[r.pc + step.to] = Rest(Plus(stack, Meaning(k))) /\ Covers(TopOf(stack).old, Old(k))
  BY <1>2, <1>4, <1>5
<1>7. r.pc + step.to \in ThePlaces(e)
  BY <1>2, <1>3
<1>. HIDE DEF stack, step, k
<1>8. PartsFit(entry.parts, TopOf(stack).old, r.left, fill)
  <2>. DEFINE old == TopOf(stack).old
              left == r.left
              time == entry.left
  <2>. SUFFICES ASSUME NEW p \in entry.parts
                PROVE  p[2] \in Nat /\ (old # Any => p[2] + left <= old + fill)
    BY DEF PartsFit
  <2>1. p[2] \in Nat /\ (Old(k) # Any => p[2] + time <= Old(k) + 0)
    BY <1>5 DEF PartsFit
  <2>2. left \in Nat /\ left <= fill /\ time \in Nat
    BY <1>3, <1>5
  <2>3. Old(k) \in Ages /\ old \in Ages /\ Covers(old, Old(k))
    BY <1>3, <1>6, AgesAre DEF TopOf, IsStack
  <2>. HIDE DEF old, left, time
  <2>4. ASSUME old # Any PROVE p[2] + left <= old + fill
    <3>1. Old(k) # Any /\ Old(k) <= old
      BY <2>3, <2>4 DEF Covers
    <3>2. Old(k) \in Nat /\ old \in Nat
      BY <2>3, <2>4, <3>1 DEF Ages
    <3>3. p[2] \in Nat /\ p[2] + time <= Old(k) + 0
      BY <2>1, <3>1
    <3>. DEFINE a == p[2]
                b == Old(k)
    <3>4. a \in Nat /\ b \in Nat /\ a + time <= b + 0 /\ b <= old
      BY <3>1, <3>2, <3>3
    <3>. HIDE DEF a, b
    <3>5. a + left <= old + fill
      BY <1>1, <2>2, <3>2, <3>4
    <3>. QED
      BY <3>5 DEF a
  <2>. QED
    BY <2>1, <2>4
<1>9. FramesFit(Adding(r.frames, entry.parts), Plus(stack, About(Said(entry.parts))), r.left, fill)
  BY <1>3, <1>8, FramesAdding
<1>10. FramesFit(Adding(r.frames, entry.parts), Plus(stack, Meaning(k)), r.left, fill)
  BY <1>5, <1>9
<1>11. Course(e)[r.pc + step.to].table = FALSE
       /\ Course(e)[r.pc + step.to].stack = Plus(stack, Meaning(k))
  BY <1>6, RestIs
<1>. QED
  BY <1>7, <1>10, <1>11 DEF step

LEMMA EntryMade ==
  ASSUME NEW key, NEW ttl, NEW said, NEW old \in Ages, Keeps(key, ttl, said, old),
         NEW parts, About(Said(parts)) = said,
         NEW left \in Nat, NEW fill \in Nat, fill <= MaxFill, PartsFit(parts, old, left, fill)
  PROVE  IsEntry(key, [parts |-> parts, left |-> ttl])
<1>1. ttl \in Nat \ {0} /\ ~Never(key) /\ (Unlooked(key) \/ said = Meaning(key))
      /\ (Old(key) # Any => old # Any /\ old + ttl + MaxFill <= Old(key))
  BY DEF Keeps
<1>2. PartsFit(parts, Old(key), ttl, 0)
  <2>. SUFFICES ASSUME NEW p \in parts
                PROVE  p[2] \in Nat /\ (Old(key) # Any => p[2] + ttl <= Old(key) + 0)
    BY DEF PartsFit
  <2>1. p[2] \in Nat /\ (old # Any => p[2] + left <= old + fill)
    BY DEF PartsFit
  <2>2. ASSUME Old(key) # Any PROVE p[2] + ttl <= Old(key) + 0
    <3>1. old # Any /\ old + ttl + MaxFill <= Old(key) /\ old \in Nat /\ Old(key) \in Nat
      BY <1>1, <2>2, AgesAre DEF Ages
    <3>. DEFINE a == p[2]
                b == Old(key)
                m == MaxFill
    <3>2. a \in Nat /\ b \in Nat /\ m \in Nat /\ a + left <= old + fill /\ fill <= m
          /\ old + ttl + m <= b /\ ttl \in Nat
      BY <1>1, <2>1, <3>1, MaxFillIs
    <3>. HIDE DEF a, b, m
    <3>3. a + ttl <= b + 0
      BY <3>1, <3>2
    <3>. QED
      BY <3>3 DEF a, b
  <2>. QED
    BY <2>1, <2>2
<1>. DEFINE entry == [parts |-> parts, left |-> ttl]
<1>3. entry.parts = parts /\ entry.left = ttl
  OBVIOUS
<1>. HIDE DEF entry
<1>4. IsEntry(key, entry)
  BY <1>1, <1>2, <1>3 DEF IsEntry
<1>. QED
  BY <1>4 DEF entry

LEMMA EntryAging ==
  ASSUME NEW k, NEW entry, IsEntry(k, entry), entry.left > 1
  PROVE  IsEntry(k, [parts |-> Older(entry.parts), left |-> entry.left - 1])
<1>. DEFINE later == [parts |-> Older(entry.parts), left |-> entry.left - 1]
            left == entry.left
<1>1. later.parts = Older(entry.parts) /\ later.left = left - 1
  OBVIOUS
<1>2. /\ left \in Nat /\ left > 1 /\ ~Never(k)
      /\ Unlooked(k) \/ About(Said(entry.parts)) = Meaning(k)
      /\ PartsFit(entry.parts, Old(k), left, 0)
  BY DEF IsEntry
<1>. HIDE DEF later, left
<1>3. Said(later.parts) = Said(entry.parts)
  BY <1>1, SaidOfOlder
<1>4. PartsFit(later.parts, Old(k), left - 1, 0)
  <2>. SUFFICES ASSUME NEW q \in entry.parts
                PROVE  q[2] + 1 \in Nat /\ (Old(k) # Any => q[2] + 1 + (left - 1) <= Old(k) + 0)
    BY <1>1 DEF PartsFit, Older
  <2>1. q[2] \in Nat /\ (Old(k) # Any => q[2] + left <= Old(k) + 0)
    BY <1>2 DEF PartsFit
  <2>2. q[2] + 1 + (left - 1) = q[2] + left
    BY <1>2, <2>1
  <2>. QED
    BY <2>1, <2>2
<1>5. later.left \in Nat \ {0}
  BY <1>1, <1>2
<1>6. IsEntry(k, later)
  BY <1>1, <1>2, <1>3, <1>4, <1>5 DEF IsEntry
<1>. QED
  BY <1>6 DEF later, left

LEMMA KeptIs ==
  ASSUME NEW r, NEW e, NEW fill, IsAt(r, e, fill, "keep"), fill <= MaxFill
  PROVE  IsEntry(e[3][r.pc].key,
                 [parts |-> r.frames[Len(r.frames)], left |-> e[3][r.pc].ttl])
<1>1. e[3][r.pc].op = "keep" /\ fill \in Nat
  BY DEF IsAt
<1>. DEFINE stack == Course(e)[r.pc].stack
            step == e[3][r.pc]
<1>2. /\ FramesFit(r.frames, stack, r.left, fill) /\ IsStack(stack) /\ Len(stack) >= 1
      /\ r.left \in Nat
  BY StepForetold
<1>3. Keeps(step.key, step.ttl, TopOf(stack).said, TopOf(stack).old)
  BY <1>1, StepForetold DEF StepFits
<1>. HIDE DEF stack, step
<1>4. Len(stack) \in 1..Len(stack) /\ TopOf(stack) = stack[Len(stack)]
  BY <1>2, Catenation DEF IsStack, TopOf
<1>5. TopOf(stack).old \in Ages
  BY <1>2, <1>4 DEF IsStack
<1>6. FrameFits(r.frames[Len(r.frames)], TopOf(stack), r.left, fill)
  BY <1>2, <1>4 DEF FramesFit
<1>7. /\ About(Said(r.frames[Len(r.frames)])) = TopOf(stack).said
      /\ PartsFit(r.frames[Len(r.frames)], TopOf(stack).old, r.left, fill)
  BY <1>6 DEF FrameFits
<1>8. IsEntry(step.key, [parts |-> r.frames[Len(r.frames)], left |-> step.ttl])
  BY <1>1, <1>2, <1>3, <1>5, <1>7, EntryMade
<1>. QED
  BY <1>8 DEF step

LEMMA SharedIs ==
  ASSUME NEW r, NEW e, NEW fill, IsAt(r, e, fill, "share"), fill <= MaxFill
  PROVE  IsEntry(e[3][r.pc].key,
                 [parts |-> {p \in r.frames[Len(r.frames)] : p[1] \in e[3][r.pc].only},
                  left |-> e[3][r.pc].ttl])
<1>1. e[3][r.pc].op = "share" /\ fill \in Nat
  BY DEF IsAt
<1>. DEFINE stack == Course(e)[r.pc].stack
            step == e[3][r.pc]
            parts == {p \in r.frames[Len(r.frames)] : p[1] \in step.only}
<1>2. /\ FramesFit(r.frames, stack, r.left, fill) /\ IsStack(stack) /\ Len(stack) >= 1
      /\ r.left \in Nat
  BY StepForetold
<1>3. Keeps(step.key, step.ttl, TopOf(stack).said \cap About(step.only), TopOf(stack).old)
  BY <1>1, StepForetold DEF StepFits
<1>. HIDE DEF stack, step
<1>4. Len(stack) \in 1..Len(stack) /\ TopOf(stack) = stack[Len(stack)]
  BY <1>2, Catenation DEF IsStack, TopOf
<1>5. TopOf(stack).old \in Ages
  BY <1>2, <1>4 DEF IsStack
<1>6. FrameFits(r.frames[Len(r.frames)], TopOf(stack), r.left, fill)
  BY <1>2, <1>4 DEF FramesFit
<1>7. About(Said(parts)) = TopOf(stack).said \cap About(step.only)
  <2>1. About(Said(r.frames[Len(r.frames)])) = TopOf(stack).said
    BY <1>6 DEF FrameFits
  <2>2. About(Said(parts)) = About(Said(r.frames[Len(r.frames)])) \cap About(step.only)
    BY DEF About, Said
  <2>. QED
    BY <2>1, <2>2
<1>8. PartsFit(parts, TopOf(stack).old, r.left, fill)
  BY <1>6 DEF FrameFits, PartsFit
<1>. HIDE DEF parts
<1>9. IsEntry(step.key, [parts |-> parts, left |-> step.ttl])
  BY <1>1, <1>2, <1>3, <1>5, <1>7, <1>8, EntryMade
<1>. QED
  BY <1>9 DEF step, parts

-------------------------------------------------------------------------------
(* What is always so *)

\* Every request is where it was foretold to be.
RequestsFit ==
  /\ asks \in [Clients -> Catalogue \cup {Nothing}]
  /\ client = [c \in Clients |-> client[c]]
  /\ \A c \in Clients :
       Busy(c) => asks[c] \in Catalogue /\ IsRequest(client[c], asks[c], Fill[c])

RedisFits == \A k \in DOMAIN redis : IsEntry(k, redis[k])

\* The temporary table is one request's at most, which knows what is in it.
Place(c) == Course(asks[c])[client[c].pc]
Batching(c) == Busy(c) /\ Place(c).table = TRUE
TableFits ==
  /\ topTable = [made |-> topTable.made, rows |-> topTable.rows] /\ topTable.made \in BOOLEAN
  /\ \A c \in Clients :
       Batching(c) => topTable.made /\ About(topTable.rows) = Place(c).rows
  /\ \A c, d \in Clients : Batching(c) /\ Batching(d) => c = d

IInv == RequestsFit /\ RedisFits /\ TableFits

LEMMA InitFits == Init => IInv
<1>. SUFFICES ASSUME Init PROVE IInv
  OBVIOUS
<1>1. \A c \in Clients : client[c].pc = 0
  BY DEF Init, Idle
<1>2. \A c \in Clients : ~Busy(c) /\ ~Batching(c)
  BY <1>1 DEF Busy, Batching
<1>3. RequestsFit
  <2>1. client = [c \in Clients |-> client[c]]
    BY DEF Init
  <2>. QED
    BY <1>2, <2>1 DEF RequestsFit, Init
<1>4. RedisFits
  BY DEF RedisFits, Init
<1>5. TableFits
  <2>1. topTable = NoTable
    BY DEF Init
  <2>2. topTable = [made |-> topTable.made, rows |-> topTable.rows] /\ topTable.made \in BOOLEAN
    BY <2>1 DEF NoTable
  <2>. QED
    BY <1>2, <2>2 DEF TableFits
<1>. QED
  BY <1>3, <1>4, <1>5 DEF IInv

\* A client at a step.
LEMMA ClientAt ==
  ASSUME RequestsFit, NEW c \in Clients, NEW op, At(c, op)
  PROVE  IsAt(client[c], asks[c], Fill[c], op) /\ Busy(c) /\ Fill[c] <= MaxFill
<1>1. /\ Busy(c) /\ client[c].pc <= Len(asks[c][3]) /\ asks[c][3][client[c].pc].op = op
  BY DEF At, Step, Code
<1>2. asks[c] \in Catalogue /\ IsRequest(client[c], asks[c], Fill[c])
  BY <1>1 DEF RequestsFit
<1>3. client[c].pc \in TheSteps(asks[c])
  <2>1. client[c].pc \in ThePlaces(asks[c]) /\ Len(asks[c][3]) \in Nat
    BY <1>2, CourseIs DEF IsRequest
  <2>. QED
    BY <1>1, <2>1 DEF ThePlaces, TheSteps
<1>. QED
  BY <1>1, <1>2, <1>3, MaxFillIs DEF IsAt

\* The others do not see a step of one client.
LEMMA OneMoves ==
  ASSUME RequestsFit, NEW c \in Clients, NEW s, client' = [client EXCEPT ![c] = s], asks' = asks,
         s.pc > 0 => asks[c] \in Catalogue /\ IsRequest(s, asks[c], Fill[c])
  PROVE  RequestsFit' /\ client'[c] = s /\ \A d \in Clients : d # c => client'[d] = client[d]
<1>1. client = [d \in Clients |-> client[d]]
  BY DEF RequestsFit
<1>2. client'[c] = s /\ \A d \in Clients : d # c => client'[d] = client[d]
  BY <1>1
<1>3. client' = [d \in Clients |-> client'[d]]
  BY <1>1
<1>4. ASSUME NEW d \in Clients, Busy(d)'
      PROVE  asks'[d] \in Catalogue /\ IsRequest(client'[d], asks'[d], Fill[d])
  <2>1. CASE d = c
    <3>1. s.pc > 0
      BY <1>2, <1>4, <2>1 DEF Busy
    <3>. QED
      BY <1>2, <2>1, <3>1
  <2>2. CASE d # c
    <3>1. Busy(d)
      BY <1>2, <1>4, <2>2 DEF Busy
    <3>. QED
      BY <1>2, <2>2, <3>1 DEF RequestsFit
  <2>. QED
    BY <2>1, <2>2
<1>5. asks' \in [Clients -> Catalogue \cup {Nothing}]
  BY DEF RequestsFit
<1>6. RequestsFit'
  BY <1>3, <1>4, <1>5 DEF RequestsFit
<1>. QED
  BY <1>2, <1>6

LEMMA TableStays ==
  ASSUME TableFits, NEW c \in Clients, asks' = asks, topTable' = topTable,
         \A d \in Clients : d # c => client'[d] = client[d], ~Batching(c)'
  PROVE  TableFits'
<1>1. ASSUME NEW d \in Clients, Batching(d)'
      PROVE  Batching(d) /\ Place(d)' = Place(d)
  <2>1. client'[d] = client[d]
    BY <1>1
  <2>. QED
    BY <1>1, <2>1 DEF Batching, Busy, Place
<1>2. topTable' = [made |-> topTable'.made, rows |-> topTable'.rows]
      /\ topTable'.made \in BOOLEAN
  BY DEF TableFits
<1>3. \A d \in Clients :
        Batching(d)' => topTable'.made /\ About(topTable'.rows) = Place(d)'.rows
  BY <1>1 DEF TableFits
<1>4. \A a, b \in Clients : Batching(a)' /\ Batching(b)' => a = b
  BY <1>1 DEF TableFits
<1>. QED
  BY <1>2, <1>3, <1>4 DEF TableFits

\* A client ends its request.
LEMMA Dropping ==
  ASSUME IInv, NEW c \in Clients, Drop(c), UNCHANGED <<asks, redis, topTable>>
  PROVE  IInv'
<1>1. client' = [client EXCEPT ![c] = Idle] /\ Idle.pc = 0
  BY DEF Drop, Idle
<1>2. RequestsFit' /\ client'[c] = Idle /\ \A d \in Clients : d # c => client'[d] = client[d]
  <2>1. ~(Idle.pc > 0)
    BY <1>1
  <2>. QED
    BY <1>1, <2>1, OneMoves DEF IInv
<1>3. ~Batching(c)'
  BY <1>1, <1>2 DEF Batching, Busy
<1>4. TableFits'
  BY <1>2, <1>3, TableStays DEF IInv
<1>5. RedisFits'
  BY DEF IInv, RedisFits
<1>. QED
  BY <1>2, <1>4, <1>5 DEF IInv

\* A client goes on to a step.
LEMMA Jumping ==
  ASSUME RequestsFit, NEW c \in Clients, Busy(c), NEW pc \in ThePlaces(asks[c]), NEW frames,
         FramesFit(frames, Course(asks[c])[pc].stack, client[c].left, Fill[c]),
         At(c, "start") => Starts(asks[c]),
         Jump(c, pc, frames), asks' = asks
  PROVE  /\ RequestsFit' /\ client'[c].pc = pc /\ Place(c)' = Course(asks[c])[pc]
         /\ \A d \in Clients : d # c => client'[d] = client[d]
<1>1. asks[c] \in Catalogue /\ IsRequest(client[c], asks[c], Fill[c])
  BY DEF RequestsFit
<1>. DEFINE e == asks[c]
            r == client[c]
            early == \/ r.early /\ ~At(c, "join")
                     \/ At(c, "start")
            next == Adding(frames, SentAt(e, pc))
            s == [pc |-> pc, frames |-> next, left |-> r.left, early |-> early]
<1>2. /\ r.left \in 0..Fill[c] /\ r.early \in BOOLEAN /\ (r.early => Starts(e))
      /\ Fill[c] \in Nat
  BY <1>1, MaxFillIs DEF IsRequest
<1>3. FramesFit(next, Expected(e, pc), r.left, Fill[c])
  BY <1>1, <1>2, Arriving
<1>4. early \in BOOLEAN /\ (early => Starts(e))
  BY <1>2
<1>5. Launched(c, pc) = SentAt(e, pc)
  BY DEF Launched, SentAt, Sends, Code
<1>6. client' = [client EXCEPT ![c] = s]
  BY <1>5 DEF Jump
<1>. HIDE DEF early, next
<1>7. s.pc = pc /\ s.frames = next /\ s.left = r.left /\ s.early = early
  OBVIOUS
<1>8. s = [pc |-> s.pc, frames |-> s.frames, left |-> s.left, early |-> s.early]
  BY <1>7
<1>. HIDE DEF s
<1>9. IsRequest(s, e, Fill[c])
  BY <1>2, <1>3, <1>4, <1>7, <1>8 DEF IsRequest
<1>10. RequestsFit' /\ client'[c] = s /\ \A d \in Clients : d # c => client'[d] = client[d]
  BY <1>1, <1>6, <1>9, OneMoves
<1>11. client'[c].pc = pc /\ Place(c)' = Course(asks[c])[pc]
  BY <1>7, <1>10 DEF Place
<1>. QED
  BY <1>10, <1>11

\* Something is kept.
LEMMA Keeping ==
  ASSUME RedisFits, NEW key, NEW parts, NEW ttl,
         IsEntry(key, [parts |-> parts, left |-> ttl]), redis' = With(key, parts, ttl)
  PROVE  RedisFits'
<1>. DEFINE entry == [parts |-> parts, left |-> ttl]
<1>1. DOMAIN redis' = DOMAIN redis \cup {key}
  BY DEF With
<1>2. \A k \in DOMAIN redis \cup {key} : redis'[k] = IF k = key THEN entry ELSE redis[k]
  BY DEF With
<1>. HIDE DEF entry
<1>3. IsEntry(key, entry)
  BY DEF entry
<1>. SUFFICES ASSUME NEW k \in DOMAIN redis' PROVE IsEntry(k, redis'[k])
  BY DEF RedisFits
<1>4. CASE k = key
  BY <1>1, <1>2, <1>3, <1>4
<1>5. CASE k # key
  BY <1>1, <1>2, <1>5 DEF RedisFits
<1>. QED
  BY <1>4, <1>5

\* A client goes on, outside the batch.
LEMMA Going ==
  ASSUME IInv, NEW c \in Clients, Busy(c), NEW pc \in ThePlaces(asks[c]), NEW frames,
         FramesFit(frames, Course(asks[c])[pc].stack, client[c].left, Fill[c]),
         Course(asks[c])[pc].table = FALSE,
         At(c, "start") => Starts(asks[c]),
         Jump(c, pc, frames), RedisFits', UNCHANGED <<asks, topTable>>
  PROVE  IInv'
<1>1. /\ RequestsFit' /\ Place(c)' = Course(asks[c])[pc]
      /\ \A d \in Clients : d # c => client'[d] = client[d]
  BY Jumping DEF IInv
<1>2. ~Batching(c)'
  BY <1>1 DEF Batching
<1>3. TableFits'
  BY <1>1, <1>2, TableStays DEF IInv
<1>. QED
  BY <1>1, <1>3 DEF IInv

LEMMA OneOperation ==
  ASSUME NEW c, NEW op, NEW other, At(c, op), At(c, other)
  PROVE  op = other
BY DEF At

LEMMA HitFits == ASSUME IInv, NEW c \in Clients, Hit(c) PROVE IInv'
<1>. DEFINE e == asks[c]
            r == client[c]
            step == e[3][r.pc]
<1>1. At(c, "look") /\ step.key \in DOMAIN redis
  BY DEF Hit, Step, Code
<1>2. IsAt(r, e, Fill[c], "look") /\ Busy(c)
  BY <1>1, ClientAt DEF IInv
<1>3. IsEntry(step.key, redis[step.key])
  BY <1>1 DEF IInv, RedisFits
<1>4. /\ r.pc + step.to \in ThePlaces(e)
      /\ FramesFit(Adding(r.frames, redis[step.key].parts),
                   Course(e)[r.pc + step.to].stack, r.left, Fill[c])
      /\ Course(e)[r.pc + step.to].table = FALSE
  BY <1>2, <1>3, AfterHitting
<1>5. Jump(c, r.pc + step.to, Adding(r.frames, redis[step.key].parts))
  BY DEF Hit, Step, Code, Frames
<1>6. At(c, "start") => Starts(asks[c])
  BY <1>1, OneOperation
<1>7. UNCHANGED <<asks, redis, topTable>>
  BY DEF Hit
<1>8. RedisFits'
  BY <1>7 DEF IInv, RedisFits
<1>. QED
  BY <1>2, <1>4, <1>5, <1>6, <1>7, <1>8, Going

LEMMA MissFits == ASSUME IInv, NEW c \in Clients, Miss(c) \/ Open(c) PROVE IInv'
<1>. DEFINE e == asks[c]
            r == client[c]
<1>1. PICK op \in {"look", "open"} : At(c, op)
  BY DEF Miss, Open
<1>2. IsAt(r, e, Fill[c], op) /\ Busy(c)
  BY <1>1, ClientAt DEF IInv
<1>3. /\ FramesFit(Append(r.frames, {}), Course(e)[r.pc + 1].stack, r.left, Fill[c])
      /\ Course(e)[r.pc + 1].table = FALSE
  BY <1>2, AfterOpening
<1>4. r.pc + 1 \in ThePlaces(e)
  BY <1>2, StepForetold
<1>5. Jump(c, r.pc + 1, Append(r.frames, {})) /\ UNCHANGED <<asks, redis, topTable>>
  BY DEF Miss, Open, Onward, Frames
<1>6. At(c, "start") => Starts(asks[c])
  BY <1>1, OneOperation
<1>7. RedisFits'
  BY <1>5 DEF IInv, RedisFits
<1>. QED
  BY <1>2, <1>3, <1>4, <1>5, <1>6, <1>7, Going

LEMMA CloseFits == ASSUME IInv, NEW c \in Clients, Close(c) \/ Keep(c) PROVE IInv'
<1>. DEFINE e == asks[c]
            r == client[c]
            step == e[3][r.pc]
            merged == Adding(SubSeq(r.frames, 1, Len(r.frames) - 1), r.frames[Len(r.frames)])
<1>1. PICK op \in {"close", "keep"} : At(c, op)
  BY DEF Close, Keep
<1>2. IsAt(r, e, Fill[c], op) /\ Busy(c) /\ Fill[c] <= MaxFill
  BY <1>1, ClientAt DEF IInv
<1>3. /\ FramesFit(merged, Course(e)[r.pc + 1].stack, r.left, Fill[c])
      /\ Course(e)[r.pc + 1].table = FALSE
  BY <1>2, AfterMerging
<1>4. r.pc + 1 \in ThePlaces(e)
  BY <1>2, StepForetold
<1>5. Jump(c, r.pc + 1, merged) /\ UNCHANGED <<asks, topTable>>
  BY DEF Close, Keep, Onward, Merged, Under, TopFrame, Frames
<1>6. At(c, "start") => Starts(asks[c])
  BY <1>1, OneOperation
<1>7. RedisFits'
  <2>1. CASE Close(c)
    <3>1. redis' = redis
      BY <2>1 DEF Close
    <3>. QED
      BY <3>1 DEF IInv, RedisFits
  <2>2. CASE Keep(c)
    <3>1. At(c, "keep")
      BY <2>2 DEF Keep
    <3>2. IsAt(r, e, Fill[c], "keep")
      BY <3>1, ClientAt DEF IInv
    <3>3. redis' = With(step.key, r.frames[Len(r.frames)], step.ttl)
      BY <2>2 DEF Keep, Step, Code, TopFrame, Frames
    <3>4. IsEntry(step.key, [parts |-> r.frames[Len(r.frames)], left |-> step.ttl])
      BY <1>2, <3>2, KeptIs
    <3>. QED
      BY <3>3, <3>4, Keeping DEF IInv
  <2>. QED
    BY <2>1, <2>2
<1>. HIDE DEF merged
<1>. QED
  BY <1>2, <1>3, <1>4, <1>5, <1>6, <1>7, Going

LEMMA ShareOutFits == ASSUME IInv, NEW c \in Clients, ShareOut(c) PROVE IInv'
<1>. DEFINE e == asks[c]
            r == client[c]
            step == e[3][r.pc]
            parts == {p \in r.frames[Len(r.frames)] : p[1] \in step.only}
<1>1. At(c, "share")
  BY DEF ShareOut
<1>2. IsAt(r, e, Fill[c], "share") /\ Busy(c) /\ Fill[c] <= MaxFill
  BY <1>1, ClientAt DEF IInv
<1>3. /\ FramesFit(r.frames, Course(e)[r.pc + 1].stack, r.left, Fill[c])
      /\ Course(e)[r.pc + 1].table = FALSE
  BY <1>2, AfterWriting
<1>4. r.pc + 1 \in ThePlaces(e)
  BY <1>2, StepForetold
<1>5. Jump(c, r.pc + 1, r.frames) /\ UNCHANGED <<asks, topTable>>
  BY DEF ShareOut, Onward, Frames
<1>6. At(c, "start") => Starts(asks[c])
  BY <1>1, OneOperation
<1>7. RedisFits'
  <2>1. CASE redis' = redis
    BY <2>1 DEF IInv, RedisFits
  <2>2. CASE redis' = With(step.key, parts, step.ttl)
    <3>1. IsEntry(step.key, [parts |-> parts, left |-> step.ttl])
      BY <1>2, SharedIs
    <3>. HIDE DEF parts
    <3>. QED
      BY <2>2, <3>1, Keeping DEF IInv
  <2>3. redis' = redis \/ redis' = With(step.key, parts, step.ttl)
    BY DEF ShareOut, Step, Code, TopFrame, Frames
  <2>. QED
    BY <2>1, <2>2, <2>3
<1>. QED
  BY <1>2, <1>3, <1>4, <1>5, <1>6, <1>7, Going

LEMMA AnsweredFits == ASSUME IInv, NEW c \in Clients, Answered(c) PROVE IInv'
<1>. DEFINE e == asks[c]
            r == client[c]
<1>1. PICK op \in {"ask", "start", "join"} : At(c, op)
  BY DEF Answered
<1>2. IsAt(r, e, Fill[c], op) /\ Busy(c)
  BY <1>1, ClientAt DEF IInv
<1>3. /\ FramesFit(r.frames, Course(e)[r.pc + 1].stack, r.left, Fill[c])
      /\ Course(e)[r.pc + 1].table = FALSE /\ (op = "start" => Starts(e))
  BY <1>2, AfterAsking
<1>4. r.pc + 1 \in ThePlaces(e)
  BY <1>2, StepForetold
<1>5. Jump(c, r.pc + 1, r.frames) /\ UNCHANGED <<asks, redis, topTable>>
  BY DEF Answered, Onward, Frames
<1>6. At(c, "start") => Starts(asks[c])
  BY <1>1, <1>3, OneOperation
<1>7. RedisFits'
  BY <1>5 DEF IInv, RedisFits
<1>. QED
  BY <1>2, <1>3, <1>4, <1>5, <1>6, <1>7, Going

LEMMA CreateTopFits == ASSUME IInv, NEW c \in Clients, CreateTop(c) PROVE IInv'
<1>. DEFINE e == asks[c]
            r == client[c]
<1>1. At(c, "create") /\ UNCHANGED <<asks, redis>>
  BY DEF CreateTop
<1>2. CASE topTable.made
  <2>1. Drop(c) /\ UNCHANGED <<asks, redis, topTable>>
    BY <1>1, <1>2 DEF CreateTop, Leave
  <2>. QED
    BY <2>1, Dropping
<1>3. CASE ~topTable.made
  <2>1. Jump(c, r.pc + 1, r.frames) /\ topTable' = [made |-> TRUE, rows |-> {}]
    BY <1>3 DEF CreateTop, Onward, Frames
  <2>2. IsAt(r, e, Fill[c], "create") /\ Busy(c)
    BY <1>1, ClientAt DEF IInv
  <2>3. /\ FramesFit(r.frames, Course(e)[r.pc + 1].stack, r.left, Fill[c])
        /\ Course(e)[r.pc + 1].rows = {}
    BY <2>2, AfterWriting
  <2>4. r.pc + 1 \in ThePlaces(e)
    BY <2>2, StepForetold
  <2>5. At(c, "start") => Starts(asks[c])
    BY <1>1, OneOperation
  <2>6. /\ RequestsFit' /\ Place(c)' = Course(e)[r.pc + 1]
        /\ \A d \in Clients : d # c => client'[d] = client[d]
    BY <1>1, <2>1, <2>2, <2>3, <2>4, <2>5, Jumping DEF IInv
  <2>7. \A d \in Clients : ~Batching(d)
    BY <1>3 DEF IInv, TableFits
  <2>8. \A d \in Clients : Batching(d)' => d = c
    <3>1. \A d \in Clients : d # c => (Batching(d)' <=> Batching(d))
      BY <1>1, <2>6 DEF Batching, Busy, Place
    <3>. QED
      BY <2>7, <3>1
  <2>9. TableFits'
    <3>1. topTable'.made = TRUE /\ About(topTable'.rows) = {}
      BY <2>1 DEF About
    <3>2. topTable' = [made |-> topTable'.made, rows |-> topTable'.rows]
      BY <2>1
    <3>. QED
      BY <2>3, <2>6, <2>8, <3>1, <3>2 DEF TableFits
  <2>10. RedisFits'
    BY <1>1 DEF IInv, RedisFits
  <2>. QED
    BY <2>6, <2>9, <2>10 DEF IInv
<1>. QED
  BY <1>2, <1>3

LEMMA InsertTopFits == ASSUME IInv, NEW c \in Clients, InsertTop(c) PROVE IInv'
<1>. DEFINE e == asks[c]
            r == client[c]
            step == e[3][r.pc]
<1>1. At(c, "insert") /\ UNCHANGED <<asks, redis>>
  BY DEF InsertTop
<1>2. /\ Jump(c, r.pc + 1, r.frames)
      /\ topTable' = [topTable EXCEPT !.rows = @ \cup step.rows]
  BY DEF InsertTop, Onward, Frames, Step, Code
<1>3. IsAt(r, e, Fill[c], "insert") /\ Busy(c)
  BY <1>1, ClientAt DEF IInv
<1>4. /\ FramesFit(r.frames, Course(e)[r.pc + 1].stack, r.left, Fill[c])
      /\ Course(e)[r.pc].table = TRUE
      /\ Course(e)[r.pc + 1].rows = Course(e)[r.pc].rows \cup Asked(step)
  BY <1>3, AfterWriting
<1>5. r.pc + 1 \in ThePlaces(e)
  BY <1>3, StepForetold
<1>6. At(c, "start") => Starts(asks[c])
  BY <1>1, OneOperation
<1>7. /\ RequestsFit' /\ Place(c)' = Course(e)[r.pc + 1]
      /\ \A d \in Clients : d # c => client'[d] = client[d]
  BY <1>1, <1>2, <1>3, <1>4, <1>5, <1>6, Jumping DEF IInv
<1>8. Batching(c)
  BY <1>3, <1>4 DEF Batching, Place
<1>9. \A d \in Clients : Batching(d)' => d = c
  <2>1. \A d \in Clients : d # c => (Batching(d)' <=> Batching(d))
    BY <1>1, <1>7 DEF Batching, Busy, Place
  <2>. QED
    BY <1>8, <2>1 DEF IInv, TableFits
<1>10. topTable.made = TRUE /\ About(topTable.rows) = Course(e)[r.pc].rows
  BY <1>8 DEF IInv, TableFits, Place
<1>11. topTable' = [made |-> TRUE, rows |-> topTable.rows \cup step.rows]
  BY <1>2, <1>10 DEF IInv, TableFits
<1>12. About(topTable'.rows) = Course(e)[r.pc + 1].rows
  <2>1. Asked(step) = About(step.rows)
    BY <1>3 DEF Asked, IsAt
  <2>2. About(topTable.rows \cup step.rows) = About(topTable.rows) \cup About(step.rows)
    BY DEF About
  <2>. QED
    BY <1>4, <1>10, <1>11, <2>1, <2>2
<1>13. TableFits'
  <2>1. topTable'.made = TRUE
    BY <1>11
  <2>2. topTable' = [made |-> topTable'.made, rows |-> topTable'.rows]
    BY <1>11
  <2>. QED
    BY <1>7, <1>9, <1>12, <2>1, <2>2 DEF TableFits
<1>14. RedisFits'
  BY <1>1 DEF IInv, RedisFits
<1>. QED
  BY <1>7, <1>13, <1>14 DEF IInv

LEMMA DropTopFits == ASSUME IInv, NEW c \in Clients, DropTop(c) PROVE IInv'
<1>. DEFINE e == asks[c]
            r == client[c]
            frames == Adding(r.frames, topTable.rows \X {Fill[c] - r.left})
<1>1. At(c, "drop") /\ UNCHANGED <<asks, redis>> /\ topTable' = NoTable
  BY DEF DropTop
<1>2. Jump(c, r.pc + 1, frames)
  BY DEF DropTop, Onward, Frames
<1>3. IsAt(r, e, Fill[c], "drop") /\ Busy(c)
  BY <1>1, ClientAt DEF IInv
<1>4. Course(e)[r.pc].table = TRUE
  <2>1. e[3][r.pc].op = "drop"
    BY <1>3 DEF IsAt
  <2>. QED
    BY <1>3, <2>1, StepForetold DEF StepFits
<1>5. Batching(c)
  BY <1>3, <1>4 DEF Batching, Place
<1>6. About(topTable.rows) = Course(e)[r.pc].rows
  BY <1>5 DEF IInv, TableFits, Place
<1>7. /\ FramesFit(frames, Course(e)[r.pc + 1].stack, r.left, Fill[c])
      /\ Course(e)[r.pc + 1].table = FALSE
  BY <1>3, <1>6, AfterDropping
<1>. HIDE DEF frames
<1>8. r.pc + 1 \in ThePlaces(e)
  BY <1>3, StepForetold
<1>9. At(c, "start") => Starts(asks[c])
  BY <1>1, OneOperation
<1>10. /\ RequestsFit' /\ Place(c)' = Course(e)[r.pc + 1]
       /\ \A d \in Clients : d # c => client'[d] = client[d]
  BY <1>1, <1>2, <1>3, <1>7, <1>8, <1>9, Jumping DEF IInv
<1>11. \A d \in Clients : ~Batching(d)'
  <2>1. \A d \in Clients : d # c => (Batching(d)' <=> Batching(d))
    BY <1>1, <1>10 DEF Batching, Busy, Place
  <2>2. ~Batching(c)'
    BY <1>7, <1>10 DEF Batching
  <2>. QED
    BY <1>5, <2>1, <2>2 DEF IInv, TableFits
<1>12. TableFits'
  <2>1. topTable' = [made |-> topTable'.made, rows |-> topTable'.rows]
        /\ topTable'.made \in BOOLEAN
    BY <1>1 DEF NoTable
  <2>. QED
    BY <1>11, <2>1 DEF TableFits
<1>13. RedisFits'
  BY <1>1 DEF IInv, RedisFits
<1>. QED
  BY <1>10, <1>12, <1>13 DEF IInv

LEMMA ExpectedIs ==
  ASSUME NEW e \in Catalogue, NEW i \in ThePlaces(e)
  PROVE  IsStack(Expected(e, i)) /\ Len(Expected(e, i)) \in 1..4
<1>. DEFINE stack == Course(e)[i].stack
            n == Len(stack)
            T == Asked(e[3][i])
<1>1. IsStack(stack) /\ n \in 1..4
  BY CourseIs
<1>. HIDE DEF stack
<1>2. IsProgram(stack) /\ n \in 1..n /\ \A j \in 1..n : stack[j].old \in Ages
  BY <1>1 DEF IsStack
<1>. DEFINE top == [said |-> stack[n].said \cup T, old |-> stack[n].old]
            more == Replaced(stack, n, top)
<1>3. Plus(stack, T) = more
  BY DEF Plus, Replaced
<1>4. top.old = stack[n].old
  OBVIOUS
<1>. HIDE DEF top, T
<1>5. /\ IsProgram(more) /\ Len(more) = n /\ more[n] = top
      /\ \A j \in 1..n : j # n => more[j] = stack[j]
  BY <1>2, Replacing
<1>. HIDE DEF more
<1>6. \A j \in 1..n : more[j].old \in Ages
  BY <1>2, <1>4, <1>5
<1>7. IsStack(more) /\ Len(more) \in 1..4
  BY <1>1, <1>5, <1>6 DEF IsStack
<1>. QED
  BY <1>1, <1>3, <1>7 DEF Expected, stack, T

LEMMA BeginFits == ASSUME IInv, NEW c \in Clients, Begin(c) PROVE IInv'
<1>. DEFINE e == asks[c]
            fill == Fill[c]
            sent == SentAt(e, 1)
            s == [pc |-> 1, frames |-> <<sent>>, left |-> fill, early |-> FALSE]
            stack == Course(e)[1].stack
<1>1. e \in Catalogue
  BY DEF Begin, IInv, RequestsFit
<1>2. fill \in Nat /\ fill \in 0..fill
  <2>1. fill \in Nat
    BY MaxFillIs
  <2>. QED
    BY <2>1
<1>3. 1 \in ThePlaces(e)
  BY <1>1, CourseIs DEF ThePlaces
<1>4. stack = <<[said |-> {}, old |-> Limit(e)]>> /\ Course(e)[1].table = FALSE
  <2>1. Course(e)[1] = Rest(<<[said |-> {}, old |-> Limit(e)]>>)
    BY <1>1, CourseIs
  <2>. QED
    BY <2>1, RestIs
<1>5. FramesFit(<<{}>>, stack, fill, fill)
  <2>. DEFINE f == [said |-> {}, old |-> Limit(e)]
  <2>1. FrameFits({}, f, fill, fill)
    BY DEF FrameFits, PartsFit, About, Said
  <2>. HIDE DEF f
  <2>2. /\ IsProgram(<<{}>>) /\ Len(<<{}>>) = 1 /\ Len(<<f>>) = 1
        /\ <<{}>>[1] = {} /\ <<f>>[1] = f /\ \A j \in 1..1 : j = 1
    BY OneStep
  <2>3. FramesFit(<<{}>>, <<f>>, fill, fill)
    BY <2>1, <2>2 DEF FramesFit
  <2>. QED
    BY <1>4, <2>3 DEF f
<1>6. FramesFit(Adding(<<{}>>, sent), Expected(e, 1), fill, fill)
  BY <1>1, <1>2, <1>3, <1>5, Arriving
<1>. HIDE DEF sent, stack
<1>7. Adding(<<{}>>, sent) = <<sent>>
  BY DEF Adding
<1>8. Launched(c, 1) = sent
  BY DEF Launched, SentAt, Sends, Code, sent
<1>9. client' = [client EXCEPT ![c] = s] /\ UNCHANGED <<asks, redis, topTable>>
  BY <1>8 DEF Begin
<1>10. s.pc = 1 /\ s.frames = <<sent>> /\ s.left = fill /\ s.early = FALSE
       /\ s = [pc |-> s.pc, frames |-> s.frames, left |-> s.left, early |-> s.early]
  OBVIOUS
<1>. HIDE DEF s
<1>11. IsRequest(s, e, fill)
  BY <1>2, <1>3, <1>6, <1>7, <1>10 DEF IsRequest
<1>12. RequestsFit' /\ client'[c] = s /\ \A d \in Clients : d # c => client'[d] = client[d]
  BY <1>1, <1>9, <1>11, OneMoves DEF IInv
<1>13. ~Batching(c)'
  <2>1. Place(c)' = Course(e)[1]
    BY <1>9, <1>10, <1>12 DEF Place
  <2>. QED
    BY <1>4, <2>1 DEF Batching
<1>14. TableFits'
  BY <1>9, <1>12, <1>13, TableStays DEF IInv
<1>15. RedisFits'
  BY <1>9 DEF IInv, RedisFits
<1>. QED
  BY <1>12, <1>14, <1>15 DEF IInv

\* The process is started again: no request is left.
LEMMA CrashFits == ASSUME IInv, Crash PROVE IInv'
<1>1. client' = [d \in Clients |-> Idle] /\ UNCHANGED <<asks, redis, topTable>>
  BY DEF Crash
<1>2. \A d \in Clients : client'[d].pc = 0
  BY <1>1 DEF Idle
<1>3. \A d \in Clients : ~Busy(d)' /\ ~Batching(d)'
  BY <1>2 DEF Busy, Batching
<1>4. RequestsFit'
  BY <1>1, <1>3 DEF IInv, RequestsFit
<1>5. TableFits'
  BY <1>1, <1>3 DEF IInv, TableFits
<1>6. RedisFits'
  BY <1>1 DEF IInv, RedisFits
<1>. QED
  BY <1>4, <1>5, <1>6 DEF IInv

LEMMA SessionClosesFits == ASSUME IInv, SessionCloses PROVE IInv'
<1>1. UNCHANGED <<asks, client, redis>> /\ topTable' = NoTable
  BY DEF SessionCloses
<1>2. ASSUME NEW c \in Clients, Batching(c) PROVE FALSE
  <2>. DEFINE e == asks[c]
              i == client[c].pc
  <2>1. e \in Catalogue /\ i \in ThePlaces(e) /\ Course(e)[i].table = TRUE /\ Busy(c)
    BY <1>2 DEF Batching, Place, IInv, RequestsFit, IsRequest
  <2>2. Len(e[3]) \in Nat /\ Course(e)[Len(e[3]) + 1].table = FALSE
    BY <2>1, CourseIs, RestIs
  <2>3. i \in TheSteps(e) /\ i <= Len(e[3])
    <3>1. i # Len(e[3]) + 1
      BY <2>1, <2>2
    <3>. QED
      BY <2>1, <2>2, <3>1 DEF ThePlaces, TheSteps
  <2>4. e[3][i].op \notin {"insert", "drop"} => Course(e)[i].table = FALSE
    BY <2>1, <2>3, CourseIs DEF StepFits
  <2>5. e[3][i].op \in {"insert", "drop"}
    BY <2>1, <2>4
  <2>6. At(c, "insert") \/ At(c, "drop")
    BY <2>1, <2>3, <2>5 DEF At, Step, Code
  <2>. QED
    BY <2>6 DEF SessionCloses
<1>3. \A c \in Clients : ~Batching(c)'
  BY <1>1, <1>2 DEF Batching, Busy, Place
<1>4. TableFits'
  <2>1. topTable' = [made |-> topTable'.made, rows |-> topTable'.rows]
        /\ topTable'.made \in BOOLEAN
    BY <1>1 DEF NoTable
  <2>. QED
    BY <1>3, <2>1 DEF TableFits
<1>5. RequestsFit'
  BY <1>1 DEF IInv, RequestsFit, Busy
<1>6. RedisFits'
  BY <1>1 DEF IInv, RedisFits
<1>. QED
  BY <1>4, <1>5, <1>6 DEF IInv

Aged(r) == [r EXCEPT !.left = @ - 1, !.frames = [i \in DOMAIN @ |-> Older(@[i])]]
OlderFrames(frames) == [i \in DOMAIN frames |-> Older(frames[i])]

LEMMA Ageing ==
  ASSUME NEW r,
         r = [pc |-> r.pc, frames |-> r.frames, left |-> r.left, early |-> r.early]
  PROVE  Aged(r) = [pc |-> r.pc, frames |-> OlderFrames(r.frames),
                    left |-> r.left - 1, early |-> r.early]
<1>. DEFINE pc == r.pc
            frames == r.frames
            left == r.left
            early == r.early
            older == OlderFrames(frames)
            less == left - 1
            first == [r EXCEPT !.left = less]
<1>1. Aged(r) = [r EXCEPT !.left = less, !.frames = older]
  BY DEF Aged, OlderFrames
<1>2. r = [pc |-> pc, frames |-> frames, left |-> left, early |-> early]
  OBVIOUS
<1>. HIDE DEF pc, frames, left, early, older, less
<1>3. [r EXCEPT !.left = less, !.frames = older] = [first EXCEPT !.frames = older]
  OBVIOUS
<1>4. first = [pc |-> pc, frames |-> frames, left |-> less, early |-> early]
  BY <1>2
<1>. HIDE DEF first
<1>5. [first EXCEPT !.frames = older]
        = [pc |-> pc, frames |-> older, left |-> less, early |-> early]
  BY <1>4
<1>. QED
  BY <1>1, <1>3, <1>5 DEF pc, frames, left, early, older, less

LEMMA TickFits == ASSUME IInv, Tick PROVE IInv'
<1>1. /\ \A c \in Clients : Busy(c) => client[c].left > 0
      /\ client' = [c \in Clients |-> IF Busy(c) THEN Aged(client[c]) ELSE Idle]
      /\ redis' = [k \in {k \in DOMAIN redis : Stays(k)} |->
                     [parts |-> Older(redis[k].parts), left |-> redis[k].left - 1]]
      /\ UNCHANGED <<asks, topTable>>
  BY DEF Tick, Aged
<1>2. ASSUME NEW c \in Clients, Busy(c)
      PROVE  /\ client'[c].pc = client[c].pc /\ asks[c] \in Catalogue
             /\ IsRequest(client'[c], asks[c], Fill[c])
  <2>. DEFINE r == client[c]
              e == asks[c]
              fill == Fill[c]
              older == OlderFrames(r.frames)
              s == [pc |-> r.pc, frames |-> older, left |-> r.left - 1, early |-> r.early]
  <2>1. e \in Catalogue /\ IsRequest(r, e, fill) /\ fill \in Nat /\ r.left > 0
    BY <1>1, <1>2, MaxFillIs DEF IInv, RequestsFit
  <2>2. /\ r = [pc |-> r.pc, frames |-> r.frames, left |-> r.left, early |-> r.early]
        /\ r.pc \in ThePlaces(e) /\ r.left \in 0..fill /\ r.early \in BOOLEAN
        /\ r.early => Starts(e)
        /\ FramesFit(r.frames, Expected(e, r.pc), r.left, fill)
    BY <2>1 DEF IsRequest
  <2>3. client'[c] = s
    <3>1. client'[c] = Aged(r)
      BY <1>1, <1>2
    <3>2. Aged(r) = s
      BY <2>2, Ageing
    <3>. QED
      BY <3>1, <3>2
  <2>4. IsStack(Expected(e, r.pc))
    BY <2>1, <2>2, ExpectedIs
  <2>5. r.left \in Nat /\ r.left - 1 \in 0..fill
    BY <2>1, <2>2
  <2>6. FramesFit(older, Expected(e, r.pc), r.left - 1, fill)
    BY <2>1, <2>2, <2>4, <2>5, FramesAging DEF OlderFrames
  <2>. HIDE DEF older
  <2>7. s.pc = r.pc /\ s.frames = older /\ s.left = r.left - 1 /\ s.early = r.early
        /\ s = [pc |-> s.pc, frames |-> s.frames, left |-> s.left, early |-> s.early]
    OBVIOUS
  <2>. HIDE DEF s
  <2>8. IsRequest(s, e, fill)
    BY <2>2, <2>5, <2>6, <2>7 DEF IsRequest
  <2>. QED
    BY <2>1, <2>3, <2>7, <2>8
<1>3. ASSUME NEW c \in Clients, ~Busy(c) PROVE ~Busy(c)' /\ ~Batching(c)'
  <2>1. client'[c] = Idle
    BY <1>1, <1>3
  <2>2. client'[c].pc = 0
    BY <2>1 DEF Idle
  <2>. QED
    BY <2>2 DEF Busy, Batching
<1>4. RequestsFit'
  <2>1. client' = [c \in Clients |-> client'[c]]
    BY <1>1
  <2>2. asks' \in [Clients -> Catalogue \cup {Nothing}]
    BY <1>1 DEF IInv, RequestsFit
  <2>3. ASSUME NEW c \in Clients, Busy(c)'
        PROVE  asks'[c] \in Catalogue /\ IsRequest(client'[c], asks'[c], Fill[c])
    BY <1>1, <1>2, <1>3, <2>3
  <2>. QED
    BY <2>1, <2>2, <2>3 DEF RequestsFit
<1>5. ASSUME NEW c \in Clients, Batching(c)' PROVE Batching(c) /\ Place(c)' = Place(c)
  <2>1. Busy(c)
    BY <1>3, <1>5
  <2>2. client'[c].pc = client[c].pc
    BY <1>2, <2>1
  <2>. QED
    BY <1>1, <1>5, <2>1, <2>2 DEF Batching, Place
<1>6. TableFits'
  <2>1. topTable' = [made |-> topTable'.made, rows |-> topTable'.rows]
        /\ topTable'.made \in BOOLEAN
    BY <1>1 DEF IInv, TableFits
  <2>2. \A c \in Clients :
          Batching(c)' => topTable'.made /\ About(topTable'.rows) = Place(c)'.rows
    BY <1>1, <1>5 DEF IInv, TableFits
  <2>3. \A a, b \in Clients : Batching(a)' /\ Batching(b)' => a = b
    BY <1>5 DEF IInv, TableFits
  <2>. QED
    BY <2>1, <2>2, <2>3 DEF TableFits
<1>7. RedisFits'
  <2>. SUFFICES ASSUME NEW k \in DOMAIN redis' PROVE IsEntry(k, redis'[k])
    BY DEF RedisFits
  <2>1. /\ k \in DOMAIN redis /\ redis[k].left > 1
        /\ redis'[k] = [parts |-> Older(redis[k].parts), left |-> redis[k].left - 1]
    BY <1>1 DEF Stays
  <2>2. IsEntry(k, redis[k])
    BY <2>1 DEF IInv, RedisFits
  <2>. QED
    BY <2>1, <2>2, EntryAging
<1>. QED
  BY <1>4, <1>6, <1>7 DEF IInv

LEMMA NextFits == IInv /\ [Next]_vars => IInv'
<1>. SUFFICES ASSUME IInv, [Next]_vars PROVE IInv'
  OBVIOUS
<1>1. ASSUME NEW c \in Clients, Begin(c) PROVE IInv'
  BY <1>1, BeginFits
<1>2. ASSUME NEW c \in Clients, Hit(c) PROVE IInv'
  BY <1>2, HitFits
<1>3. ASSUME NEW c \in Clients, Miss(c) \/ Open(c) PROVE IInv'
  BY <1>3, MissFits
<1>4. ASSUME NEW c \in Clients, Close(c) \/ Keep(c) PROVE IInv'
  BY <1>4, CloseFits
<1>5. ASSUME NEW c \in Clients, ShareOut(c) PROVE IInv'
  BY <1>5, ShareOutFits
<1>6. ASSUME NEW c \in Clients, Answered(c) PROVE IInv'
  BY <1>6, AnsweredFits
<1>7. ASSUME NEW c \in Clients, CreateTop(c) PROVE IInv'
  BY <1>7, CreateTopFits
<1>8. ASSUME NEW c \in Clients, InsertTop(c) PROVE IInv'
  BY <1>8, InsertTopFits
<1>9. ASSUME NEW c \in Clients, DropTop(c) PROVE IInv'
  BY <1>9, DropTopFits
<1>10. ASSUME NEW c \in Clients, Reply(c) PROVE IInv'
  BY <1>10, Dropping DEF Reply, Leave
<1>11. ASSUME NEW c \in Clients, Fail(c) PROVE IInv'
  BY <1>11, Dropping DEF Fail, Leave
<1>12. CASE Crash
  BY <1>12, CrashFits
<1>13. CASE SessionCloses
  BY <1>13, SessionClosesFits
<1>14. CASE Tick
  BY <1>14, TickFits
<1>15. CASE LateAnswers \/ UNCHANGED vars
  <2>1. UNCHANGED <<asks, client, redis, topTable>>
    BY <1>15 DEF LateAnswers, vars
  <2>2. RequestsFit'
    BY <2>1 DEF IInv, RequestsFit, Busy
  <2>3. RedisFits'
    BY <2>1 DEF IInv, RedisFits
  <2>4. TableFits'
    BY <2>1 DEF IInv, TableFits, Batching, Busy, Place
  <2>. QED
    BY <2>2, <2>3, <2>4 DEF IInv
<1>. QED
  BY <1>1, <1>2, <1>3, <1>4, <1>5, <1>6, <1>7, <1>8, <1>9, <1>10, <1>11, <1>12, <1>13,
     <1>14, <1>15
  DEF Next

-------------------------------------------------------------------------------
(* The theorems *)

\* Every request is where it was foretold to be, redis holds what the keys mean and the
\* temporary table is one batch's, however the requests overlap, fail and take their time.
THEOREM AlwaysFits == Spec => []IInv
<1>1. Init => IInv
  BY InitFits
<1>2. IInv /\ [Next]_vars => IInv'
  BY NextFits
<1>. QED
  BY <1>1, <1>2, PTL DEF Spec

(* Queries that run on were started by one of the ratings. *)
DriftInv ==
  /\ adrift \in BOOLEAN
  /\ adrift => \E c \in Clients : Starts(asks[c])

LEMMA LooseIs ==
  ASSUME IInv, NEW c \in Clients, Busy(c), Loose(c)
  PROVE  Starts(asks[c])
BY DEF Loose, IInv, RequestsFit, IsRequest, Starts, EarlyStarters

LEMMA NextDrifts == IInv /\ DriftInv /\ [Next]_vars => DriftInv'
<1>. SUFFICES ASSUME IInv, DriftInv, [Next]_vars PROVE DriftInv'
  OBVIOUS
<1>1. asks' = asks
  BY DEF Next, Begin, Hit, Miss, Open, Close, Keep, ShareOut, Answered, CreateTop, InsertTop,
     DropTop, Reply, Fail, Crash, LateAnswers, SessionCloses, Tick, vars
<1>2. ASSUME NEW c \in Clients, Busy(c), Leave(c) PROVE DriftInv'
  <2>1. adrift' = (adrift \/ Loose(c))
    BY <1>2 DEF Leave
  <2>2. Loose(c) => Starts(asks[c])
    BY <1>2, LooseIs
  <2>. QED
    BY <1>1, <2>1, <2>2 DEF DriftInv, Starts
<1>3. ASSUME NEW c \in Clients, Reply(c) \/ Fail(c) PROVE DriftInv'
  BY <1>2, <1>3 DEF Reply, Fail, Finished, At
<1>4. ASSUME NEW c \in Clients, CreateTop(c), topTable.made PROVE DriftInv'
  BY <1>2, <1>4 DEF CreateTop, At
<1>5. CASE UNCHANGED adrift
  BY <1>1, <1>5 DEF DriftInv, Starts
<1>6. ASSUME NEW c \in Clients, CreateTop(c), ~topTable.made PROVE DriftInv'
  BY <1>5, <1>6 DEF CreateTop
<1>7. CASE Crash \/ LateAnswers
  BY <1>7 DEF Crash, LateAnswers, DriftInv
<1>8. CASE \/ \E c \in Clients :
                \/ Begin(c) \/ Hit(c) \/ Miss(c) \/ Open(c) \/ Close(c) \/ Keep(c)
                \/ ShareOut(c) \/ Answered(c) \/ InsertTop(c) \/ DropTop(c)
           \/ SessionCloses \/ Tick \/ UNCHANGED vars
  BY <1>5, <1>8 DEF Begin, Hit, Miss, Open, Close, Keep, ShareOut, Answered, InsertTop,
     DropTop, SessionCloses, Tick, vars
<1>. QED
  BY <1>3, <1>4, <1>6, <1>7, <1>8 DEF Next

LEMMA AlwaysDrifts == Spec => []DriftInv
<1>1. Init => DriftInv
  BY DEF Init, DriftInv
<1>. QED
  BY <1>1, NextDrifts, AlwaysFits, PTL DEF Spec

LEMMA TypeFits == IInv /\ DriftInv => TypeOK
<1>. SUFFICES ASSUME IInv, DriftInv PROVE TypeOK
  OBVIOUS
<1>1. ASSUME NEW c \in Clients, Busy(c)
      PROVE  /\ client[c].pc \in 1..(Len(Code(c)) + 1)
             /\ Len(Frames(c)) \in 1..4
             /\ \A i \in DOMAIN Frames(c) : \A p \in Frames(c)[i] : p[2] \in Nat
             /\ client[c].left \in 0..Fill[c]
             /\ client[c].early \in BOOLEAN
  <2>. DEFINE stack == Expected(asks[c], client[c].pc)
              frames == client[c].frames
  <2>1. /\ asks[c] \in Catalogue /\ client[c].pc \in ThePlaces(asks[c])
        /\ client[c].left \in 0..Fill[c] /\ client[c].early \in BOOLEAN
        /\ FramesFit(frames, stack, client[c].left, Fill[c])
    BY <1>1 DEF IInv, RequestsFit, IsRequest
  <2>2. Len(stack) \in 1..4
    BY <2>1, ExpectedIs
  <2>. HIDE DEF stack
  <2>3. IsProgram(frames) /\ Len(frames) = Len(stack)
        /\ \A j \in 1..Len(stack) : FrameFits(frames[j], stack[j], client[c].left, Fill[c])
    BY <2>1 DEF FramesFit
  <2>. HIDE DEF frames
  <2>4. DOMAIN frames = 1..Len(stack)
    BY <2>3, Catenation
  <2>5. \A i \in DOMAIN frames : \A p \in frames[i] : p[2] \in Nat
    BY <2>3, <2>4 DEF FrameFits, PartsFit
  <2>6. Frames(c) = frames
    BY DEF Frames, frames
  <2>7. client[c].pc \in 1..(Len(Code(c)) + 1)
    BY <2>1 DEF ThePlaces, Code
  <2>. QED
    BY <2>1, <2>2, <2>3, <2>5, <2>6, <2>7
<1>2. asks \in [Clients -> Catalogue \cup {Nothing}]
  BY DEF IInv, RequestsFit
<1>3. \A k \in DOMAIN redis : redis[k].left \in Nat \ {0}
  BY DEF IInv, RedisFits, IsEntry
<1>4. topTable.made \in BOOLEAN
  BY DEF IInv, TableFits
<1>. QED
  BY <1>1, <1>2, <1>3, <1>4 DEF TypeOK, DriftInv

\* A handler that has come to its end has one frame, with all that it asks.
LEMMA FinishedFits ==
  ASSUME IInv, NEW c \in Clients, Finished(c)
  PROVE  /\ Len(Frames(c)) = 1 /\ About(Said(Frames(c)[1])) = Topics(Code(c))
         /\ PartsFit(Frames(c)[1], Limit(asks[c]), client[c].left, Fill[c])
         /\ client[c].left \in 0..Fill[c]
<1>. DEFINE e == asks[c]
            pc == client[c].pc
            f == [said |-> Topics(e[3]), old |-> Limit(e)]
<1>1. /\ e \in Catalogue /\ pc \in ThePlaces(e) /\ client[c].left \in 0..Fill[c]
      /\ FramesFit(client[c].frames, Expected(e, pc), client[c].left, Fill[c])
  BY DEF Finished, IInv, RequestsFit, IsRequest
<1>2. Len(e[3]) \in Nat /\ pc > Len(e[3])
  BY <1>1, CourseIs DEF Finished, Code
<1>3. pc = Len(e[3]) + 1
  BY <1>1, <1>2 DEF ThePlaces
<1>4. Course(e)[pc] = Rest(<<f>>)
  BY <1>1, <1>3, CourseIs
<1>5. Expected(e, pc) = <<f>>
  <2>1. ~Sends(e, pc)
    BY <1>2, <1>3 DEF Sends
  <2>2. Expected(e, pc) = Course(e)[pc].stack
    BY <2>1 DEF Expected
  <2>. QED
    BY <1>4, <2>2, RestIs
<1>6. f.said = Topics(e[3]) /\ f.old = Limit(e)
  OBVIOUS
<1>. HIDE DEF f
<1>7. Len(<<f>>) = 1 /\ <<f>>[1] = f /\ 1 \in 1..1
  OBVIOUS
<1>8. Len(client[c].frames) = 1
      /\ FrameFits(client[c].frames[1], f, client[c].left, Fill[c])
  BY <1>1, <1>5, <1>7 DEF FramesFit
<1>. QED
  BY <1>1, <1>6, <1>8 DEF FrameFits, Frames, Code

\* Requests and the answers under way keep their shape.
THEOREM TypeCorrect == Spec => []TypeOK
BY AlwaysFits, AlwaysDrifts, TypeFits, PTL

\* An answer says what its own request asks, but for the trading dates, and nothing else:
\* whatever other requests have kept under the keys that its handler looks for, and
\* although every connection sees the same temporary table.
THEOREM AnswersItsRequest == Spec => []AnswersTheRequest
<1>1. IInv => AnswersTheRequest
  <2>. SUFFICES ASSUME IInv, NEW c \in Clients, Finished(c)
                PROVE  /\ Len(Frames(c)) = 1
                       /\ About(Said(Frames(c)[1])) = About(Questions(Code(c)))
    BY DEF AnswersTheRequest
  <2>. QED
    BY FinishedFits DEF Topics
<1>. QED
  BY <1>1, AlwaysFits, PTL

\* Nothing on a board is older than three times redis' default and four times the time
\* that the slowest request takes, although its parts are kept inside one another.
THEOREM BoardsAreIntraday == Spec => []BoardIsIntraday
<1>1. IInv => BoardIsIntraday
  <2>. SUFFICES ASSUME IInv, NEW c \in Clients, Finished(c), asks[c][1] \in BoardNames,
                       NEW p \in Frames(c)[1]
                PROVE  p[2] <= 3 * HaftHour + 4 * MaxFill
    BY DEF BoardIsIntraday
  <2>1. PartsFit(Frames(c)[1], 3 * Level, client[c].left, Fill[c])
        /\ client[c].left \in 0..Fill[c]
    BY FinishedFits DEF Limit
  <2>2. 3 * Level # Any
    BY LevelIs DEF Any
  <2>3. p[2] \in Nat /\ p[2] + client[c].left <= 3 * Level + Fill[c]
    BY <2>1, <2>2 DEF PartsFit
  <2>. DEFINE a == p[2]
              left == client[c].left
              fill == Fill[c]
              m == MaxFill
  <2>4. /\ a \in Nat /\ left \in Nat /\ fill \in Nat /\ m \in Nat /\ fill <= m
        /\ HaftHour \in Nat /\ Level = HaftHour + m /\ a + left <= 3 * Level + fill
    <3>1. fill \in Nat /\ m \in Nat /\ fill <= m
      BY MaxFillIs
    <3>2. HaftHour \in Nat
      BY LifetimesAre
    <3>. QED
      BY <2>1, <2>3, <3>1, <3>2 DEF Level
  <2>. HIDE DEF a, left, fill, m
  <2>5. a <= 3 * HaftHour + 4 * m
    BY <2>4
  <2>. QED
    BY <2>5 DEF a, m
<1>. QED
  BY <1>1, AlwaysFits, PTL

\* No step ends the requests of two clients, unless some client asks for one of the ratings
\* that start queries before they wait for them: those may fail when the rating itself has
\* ended, and it is in no other handler that they do.
THEOREM RequestsFailAlone == Spec => FailsAlone
<1>1. IInv /\ DriftInv /\ [Next]_vars =>
        [\A c, d \in Clients :
           c # d /\ Busy(c) /\ Busy(d) /\ ~Busy(c)' /\ ~Busy(d)' =>
             \E e \in Clients : asks[e][1] \in EarlyStarters]_vars
  <2>. SUFFICES ASSUME IInv, DriftInv, Next, NEW c \in Clients, NEW d \in Clients, c # d,
                       Busy(c), Busy(d), ~Busy(c)', ~Busy(d)'
                PROVE  \E e \in Clients : asks[e][1] \in EarlyStarters
    OBVIOUS
  <2>1. ASSUME NEW e \in Clients, NEW s, client' = [client EXCEPT ![e] = s] PROVE FALSE
    <3>1. \A b \in Clients : b # e => client'[b] = client[b]
      BY <2>1 DEF IInv, RequestsFit
    <3>2. c # e \/ d # e
      OBVIOUS
    <3>. QED
      BY <3>1, <3>2 DEF Busy
  <2>2. CASE Crash
    BY <2>2, LooseIs DEF Crash, DriftInv, Starts
  <2>3. ASSUME NEW e \in Clients, Begin(e) PROVE FALSE
    BY <2>1, <2>3 DEF Begin
  <2>4. ASSUME NEW e \in Clients, NEW pc, NEW frames, Jump(e, pc, frames) PROVE FALSE
    BY <2>1, <2>4 DEF Jump
  <2>5. ASSUME NEW e \in Clients, Drop(e) PROVE FALSE
    BY <2>1, <2>5 DEF Drop
  <2>6. ASSUME NEW e \in Clients,
               \/ Hit(e) \/ Miss(e) \/ Open(e) \/ Close(e) \/ Keep(e) \/ ShareOut(e)
               \/ Answered(e) \/ InsertTop(e) \/ DropTop(e)
        PROVE  FALSE
    BY <2>4, <2>6 DEF Hit, Miss, Open, Close, Keep, ShareOut, Answered, InsertTop, DropTop,
       Onward
  <2>7. ASSUME NEW e \in Clients, CreateTop(e) PROVE FALSE
    BY <2>4, <2>5, <2>7 DEF CreateTop, Leave, Onward
  <2>8. ASSUME NEW e \in Clients, Reply(e) \/ Fail(e) PROVE FALSE
    BY <2>5, <2>8 DEF Reply, Fail, Leave
  <2>9. ASSUME SessionCloses \/ LateAnswers PROVE FALSE
    BY <2>9 DEF SessionCloses, LateAnswers, Busy
  <2>10. ASSUME Tick PROVE FALSE
    <3>1. client'[c] = Aged(client[c])
      BY <2>10 DEF Tick, Aged
    <3>2. /\ client[c] = [pc |-> client[c].pc, frames |-> client[c].frames,
                          left |-> client[c].left, early |-> client[c].early]
      BY DEF IInv, RequestsFit, IsRequest
    <3>3. client'[c].pc = client[c].pc
      BY <3>1, <3>2, Ageing
    <3>. QED
      BY <3>3 DEF Busy
  <2>. QED
    BY <2>2, <2>3, <2>6, <2>7, <2>8, <2>9, <2>10 DEF Next
<1>. QED
  BY <1>1, AlwaysFits, AlwaysDrifts, PTL DEF Spec, FailsAlone

-------------------------------------------------------------------------------
(* How old the parts of an answer get *)

\* The bounds of each frame at each step of a request.
IsTrack(acc, e) ==
  \E A, B : Allows(Bounds(e[3]), B) /\ Times(acc, e[3], <<A>>, <<B>>)
Track(e) == CHOOSE acc : IsTrack(acc, e)

LEMMA TrackIs ==
  ASSUME NEW e \in Catalogue
  PROVE  /\ Measured(e[3]) /\ Len(e[3]) \in Nat
         /\ \E A : Track(e)[1] = <<A>>
         /\ \E B : Track(e)[Len(e[3]) + 1] = <<B>> /\ Allows(Bounds(e[3]), B)
         /\ \A i \in ThePlaces(e) : IsProgram(Track(e)[i]) /\ Len(Track(e)[i]) >= 1
         /\ \A i \in TheSteps(e) :
              StepInTime(e[3][i], Track(e)[i], Track(e)[i + 1], Track(e)[Lands(e[3], i)])
<1>1. InTime(e[3])
  <2>1. Served(e[3], TRUE)
    BY CatalogueFits
  <2>. QED
    BY <2>1 DEF Served
<1>2. \E acc : IsTrack(acc, e)
  BY <1>1 DEF InTime, IsTrack
<1>3. IsTrack(Track(e), e)
  BY <1>2 DEF Track
<1>4. PICK A, B : Allows(Bounds(e[3]), B) /\ Times(Track(e), e[3], <<A>>, <<B>>)
  BY <1>3 DEF IsTrack
<1>5. Len(e[3]) \in Nat
  BY CourseIs
<1>. QED
  BY <1>1, <1>4, <1>5 DEF InTime, Times, ThePlaces, TheSteps

\* Parts within bounds, with the time that the request has left, of fill.
Timely(parts, bounds, left, fill) ==
  \A p \in parts :
    p[2] \in Nat /\ \E a \in bounds : a[2] \in Nat /\ a[1] = Topic(p[1]) /\ p[2] + left <= a[2] + fill
FramesTimely(frames, ladder, left, fill) ==
  /\ IsProgram(frames) /\ Len(frames) = Len(ladder)
  /\ \A j \in 1..Len(ladder) : Timely(frames[j], ladder[j], left, fill)

LEMMA TimelyAllowed ==
  ASSUME NEW parts, NEW wide, NEW narrow, Allows(wide, narrow), NEW left \in Nat, NEW fill \in Nat,
         Timely(parts, narrow, left, fill)
  PROVE  Timely(parts, wide, left, fill)
<1>. SUFFICES ASSUME NEW p \in parts
              PROVE  p[2] \in Nat /\ \E a \in wide : /\ a[2] \in Nat /\ a[1] = Topic(p[1])
                                                     /\ p[2] + left <= a[2] + fill
  BY DEF Timely
<1>1. PICK b \in narrow : b[2] \in Nat /\ b[1] = Topic(p[1]) /\ p[2] + left <= b[2] + fill
  BY DEF Timely
<1>2. PICK a \in wide : a[2] \in Nat /\ a[1] = b[1] /\ b[2] <= a[2]
  BY DEF Allows
<1>3. p[2] \in Nat
  BY DEF Timely
<1>4. p[2] + left <= a[2] + fill
  BY <1>1, <1>2, <1>3, OlderStill
<1>. QED
  BY <1>1, <1>2, <1>3, <1>4

LEMMA TimelyAdding ==
  ASSUME NEW frames, NEW ladder, NEW left, NEW fill, FramesTimely(frames, ladder, left, fill),
         IsProgram(ladder), Len(ladder) >= 1,
         NEW parts, Timely(parts, TopOf(ladder), left, fill)
  PROVE  FramesTimely(Adding(frames, parts), ladder, left, fill)
<1>. DEFINE n == Len(ladder)
            frame == frames[n] \cup parts
            F == Replaced(frames, n, frame)
<1>1. IsProgram(frames) /\ Len(frames) = n /\ n \in 1..n
  <2>1. n \in Nat
    BY Catenation
  <2>. QED
    BY <2>1 DEF FramesTimely
<1>2. \A j \in 1..n : Timely(frames[j], ladder[j], left, fill)
  BY DEF FramesTimely
<1>3. Adding(frames, parts) = F
  BY <1>1 DEF Adding, Replaced
<1>4. Timely(parts, ladder[n], left, fill)
  BY DEF TopOf
<1>. HIDE DEF n
<1>5. Timely(frame, ladder[n], left, fill)
  BY <1>1, <1>2, <1>4 DEF Timely
<1>. HIDE DEF frame
<1>6. IsProgram(F) /\ Len(F) = n /\ F[n] = frame /\ \A j \in 1..n : j # n => F[j] = frames[j]
  <2>1. n \in 1..Len(frames)
    BY <1>1
  <2>2. /\ IsProgram(F) /\ Len(F) = Len(frames) /\ F[n] = frame
        /\ \A j \in 1..Len(frames) : j # n => F[j] = frames[j]
    BY <1>1, <2>1, Replacing
  <2>. HIDE DEF F
  <2>. QED
    BY <1>1, <2>2
<1>. HIDE DEF F
<1>7. ASSUME NEW j \in 1..n PROVE Timely(F[j], ladder[j], left, fill)
  <2>1. CASE j = n
    BY <2>1, <1>5, <1>6
  <2>2. CASE j # n
    BY <2>2, <1>2, <1>6
  <2>. QED
    BY <2>1, <2>2
<1>8. FramesTimely(F, ladder, left, fill)
  BY <1>6, <1>7 DEF FramesTimely, n
<1>. QED
  BY <1>3, <1>8

LEMMA TimelyPushing ==
  ASSUME NEW frames, NEW ladder, NEW left, NEW fill, FramesTimely(frames, ladder, left, fill),
         IsProgram(ladder), NEW S
  PROVE  FramesTimely(Append(frames, {}), Append(ladder, S), left, fill)
<1>. DEFINE n == Len(ladder)
            F == Append(frames, {})
            T == Append(ladder, S)
<1>1. IsProgram(frames) /\ Len(frames) = n /\ \A j \in 1..n : Timely(frames[j], ladder[j], left, fill)
  BY DEF FramesTimely
<1>2. IsProgram(F) /\ Len(F) = n + 1 /\ F[n + 1] = {} /\ \A i \in 1..n : F[i] = frames[i]
  BY <1>1, Appending
<1>3. n \in Nat /\ Len(T) = n + 1 /\ \A i \in 1..n : T[i] = ladder[i]
  BY Appending
<1>. HIDE DEF n, F, T
<1>4. ASSUME NEW j \in 1..(n + 1) PROVE Timely(F[j], T[j], left, fill)
  <2>1. CASE j = n + 1
    <3>1. F[j] = {}
      BY <2>1, <1>2
    <3>. QED
      BY <3>1 DEF Timely
  <2>2. CASE j # n + 1
    <3>1. j \in 1..n
      BY <2>2, <1>3
    <3>. QED
      BY <3>1, <1>1, <1>2, <1>3
  <2>. QED
    BY <2>1, <2>2
<1>5. FramesTimely(F, T, left, fill)
  BY <1>2, <1>3, <1>4 DEF FramesTimely
<1>. QED
  BY <1>5 DEF F, T

LEMMA TimelyMerging ==
  ASSUME NEW frames, NEW here, NEW next, NEW left \in Nat, NEW fill \in Nat,
         FramesTimely(frames, here, left, fill), IsProgram(here), IsProgram(next), Leaves(here, next)
  PROVE  FramesTimely(Adding(SubSeq(frames, 1, Len(frames) - 1), frames[Len(frames)]),
                      next, left, fill)
<1>. DEFINE n == Len(here)
            F == SubSeq(frames, 1, n - 1)
<1>1. IsProgram(frames) /\ Len(frames) = n /\ n \in Nat
  <2>1. n \in Nat
    BY Catenation
  <2>. QED
    BY <2>1 DEF FramesTimely
<1>2. \A j \in 1..n : Timely(frames[j], here[j], left, fill)
  BY DEF FramesTimely
<1>3. n >= 2 /\ next = SubSeq(here, 1, n - 1) /\ Allows(here[n - 1], here[n])
  BY DEF Leaves, Under1, TopOf
<1>. HIDE DEF n
<1>4. IsProgram(F) /\ Len(F) = n - 1 /\ \A j \in 1..(n - 1) : F[j] = frames[j]
  <2>1. PICK S : frames \in Seq(S)
    BY <1>1 DEF IsProgram
  <2>2. \A j \in 1..(n - 1) : frames[j] \in S
    BY <1>1, <2>1
  <2>3. F \in Seq(S) /\ Len(F) = n - 1 /\ \A j \in 1..(n - 1) : F[j] = frames[j]
    BY <1>1, <1>3, <2>2, SubSeqProperties
  <2>. QED
    BY <2>3 DEF IsProgram
<1>5. Len(next) = n - 1 /\ \A j \in 1..(n - 1) : next[j] = here[j]
  <2>1. PICK S : here \in Seq(S)
    BY DEF IsProgram
  <2>2. \A j \in 1..(n - 1) : here[j] \in S
    BY <1>1, <2>1 DEF n
  <2>. QED
    BY <1>1, <1>3, <2>2, SubSeqProperties
<1>. HIDE DEF F
<1>6. n - 1 \in 1..n /\ n \in 1..n /\ n - 1 \in 1..(n - 1) /\ n - 1 >= 1
      /\ \A j \in 1..(n - 1) : j \in 1..n
  BY <1>1, <1>3
<1>7. FramesTimely(F, next, left, fill)
  <2>1. \A j \in 1..(n - 1) : Timely(F[j], next[j], left, fill)
    BY <1>2, <1>4, <1>5, <1>6
  <2>. QED
    BY <1>4, <1>5, <2>1 DEF FramesTimely
<1>8. TopOf(next) = here[n - 1]
  BY <1>5, <1>6 DEF TopOf
<1>9. Timely(frames[n], here[n - 1], left, fill)
  <2>1. Timely(frames[n], here[n], left, fill)
    BY <1>2, <1>6
  <2>. QED
    BY <1>3, <2>1, TimelyAllowed
<1>10. FramesTimely(Adding(F, frames[n]), next, left, fill)
  BY <1>5, <1>6, <1>7, <1>8, <1>9, TimelyAdding
<1>. QED
  BY <1>1, <1>10 DEF F

LEMMA TimelyWider ==
  ASSUME NEW frames, NEW here, NEW next, NEW left, NEW fill,
         FramesTimely(frames, here, left, fill), Widens(here, next)
  PROVE  FramesTimely(frames, next, left, fill)
<1>1. \A j \in 1..Len(here) : Timely(frames[j], here[j], left, fill) /\ here[j] \subseteq next[j]
  BY DEF FramesTimely, Widens
<1>2. \A j \in 1..Len(here) : Timely(frames[j], next[j], left, fill)
  BY <1>1 DEF Timely
<1>. QED
  BY <1>2 DEF FramesTimely, Widens

LEMMA TimelyAging ==
  ASSUME NEW parts, NEW bounds, NEW left \in Nat, NEW fill \in Nat,
         Timely(parts, bounds, left, fill)
  PROVE  Timely(Older(parts), bounds, left - 1, fill)
<1>. SUFFICES ASSUME NEW q \in Older(parts)
              PROVE  q[2] \in Nat /\ \E a \in bounds : /\ a[2] \in Nat /\ a[1] = Topic(q[1])
                                                       /\ q[2] + (left - 1) <= a[2] + fill
  BY DEF Timely
<1>1. PICK p \in parts : q = <<p[1], p[2] + 1>>
  BY DEF Older
<1>2. q[1] = p[1] /\ q[2] = p[2] + 1
  BY <1>1
<1>3. p[2] \in Nat
  BY DEF Timely
<1>4. PICK a \in bounds : a[2] \in Nat /\ a[1] = Topic(p[1]) /\ p[2] + left <= a[2] + fill
  BY DEF Timely
<1>5. (p[2] + 1) + (left - 1) = p[2] + left
  BY <1>3
<1>. QED
  BY <1>2, <1>3, <1>4, <1>5

LEMMA FramesTimelyAging ==
  ASSUME NEW frames, NEW ladder, NEW left \in Nat, NEW fill \in Nat,
         FramesTimely(frames, ladder, left, fill), IsProgram(ladder)
  PROVE  FramesTimely(OlderFrames(frames), ladder, left - 1, fill)
<1>. DEFINE n == Len(ladder)
            F == OlderFrames(frames)
<1>1. IsProgram(frames) /\ Len(frames) = n /\ n \in Nat /\ DOMAIN frames = 1..n
  <2>1. IsProgram(frames) /\ Len(frames) = n
    BY DEF FramesTimely
  <2>2. n \in Nat /\ DOMAIN frames = 1..n
    BY <2>1, Catenation
  <2>. QED
    BY <2>1, <2>2
<1>2. \A j \in 1..n : Timely(frames[j], ladder[j], left, fill)
  BY DEF FramesTimely
<1>. HIDE DEF n
<1>3. DOMAIN F = 1..n /\ \A i \in 1..n : F[i] = Older(frames[i])
  BY <1>1 DEF OlderFrames
<1>4. IsProgram(F) /\ Len(F) = n
  <2>1. F = [i \in 1..n |-> F[i]]
    BY <1>1 DEF OlderFrames
  <2>. DEFINE S == {F[i] : i \in 1..n}
  <2>. HIDE DEF F
  <2>2. \A i \in 1..n : F[i] \in S
    OBVIOUS
  <2>. HIDE DEF S
  <2>3. F \in [1..n -> S]
    BY <2>1, <2>2
  <2>4. F \in Seq(S) /\ Len(F) = n
    BY <1>1, <2>3
  <2>. QED
    BY <2>4 DEF IsProgram
<1>. HIDE DEF F
<1>5. \A j \in 1..n : Timely(F[j], ladder[j], left - 1, fill)
  BY <1>2, <1>3, TimelyAging
<1>6. FramesTimely(F, ladder, left - 1, fill)
  BY <1>4, <1>5 DEF FramesTimely, n
<1>. QED
  BY <1>6 DEF F

\* With what the next step sends.
LEMMA TimelyArriving ==
  ASSUME NEW e \in Catalogue, NEW i \in ThePlaces(e), NEW fill \in Nat, NEW left \in 0..fill,
         NEW frames, FramesTimely(frames, Track(e)[i], left, fill)
  PROVE  FramesTimely(Adding(frames, SentAt(e, i)), Track(e)[i], left, fill)
<1>. DEFINE here == Track(e)[i]
            sent == SentAt(e, i)
<1>1. IsProgram(here) /\ Len(here) >= 1
  BY TrackIs
<1>2. Timely(sent, TopOf(here), left, fill)
  <2>1. CASE Sends(e, i)
    <3>1. e[3][i].op \in {"ask", "start", "join"} /\ i \in TheSteps(e)
      BY <2>1, CourseIs DEF Sends, ThePlaces, TheSteps
    <3>2. Allows(TopOf(here), Now(e[3][i]))
      BY <3>1, TrackIs DEF StepInTime
    <3>3. sent = Read(e[3][i]) \X {0}
      BY <2>1, <3>1 DEF SentAt, Read
    <3>. HIDE DEF here, sent
    <3>. SUFFICES ASSUME NEW p \in sent
                  PROVE  p[2] \in Nat /\ \E a \in TopOf(here) : /\ a[2] \in Nat /\ a[1] = Topic(p[1])
                                                                /\ p[2] + left <= a[2] + fill
      BY DEF Timely
    <3>4. p[1] \in Read(e[3][i]) /\ p[2] = 0
      BY <3>3
    <3>. DEFINE b == <<Topic(p[1]), 0>>
    <3>5. b \in Now(e[3][i]) /\ b[1] = Topic(p[1]) /\ b[2] = 0
      BY <3>4 DEF Now
    <3>. HIDE DEF b
    <3>6. PICK a \in TopOf(here) : a[2] \in Nat /\ a[1] = b[1]
      BY <3>2, <3>5 DEF Allows
    <3>7. 0 + left <= a[2] + fill
      BY <3>6
    <3>. QED
      BY <3>4, <3>5, <3>6, <3>7
  <2>2. CASE ~Sends(e, i)
    <3>1. sent = {}
      BY <2>2 DEF SentAt
    <3>. HIDE DEF sent
    <3>. QED
      BY <3>1 DEF Timely
  <2>. QED
    BY <2>1, <2>2
<1>. QED
  BY <1>1, <1>2, TimelyAdding

\* An entry is as old as its key allows, with the time that it has left.
EntryTimely(k, entry) == Unlooked(k) \/ Timely(entry.parts, KeyBounds(k), entry.left, 0)

LEMMA EntryTimelyMade ==
  ASSUME NEW key, NEW ttl \in Nat, NEW bounds, KeepsInTime(key, ttl, bounds),
         NEW left \in Nat, NEW fill \in Nat, fill <= MaxFill,
         NEW parts, Timely(parts, bounds, left, fill)
  PROVE  EntryTimely(key, [parts |-> parts, left |-> ttl])
<1>1. CASE Unlooked(key)
  BY <1>1 DEF EntryTimely
<1>2. CASE ~Unlooked(key)
  <2>1. Allows(KeyBounds(key), Later(bounds, ttl + MaxFill))
    BY <1>2 DEF KeepsInTime
  <2>2. Timely(parts, KeyBounds(key), ttl, 0)
    <3>. DEFINE wide == KeyBounds(key)
                m == MaxFill
    <3>. SUFFICES ASSUME NEW p \in parts
                  PROVE  p[2] \in Nat /\ \E b \in wide : /\ b[2] \in Nat /\ b[1] = Topic(p[1])
                                                         /\ p[2] + ttl <= b[2] + 0
      BY DEF Timely
    <3>1. p[2] \in Nat
      BY DEF Timely
    <3>2. PICK a \in bounds : a[2] \in Nat /\ a[1] = Topic(p[1]) /\ p[2] + left <= a[2] + fill
      BY DEF Timely
    <3>. DEFINE late == <<a[1], a[2] + (ttl + m)>>
    <3>3. late \in Later(bounds, ttl + m) /\ late[1] = a[1] /\ late[2] = a[2] + (ttl + m)
      BY DEF Later
    <3>. HIDE DEF late, wide, m
    <3>4. PICK b \in wide : b[2] \in Nat /\ b[1] = late[1] /\ late[2] <= b[2]
      BY <2>1, <3>3 DEF Allows, wide, m
    <3>5. m \in Nat /\ fill <= m
      BY MaxFillIs DEF m
    <3>6. p[2] + ttl <= b[2] + 0
      BY <3>1, <3>2, <3>3, <3>4, <3>5
    <3>. QED
      BY <3>1, <3>2, <3>3, <3>4, <3>6
  <2>. QED
    BY <2>2 DEF EntryTimely
<1>. QED
  BY <1>1, <1>2

\* The parts of an entry, found under a key that is looked for.
LEMMA EntryTimelyFound ==
  ASSUME NEW k, ~Unlooked(k), NEW entry, EntryTimely(k, entry), entry.left \in Nat,
         NEW bounds, Allows(bounds, KeyBounds(k)),
         NEW fill \in Nat, NEW left \in Nat, left <= fill
  PROVE  Timely(entry.parts, bounds, left, fill)
<1>. DEFINE narrow == KeyBounds(k)
            parts == entry.parts
            time == entry.left
<1>1. Timely(parts, narrow, time, 0) /\ time \in Nat
  BY DEF EntryTimely
<1>. HIDE DEF narrow, parts, time
<1>2. Timely(parts, narrow, left, fill)
  <2>. SUFFICES ASSUME NEW p \in parts
                PROVE  p[2] \in Nat /\ \E b \in narrow : /\ b[2] \in Nat /\ b[1] = Topic(p[1])
                                                         /\ p[2] + left <= b[2] + fill
    BY DEF Timely
  <2>1. p[2] \in Nat
    BY <1>1 DEF Timely
  <2>2. PICK b \in narrow : b[2] \in Nat /\ b[1] = Topic(p[1]) /\ p[2] + time <= b[2] + 0
    BY <1>1 DEF Timely
  <2>3. p[2] + left <= b[2] + fill
    BY <1>1, <2>1, <2>2
  <2>. QED
    BY <2>1, <2>2, <2>3
<1>3. Timely(parts, bounds, left, fill)
  BY <1>2, TimelyAllowed DEF narrow
<1>. QED
  BY <1>3 DEF parts

LEMMA EntryTimelyAging ==
  ASSUME NEW k, NEW entry, EntryTimely(k, entry), entry.left \in Nat
  PROVE  EntryTimely(k, [parts |-> Older(entry.parts), left |-> entry.left - 1])
<1>1. CASE Unlooked(k)
  BY <1>1 DEF EntryTimely
<1>2. CASE ~Unlooked(k)
  <2>1. Timely(entry.parts, KeyBounds(k), entry.left, 0)
    BY <1>2 DEF EntryTimely
  <2>2. 0 \in Nat
    OBVIOUS
  <2>3. Timely(Older(entry.parts), KeyBounds(k), entry.left - 1, 0)
    BY <2>1, <2>2, TimelyAging
  <2>. QED
    BY <2>3 DEF EntryTimely
<1>. QED
  BY <1>1, <1>2

\* No part is older than the bounds of where it is: in a request, in redis and, by the time
\* that its batch reads it, in the temporary table.
TrackAt(c) == Track(asks[c])[client[c].pc]
RowTimely(r, bounds) == \E a \in bounds : a[2] \in Nat /\ a[1] = Topic(r)
RequestsTimely ==
  \A c \in Clients :
    Busy(c) => FramesTimely(client[c].frames, TrackAt(c), client[c].left, Fill[c])
RedisTimely == \A k \in DOMAIN redis : EntryTimely(k, redis[k])
TableTimely ==
  \A c \in Clients : Batching(c) => \A r \in topTable.rows : RowTimely(r, TopOf(TrackAt(c)))
AgeInv == RequestsTimely /\ RedisTimely /\ TableTimely

LEMMA InitTimely == Init => AgeInv
<1>. SUFFICES ASSUME Init PROVE AgeInv
  OBVIOUS
<1>1. \A c \in Clients : client[c].pc = 0
  BY DEF Init, Idle
<1>2. \A c \in Clients : ~Busy(c) /\ ~Batching(c)
  BY <1>1 DEF Busy, Batching
<1>3. DOMAIN redis = {}
  BY DEF Init
<1>. QED
  BY <1>2, <1>3 DEF AgeInv, RequestsTimely, RedisTimely, TableTimely

\* A client at a step, and its bounds there.
LEMMA TimedAt ==
  ASSUME IInv, AgeInv, NEW c \in Clients, NEW op, At(c, op)
  PROVE  /\ IsAt(client[c], asks[c], Fill[c], op) /\ Busy(c)
         /\ asks[c] \in Catalogue /\ asks[c][3][client[c].pc].op = op
         /\ Fill[c] \in Nat /\ Fill[c] <= MaxFill
         /\ client[c].left \in Nat /\ client[c].left <= Fill[c]
         /\ client[c].pc + 1 \in ThePlaces(asks[c])
         /\ IsProgram(TrackAt(c)) /\ Len(TrackAt(c)) >= 1
         /\ FramesTimely(client[c].frames, TrackAt(c), client[c].left, Fill[c])
         /\ StepInTime(asks[c][3][client[c].pc], TrackAt(c), Track(asks[c])[client[c].pc + 1],
                       Track(asks[c])[Lands(asks[c][3], client[c].pc)])
<1>. DEFINE e == asks[c]
            pc == client[c].pc
<1>1. IsAt(client[c], e, Fill[c], op) /\ Busy(c) /\ Fill[c] <= MaxFill
  BY ClientAt DEF IInv
<1>2. e \in Catalogue /\ e[3][pc].op = op /\ pc \in TheSteps(e) /\ Fill[c] \in Nat
  BY <1>1 DEF IsAt
<1>3. client[c].left \in Nat /\ client[c].left <= Fill[c] /\ pc + 1 \in ThePlaces(e)
  BY <1>1, StepForetold
<1>4. pc \in ThePlaces(e)
  BY <1>2, CourseIs
<1>5. IsProgram(TrackAt(c)) /\ Len(TrackAt(c)) >= 1
  BY <1>2, <1>4, TrackIs DEF TrackAt
<1>6. StepInTime(e[3][pc], TrackAt(c), Track(e)[pc + 1], Track(e)[Lands(e[3], pc)])
  BY <1>2, TrackIs DEF TrackAt
<1>7. FramesTimely(client[c].frames, TrackAt(c), client[c].left, Fill[c])
  BY <1>1 DEF AgeInv, RequestsTimely
<1>. QED
  BY <1>1, <1>2, <1>3, <1>5, <1>6, <1>7

\* One client's request is another one afterwards.
LEMMA TimelyMoves ==
  ASSUME IInv, RequestsTimely, NEW c \in Clients, NEW s, client' = [client EXCEPT ![c] = s],
         asks' = asks,
         s.pc > 0 => FramesTimely(s.frames, Track(asks[c])[s.pc], s.left, Fill[c])
  PROVE  /\ RequestsTimely' /\ client'[c] = s
         /\ \A d \in Clients : d # c => client'[d] = client[d]
<1>1. client'[c] = s /\ \A d \in Clients : d # c => client'[d] = client[d]
  BY DEF IInv, RequestsFit
<1>2. ASSUME NEW d \in Clients, Busy(d)'
      PROVE  FramesTimely(client'[d].frames, Track(asks[d])[client'[d].pc], client'[d].left, Fill[d])
  <2>1. CASE d = c
    BY <1>1, <1>2, <2>1 DEF Busy
  <2>2. CASE d # c
    <3>1. client'[d] = client[d] /\ Busy(d)
      BY <1>1, <1>2, <2>2 DEF Busy
    <3>. QED
      BY <3>1 DEF RequestsTimely, TrackAt
  <2>. QED
    BY <2>1, <2>2
<1>3. RequestsTimely'
  BY <1>2 DEF RequestsTimely, TrackAt
<1>. QED
  BY <1>1, <1>3

\* The rows in the table are another client's, if anybody's.
LEMMA TableTimelyStays ==
  ASSUME TableTimely, NEW c \in Clients, asks' = asks, topTable' = topTable,
         \A d \in Clients : d # c => client'[d] = client[d], ~Batching(c)'
  PROVE  TableTimely'
<1>1. ASSUME NEW d \in Clients, Batching(d)'
      PROVE  Batching(d) /\ TrackAt(d)' = TrackAt(d)
  <2>1. client'[d] = client[d]
    BY <1>1
  <2>. QED
    BY <1>1, <2>1 DEF Batching, Busy, Place, TrackAt
<1>. QED
  BY <1>1 DEF TableTimely

LEMMA TimelyDropping ==
  ASSUME IInv, AgeInv, NEW c \in Clients, Drop(c), UNCHANGED <<asks, redis, topTable>>
  PROVE  AgeInv'
<1>1. client' = [client EXCEPT ![c] = Idle] /\ ~(Idle.pc > 0)
  BY DEF Drop, Idle
<1>2. /\ RequestsTimely' /\ client'[c] = Idle
      /\ \A d \in Clients : d # c => client'[d] = client[d]
  BY <1>1, TimelyMoves DEF AgeInv
<1>3. ~Batching(c)'
  BY <1>1, <1>2 DEF Batching, Busy
<1>4. TableTimely'
  BY <1>2, <1>3, TableTimelyStays DEF AgeInv
<1>5. RedisTimely'
  BY DEF AgeInv, RedisTimely
<1>. QED
  BY <1>2, <1>4, <1>5 DEF AgeInv

LEMMA TimelyJumping ==
  ASSUME IInv, AgeInv, NEW c \in Clients, Busy(c), NEW pc \in ThePlaces(asks[c]), NEW frames,
         FramesTimely(frames, Track(asks[c])[pc], client[c].left, Fill[c]),
         Jump(c, pc, frames), asks' = asks
  PROVE  /\ RequestsTimely' /\ client'[c].pc = pc
         /\ Place(c)' = Course(asks[c])[pc] /\ TrackAt(c)' = Track(asks[c])[pc]
         /\ \A d \in Clients : d # c => client'[d] = client[d]
<1>. DEFINE e == asks[c]
            r == client[c]
            early == \/ r.early /\ ~At(c, "join")
                     \/ At(c, "start")
            next == Adding(frames, SentAt(e, pc))
            s == [pc |-> pc, frames |-> next, left |-> r.left, early |-> early]
<1>1. e \in Catalogue /\ r.left \in 0..Fill[c] /\ Fill[c] \in Nat
  BY MaxFillIs DEF IInv, RequestsFit, IsRequest
<1>2. FramesTimely(next, Track(e)[pc], r.left, Fill[c])
  BY <1>1, TimelyArriving
<1>3. Launched(c, pc) = SentAt(e, pc)
  BY DEF Launched, SentAt, Sends, Code
<1>4. client' = [client EXCEPT ![c] = s]
  BY <1>3 DEF Jump
<1>. HIDE DEF early, next
<1>5. s.pc = pc /\ s.frames = next /\ s.left = r.left
  OBVIOUS
<1>. HIDE DEF s
<1>6. /\ RequestsTimely' /\ client'[c] = s
      /\ \A d \in Clients : d # c => client'[d] = client[d]
  BY <1>2, <1>4, <1>5, TimelyMoves DEF AgeInv
<1>7. client'[c].pc = pc
  BY <1>5, <1>6
<1>8. Place(c)' = Course(asks[c])[pc] /\ TrackAt(c)' = Track(asks[c])[pc]
  BY <1>7 DEF Place, TrackAt
<1>. QED
  BY <1>6, <1>7, <1>8

\* A client goes on, outside the batch.
LEMMA TimelyGoing ==
  ASSUME IInv, AgeInv, NEW c \in Clients, Busy(c), NEW pc \in ThePlaces(asks[c]), NEW frames,
         FramesTimely(frames, Track(asks[c])[pc], client[c].left, Fill[c]),
         Course(asks[c])[pc].table = FALSE,
         Jump(c, pc, frames), RedisTimely', UNCHANGED <<asks, topTable>>
  PROVE  AgeInv'
<1>1. /\ RequestsTimely' /\ Place(c)' = Course(asks[c])[pc]
      /\ \A d \in Clients : d # c => client'[d] = client[d]
  BY TimelyJumping
<1>2. ~Batching(c)'
  BY <1>1 DEF Batching
<1>3. TableTimely'
  BY <1>1, <1>2, TableTimelyStays DEF AgeInv
<1>. QED
  BY <1>1, <1>3 DEF AgeInv

LEMMA TimelyKeeping ==
  ASSUME RedisTimely, NEW key, NEW parts, NEW ttl,
         EntryTimely(key, [parts |-> parts, left |-> ttl]), redis' = With(key, parts, ttl)
  PROVE  RedisTimely'
<1>. DEFINE entry == [parts |-> parts, left |-> ttl]
<1>1. DOMAIN redis' = DOMAIN redis \cup {key}
  BY DEF With
<1>2. \A k \in DOMAIN redis \cup {key} : redis'[k] = IF k = key THEN entry ELSE redis[k]
  BY DEF With
<1>. HIDE DEF entry
<1>3. EntryTimely(key, entry)
  BY DEF entry
<1>. SUFFICES ASSUME NEW k \in DOMAIN redis' PROVE EntryTimely(k, redis'[k])
  BY DEF RedisTimely
<1>4. CASE k = key
  BY <1>1, <1>2, <1>3, <1>4
<1>5. CASE k # key
  BY <1>1, <1>2, <1>5 DEF RedisTimely
<1>. QED
  BY <1>4, <1>5

LEMMA HitTimely == ASSUME IInv, AgeInv, NEW c \in Clients, Hit(c) PROVE AgeInv'
<1>. DEFINE e == asks[c]
            r == client[c]
            k == e[3][r.pc].key
            entry == redis[k]
            pc == r.pc + e[3][r.pc].to
            land == Track(e)[pc]
<1>1. At(c, "look") /\ k \in DOMAIN redis
  BY DEF Hit, Step, Code
<1>2. /\ IsAt(r, e, Fill[c], "look") /\ Busy(c) /\ e \in Catalogue /\ e[3][r.pc].op = "look"
      /\ Fill[c] \in Nat /\ r.left \in Nat /\ r.left <= Fill[c]
      /\ FramesTimely(r.frames, TrackAt(c), r.left, Fill[c])
      /\ StepInTime(e[3][r.pc], TrackAt(c), Track(e)[r.pc + 1], Track(e)[Lands(e[3], r.pc)])
  BY <1>1, TimedAt
<1>3. Lands(e[3], r.pc) = pc
  BY <1>2 DEF Lands
<1>4. IsEntry(k, entry)
  BY <1>1 DEF IInv, RedisFits
<1>5. pc \in ThePlaces(e) /\ Course(e)[pc].table = FALSE
  BY <1>2, <1>4, AfterHitting
<1>6. entry.left \in Nat /\ ~Never(k)
  BY <1>4 DEF IsEntry
<1>7. ~Unlooked(k) /\ Widens(TrackAt(c), land) /\ Allows(TopOf(land), KeyBounds(k))
  BY <1>2, <1>3, <1>6 DEF StepInTime
<1>8. EntryTimely(k, entry)
  BY <1>1 DEF AgeInv, RedisTimely
<1>9. Jump(c, pc, Adding(r.frames, entry.parts)) /\ UNCHANGED <<asks, redis, topTable>>
  BY DEF Hit, Step, Code, Frames
<1>10. IsProgram(land) /\ Len(land) >= 1
  BY <1>2, <1>5, TrackIs
<1>11. RedisTimely'
  BY <1>9 DEF AgeInv, RedisTimely
<1>. HIDE DEF land, entry, k, pc
<1>12. Timely(entry.parts, TopOf(land), r.left, Fill[c])
  BY <1>2, <1>6, <1>7, <1>8, EntryTimelyFound
<1>13. FramesTimely(r.frames, land, r.left, Fill[c])
  BY <1>2, <1>7, TimelyWider
<1>14. FramesTimely(Adding(r.frames, entry.parts), land, r.left, Fill[c])
  BY <1>10, <1>12, <1>13, TimelyAdding
<1>. QED
  BY <1>2, <1>5, <1>9, <1>11, <1>14, TimelyGoing DEF land

LEMMA MissTimely == ASSUME IInv, AgeInv, NEW c \in Clients, Miss(c) \/ Open(c) PROVE AgeInv'
<1>. DEFINE e == asks[c]
            r == client[c]
            next == Track(e)[r.pc + 1]
<1>1. PICK op \in {"look", "open"} : At(c, op)
  BY DEF Miss, Open
<1>2. /\ IsAt(r, e, Fill[c], op) /\ Busy(c) /\ e[3][r.pc].op = op /\ r.pc + 1 \in ThePlaces(e)
      /\ IsProgram(TrackAt(c)) /\ FramesTimely(r.frames, TrackAt(c), r.left, Fill[c])
      /\ StepInTime(e[3][r.pc], TrackAt(c), next, Track(e)[Lands(e[3], r.pc)])
  BY <1>1, TimedAt
<1>3. Course(e)[r.pc + 1].table = FALSE
  BY <1>2, AfterOpening
<1>4. \E S : next = Append(TrackAt(c), S)
  BY <1>2 DEF StepInTime
<1>5. FramesTimely(Append(r.frames, {}), next, r.left, Fill[c])
  BY <1>2, <1>4, TimelyPushing
<1>6. Jump(c, r.pc + 1, Append(r.frames, {})) /\ UNCHANGED <<asks, redis, topTable>>
  BY DEF Miss, Open, Onward, Frames
<1>7. RedisTimely'
  BY <1>6 DEF AgeInv, RedisTimely
<1>. QED
  BY <1>2, <1>3, <1>5, <1>6, <1>7, TimelyGoing

LEMMA CloseTimely == ASSUME IInv, AgeInv, NEW c \in Clients, Close(c) \/ Keep(c) PROVE AgeInv'
<1>. DEFINE e == asks[c]
            r == client[c]
            step == e[3][r.pc]
            here == TrackAt(c)
            next == Track(e)[r.pc + 1]
            top == r.frames[Len(r.frames)]
            merged == Adding(SubSeq(r.frames, 1, Len(r.frames) - 1), top)
<1>1. PICK op \in {"close", "keep"} : At(c, op)
  BY DEF Close, Keep
<1>2. /\ IsAt(r, e, Fill[c], op) /\ Busy(c) /\ e \in Catalogue /\ step.op = op
      /\ r.pc + 1 \in ThePlaces(e)
      /\ Fill[c] \in Nat /\ Fill[c] <= MaxFill /\ r.left \in Nat
      /\ IsProgram(here) /\ Len(here) >= 1 /\ FramesTimely(r.frames, here, r.left, Fill[c])
      /\ StepInTime(step, here, next, Track(e)[Lands(e[3], r.pc)])
  BY <1>1, TimedAt
<1>3. Course(e)[r.pc + 1].table = FALSE
  BY <1>2, AfterMerging
<1>4. Leaves(here, next) /\ (op = "keep" => KeepsInTime(step.key, step.ttl, TopOf(here)))
  BY <1>2 DEF StepInTime
<1>5. IsProgram(next)
  BY <1>2, TrackIs
<1>6. FramesTimely(merged, next, r.left, Fill[c])
  BY <1>2, <1>4, <1>5, TimelyMerging
<1>7. Jump(c, r.pc + 1, merged) /\ UNCHANGED <<asks, topTable>>
  BY DEF Close, Keep, Onward, Merged, Under, TopFrame, Frames
<1>8. RedisTimely'
  <2>1. CASE Close(c)
    <3>1. redis' = redis
      BY <2>1 DEF Close
    <3>. QED
      BY <3>1 DEF AgeInv, RedisTimely
  <2>2. CASE Keep(c)
    <3>1. At(c, "keep") /\ redis' = With(step.key, top, step.ttl)
      BY <2>2 DEF Keep, Step, Code, TopFrame, Frames
    <3>2. op = "keep" /\ IsAt(r, e, Fill[c], "keep")
      BY <1>1, <1>2, <3>1, OneOperation
    <3>3. IsEntry(step.key, [parts |-> top, left |-> step.ttl])
      BY <1>2, <3>2, KeptIs
    <3>4. step.ttl \in Nat
      BY <3>3 DEF IsEntry
    <3>5. Timely(top, TopOf(here), r.left, Fill[c])
      <4>1. Len(here) \in 1..Len(here)
        BY <1>2, Catenation
      <4>. QED
        BY <1>2, <4>1 DEF FramesTimely, TopOf
    <3>. HIDE DEF top, step, here
    <3>6. EntryTimely(step.key, [parts |-> top, left |-> step.ttl])
      BY <1>2, <1>4, <3>2, <3>4, <3>5, EntryTimelyMade
    <3>. QED
      BY <3>1, <3>6, TimelyKeeping DEF AgeInv
  <2>. QED
    BY <2>1, <2>2
<1>. HIDE DEF merged
<1>. QED
  BY <1>2, <1>3, <1>6, <1>7, <1>8, TimelyGoing

LEMMA ShareOutTimely == ASSUME IInv, AgeInv, NEW c \in Clients, ShareOut(c) PROVE AgeInv'
<1>. DEFINE e == asks[c]
            r == client[c]
            step == e[3][r.pc]
            here == TrackAt(c)
            next == Track(e)[r.pc + 1]
            top == r.frames[Len(r.frames)]
            parts == {p \in top : p[1] \in step.only}
            bounds == BoundsOf(TopOf(here), step.only)
<1>1. At(c, "share")
  BY DEF ShareOut
<1>2. /\ IsAt(r, e, Fill[c], "share") /\ Busy(c) /\ step.op = "share" /\ r.pc + 1 \in ThePlaces(e)
      /\ Fill[c] \in Nat /\ Fill[c] <= MaxFill /\ r.left \in Nat
      /\ IsProgram(here) /\ Len(here) >= 1 /\ FramesTimely(r.frames, here, r.left, Fill[c])
      /\ StepInTime(step, here, next, Track(e)[Lands(e[3], r.pc)])
  BY <1>1, TimedAt
<1>3. Course(e)[r.pc + 1].table = FALSE
  BY <1>2, AfterWriting
<1>4. Widens(here, next) /\ KeepsInTime(step.key, step.ttl, bounds)
  BY <1>2 DEF StepInTime
<1>5. FramesTimely(r.frames, next, r.left, Fill[c])
  BY <1>2, <1>4, TimelyWider
<1>6. Jump(c, r.pc + 1, r.frames) /\ UNCHANGED <<asks, topTable>>
  BY DEF ShareOut, Onward, Frames
<1>7. RedisTimely'
  <2>1. CASE redis' = redis
    BY <2>1 DEF AgeInv, RedisTimely
  <2>2. CASE redis' = With(step.key, parts, step.ttl)
    <3>1. IsEntry(step.key, [parts |-> parts, left |-> step.ttl])
      BY <1>2, SharedIs
    <3>2. step.ttl \in Nat
      BY <3>1 DEF IsEntry
    <3>3. Timely(top, TopOf(here), r.left, Fill[c])
      <4>1. Len(here) \in 1..Len(here)
        BY <1>2, Catenation
      <4>. QED
        BY <1>2, <4>1 DEF FramesTimely, TopOf
    <3>. HIDE DEF top
    <3>4. Timely(parts, bounds, r.left, Fill[c])
      BY <3>3 DEF Timely, BoundsOf
    <3>. HIDE DEF parts, bounds, step, here
    <3>5. EntryTimely(step.key, [parts |-> parts, left |-> step.ttl])
      BY <1>2, <1>4, <3>2, <3>4, EntryTimelyMade
    <3>. QED
      BY <2>2, <3>5, TimelyKeeping DEF AgeInv
  <2>3. redis' = redis \/ redis' = With(step.key, parts, step.ttl)
    BY DEF ShareOut, Step, Code, TopFrame, Frames
  <2>. QED
    BY <2>1, <2>2, <2>3
<1>. QED
  BY <1>2, <1>3, <1>5, <1>6, <1>7, TimelyGoing

LEMMA AnsweredTimely == ASSUME IInv, AgeInv, NEW c \in Clients, Answered(c) PROVE AgeInv'
<1>. DEFINE e == asks[c]
            r == client[c]
<1>1. PICK op \in {"ask", "start", "join"} : At(c, op)
  BY DEF Answered
<1>2. /\ IsAt(r, e, Fill[c], op) /\ Busy(c) /\ e[3][r.pc].op = op /\ r.pc + 1 \in ThePlaces(e)
      /\ FramesTimely(r.frames, TrackAt(c), r.left, Fill[c])
      /\ StepInTime(e[3][r.pc], TrackAt(c), Track(e)[r.pc + 1], Track(e)[Lands(e[3], r.pc)])
  BY <1>1, TimedAt
<1>3. Course(e)[r.pc + 1].table = FALSE
  BY <1>2, AfterAsking
<1>4. Track(e)[r.pc + 1] = TrackAt(c)
  BY <1>2 DEF StepInTime
<1>5. Jump(c, r.pc + 1, r.frames) /\ UNCHANGED <<asks, redis, topTable>>
  BY DEF Answered, Onward, Frames
<1>6. RedisTimely'
  BY <1>5 DEF AgeInv, RedisTimely
<1>. QED
  BY <1>2, <1>3, <1>4, <1>5, <1>6, TimelyGoing

\* The batch: whoever is at it knows how old the rows may be.
LEMMA CreateTopTimely ==
  ASSUME IInv, IInv', AgeInv, NEW c \in Clients, CreateTop(c) PROVE AgeInv'
<1>. DEFINE e == asks[c]
            r == client[c]
<1>1. At(c, "create") /\ UNCHANGED <<asks, redis>>
  BY DEF CreateTop
<1>2. CASE topTable.made
  <2>1. Drop(c) /\ UNCHANGED <<asks, redis, topTable>>
    BY <1>1, <1>2 DEF CreateTop, Leave
  <2>. QED
    BY <2>1, TimelyDropping
<1>3. CASE ~topTable.made
  <2>1. Jump(c, r.pc + 1, r.frames) /\ topTable' = [made |-> TRUE, rows |-> {}]
    BY <1>3 DEF CreateTop, Onward, Frames
  <2>2. /\ Busy(c) /\ e[3][r.pc].op = "create" /\ r.pc + 1 \in ThePlaces(e)
        /\ FramesTimely(r.frames, TrackAt(c), r.left, Fill[c])
        /\ StepInTime(e[3][r.pc], TrackAt(c), Track(e)[r.pc + 1], Track(e)[Lands(e[3], r.pc)])
    BY <1>1, TimedAt
  <2>3. Track(e)[r.pc + 1] = TrackAt(c)
    BY <2>2 DEF StepInTime
  <2>4. RequestsTimely'
    BY <1>1, <2>1, <2>2, <2>3, TimelyJumping
  <2>5. topTable'.rows = {}
    BY <2>1
  <2>6. TableTimely'
    BY <2>5 DEF TableTimely
  <2>7. RedisTimely'
    BY <1>1 DEF AgeInv, RedisTimely
  <2>. QED
    BY <2>4, <2>6, <2>7 DEF AgeInv
<1>. QED
  BY <1>2, <1>3

LEMMA InsertTopTimely ==
  ASSUME IInv, IInv', AgeInv, NEW c \in Clients, InsertTop(c) PROVE AgeInv'
<1>. DEFINE e == asks[c]
            r == client[c]
            step == e[3][r.pc]
            here == TrackAt(c)
<1>1. At(c, "insert") /\ UNCHANGED <<asks, redis>>
  BY DEF InsertTop
<1>2. /\ Jump(c, r.pc + 1, r.frames)
      /\ topTable' = [topTable EXCEPT !.rows = @ \cup step.rows]
  BY DEF InsertTop, Onward, Frames, Step, Code
<1>3. /\ IsAt(r, e, Fill[c], "insert")
      /\ Busy(c) /\ step.op = "insert" /\ r.pc + 1 \in ThePlaces(e)
      /\ FramesTimely(r.frames, here, r.left, Fill[c])
      /\ StepInTime(step, here, Track(e)[r.pc + 1], Track(e)[Lands(e[3], r.pc)])
  BY <1>1, TimedAt
<1>4. Track(e)[r.pc + 1] = here /\ Allows(TopOf(here), Now(step))
  BY <1>3 DEF StepInTime
<1>5. /\ RequestsTimely' /\ Place(c)' = Course(e)[r.pc + 1] /\ TrackAt(c)' = here
      /\ \A d \in Clients : d # c => client'[d] = client[d]
  BY <1>1, <1>2, <1>3, <1>4, TimelyJumping
<1>6. Batching(c)
  <2>1. Course(e)[r.pc].table = TRUE
    BY <1>3, AfterWriting
  <2>. QED
    BY <1>3, <2>1 DEF Batching, Place
<1>7. \A d \in Clients : Batching(d)' => d = c
  <2>1. \A d \in Clients : d # c => (Batching(d)' <=> Batching(d))
    BY <1>1, <1>5 DEF Batching, Busy, Place
  <2>. QED
    BY <1>6, <2>1 DEF IInv, TableFits
<1>8. topTable'.rows = topTable.rows \cup step.rows
  <2>1. topTable = [made |-> topTable.made, rows |-> topTable.rows]
    BY DEF IInv, TableFits
  <2>. QED
    BY <1>2, <2>1
<1>9. \A x \in topTable.rows : RowTimely(x, TopOf(here))
  BY <1>6 DEF AgeInv, TableTimely
<1>10. ASSUME NEW x \in step.rows PROVE RowTimely(x, TopOf(here))
  <2>. DEFINE b == <<Topic(x), 0>>
  <2>1. x \in Read(step)
    BY <1>3, <1>10 DEF Read
  <2>2. b \in Now(step) /\ b[1] = Topic(x)
    BY <2>1 DEF Now
  <2>. HIDE DEF b
  <2>3. \E a \in TopOf(here) : a[2] \in Nat /\ a[1] = b[1]
    BY <1>4, <2>2 DEF Allows
  <2>. QED
    BY <2>2, <2>3 DEF RowTimely
<1>. HIDE DEF here
<1>11. TableTimely'
  <2>1. \A x \in topTable'.rows : RowTimely(x, TopOf(here))
    BY <1>8, <1>9, <1>10
  <2>2. \A d \in Clients : Batching(d)' => TrackAt(d)' = here
    BY <1>5, <1>7
  <2>. QED
    BY <2>1, <2>2 DEF TableTimely
<1>12. RedisTimely'
  BY <1>1 DEF AgeInv, RedisTimely
<1>. QED
  BY <1>5, <1>11, <1>12 DEF AgeInv

LEMMA DropTopTimely ==
  ASSUME IInv, IInv', AgeInv, NEW c \in Clients, DropTop(c) PROVE AgeInv'
<1>. DEFINE e == asks[c]
            r == client[c]
            here == TrackAt(c)
            parts == topTable.rows \X {Fill[c] - r.left}
<1>1. At(c, "drop") /\ UNCHANGED <<asks, redis>> /\ topTable' = NoTable
  BY DEF DropTop
<1>2. Jump(c, r.pc + 1, Adding(r.frames, parts))
  BY DEF DropTop, Onward, Frames
<1>3. /\ IsAt(r, e, Fill[c], "drop")
      /\ Busy(c) /\ e[3][r.pc].op = "drop" /\ r.pc + 1 \in ThePlaces(e)
      /\ Fill[c] \in Nat /\ r.left \in Nat /\ r.left <= Fill[c]
      /\ IsProgram(here) /\ Len(here) >= 1 /\ FramesTimely(r.frames, here, r.left, Fill[c])
      /\ StepInTime(e[3][r.pc], here, Track(e)[r.pc + 1], Track(e)[Lands(e[3], r.pc)])
  BY <1>1, TimedAt
<1>4. Track(e)[r.pc + 1] = here
  BY <1>3 DEF StepInTime
<1>5. Batching(c)
  <2>1. Course(e)[r.pc].table = TRUE
    BY <1>3, StepForetold DEF StepFits
  <2>. QED
    BY <1>3, <2>1 DEF Batching, Place
<1>6. \A x \in topTable.rows : RowTimely(x, TopOf(here))
  BY <1>5 DEF AgeInv, TableTimely
<1>7. Timely(parts, TopOf(here), r.left, Fill[c])
  <2>. DEFINE fill == Fill[c]
              left == r.left
              top == TopOf(here)
  <2>. SUFFICES ASSUME NEW p \in parts
                PROVE  p[2] \in Nat /\ \E a \in top : /\ a[2] \in Nat /\ a[1] = Topic(p[1])
                                                      /\ p[2] + left <= a[2] + fill
    BY DEF Timely
  <2>1. p[1] \in topTable.rows /\ p[2] = fill - left
    OBVIOUS
  <2>2. PICK a \in top : a[2] \in Nat /\ a[1] = Topic(p[1])
    BY <1>6, <2>1 DEF RowTimely
  <2>3. fill \in Nat /\ left \in Nat /\ left <= fill
    BY <1>3
  <2>. HIDE DEF fill, left, top
  <2>4. p[2] \in Nat /\ p[2] + left <= a[2] + fill
    BY <2>1, <2>2, <2>3
  <2>. QED
    BY <2>2, <2>4
<1>. HIDE DEF here, parts
<1>8. FramesTimely(Adding(r.frames, parts), here, r.left, Fill[c])
  BY <1>3, <1>7, TimelyAdding
<1>9. RequestsTimely'
  BY <1>1, <1>2, <1>3, <1>4, <1>8, TimelyJumping
<1>10. topTable'.rows = {}
  BY <1>1 DEF NoTable
<1>11. TableTimely'
  BY <1>10 DEF TableTimely
<1>12. RedisTimely'
  BY <1>1 DEF AgeInv, RedisTimely
<1>. QED
  BY <1>9, <1>11, <1>12 DEF AgeInv

LEMMA BeginTimely == ASSUME IInv, AgeInv, NEW c \in Clients, Begin(c) PROVE AgeInv'
<1>. DEFINE e == asks[c]
            fill == Fill[c]
            sent == SentAt(e, 1)
            s == [pc |-> 1, frames |-> <<sent>>, left |-> fill, early |-> FALSE]
<1>1. e \in Catalogue
  BY DEF Begin, IInv, RequestsFit
<1>2. fill \in Nat /\ fill \in 0..fill
  <2>1. fill \in Nat
    BY MaxFillIs
  <2>. QED
    BY <2>1
<1>3. 1 \in ThePlaces(e)
  BY <1>1, CourseIs DEF ThePlaces
<1>4. PICK A : Track(e)[1] = <<A>>
  BY <1>1, TrackIs
<1>5. FramesTimely(<<{}>>, Track(e)[1], fill, fill)
  <2>1. Timely({}, A, fill, fill)
    BY DEF Timely
  <2>2. /\ IsProgram(<<{}>>) /\ Len(<<{}>>) = 1 /\ Len(<<A>>) = 1
        /\ <<{}>>[1] = {} /\ <<A>>[1] = A /\ \A j \in 1..1 : j = 1
    BY OneStep
  <2>3. FramesTimely(<<{}>>, <<A>>, fill, fill)
    BY <2>1, <2>2 DEF FramesTimely
  <2>. QED
    BY <1>4, <2>3
<1>6. FramesTimely(Adding(<<{}>>, sent), Track(e)[1], fill, fill)
  BY <1>1, <1>2, <1>3, <1>5, TimelyArriving
<1>. HIDE DEF sent
<1>7. Adding(<<{}>>, sent) = <<sent>>
  BY DEF Adding
<1>8. Launched(c, 1) = sent
  BY DEF Launched, SentAt, Sends, Code, sent
<1>9. client' = [client EXCEPT ![c] = s] /\ UNCHANGED <<asks, redis, topTable>>
  BY <1>8 DEF Begin
<1>10. s.pc = 1 /\ s.frames = <<sent>> /\ s.left = fill
  OBVIOUS
<1>. HIDE DEF s
<1>11. /\ RequestsTimely' /\ client'[c] = s
       /\ \A d \in Clients : d # c => client'[d] = client[d]
  BY <1>6, <1>7, <1>9, <1>10, TimelyMoves DEF AgeInv
<1>12. ~Batching(c)'
  <2>1. Place(c)' = Course(e)[1]
    BY <1>9, <1>10, <1>11 DEF Place
  <2>2. Course(e)[1] = Rest(<<[said |-> {}, old |-> Limit(e)]>>)
    BY <1>1, CourseIs
  <2>3. Course(e)[1].table = FALSE
    BY <2>2, RestIs
  <2>. QED
    BY <2>1, <2>3 DEF Batching
<1>13. TableTimely'
  BY <1>9, <1>11, <1>12, TableTimelyStays DEF AgeInv
<1>14. RedisTimely'
  BY <1>9 DEF AgeInv, RedisTimely
<1>. QED
  BY <1>11, <1>13, <1>14 DEF AgeInv

LEMMA CrashTimely == ASSUME AgeInv, Crash PROVE AgeInv'
<1>1. client' = [d \in Clients |-> Idle] /\ UNCHANGED <<asks, redis, topTable>>
  BY DEF Crash
<1>2. \A d \in Clients : client'[d].pc = 0
  BY <1>1 DEF Idle
<1>3. \A d \in Clients : ~Busy(d)' /\ ~Batching(d)'
  BY <1>2 DEF Busy, Batching
<1>4. RequestsTimely' /\ TableTimely'
  BY <1>3 DEF RequestsTimely, TableTimely
<1>5. RedisTimely'
  BY <1>1 DEF AgeInv, RedisTimely
<1>. QED
  BY <1>4, <1>5 DEF AgeInv

LEMMA SessionClosesTimely == ASSUME AgeInv, SessionCloses PROVE AgeInv'
<1>1. UNCHANGED <<asks, client, redis>> /\ topTable' = NoTable
  BY DEF SessionCloses
<1>2. RequestsTimely'
  BY <1>1 DEF AgeInv, RequestsTimely, Busy, TrackAt
<1>3. topTable'.rows = {}
  BY <1>1 DEF NoTable
<1>4. TableTimely'
  BY <1>3 DEF TableTimely
<1>5. RedisTimely'
  BY <1>1 DEF AgeInv, RedisTimely
<1>. QED
  BY <1>2, <1>4, <1>5 DEF AgeInv

LEMMA TickTimely == ASSUME IInv, AgeInv, Tick PROVE AgeInv'
<1>1. /\ \A c \in Clients : Busy(c) => client[c].left > 0
      /\ client' = [c \in Clients |-> IF Busy(c) THEN Aged(client[c]) ELSE Idle]
      /\ redis' = [k \in {k \in DOMAIN redis : Stays(k)} |->
                     [parts |-> Older(redis[k].parts), left |-> redis[k].left - 1]]
      /\ UNCHANGED <<asks, topTable>>
  BY DEF Tick, Aged
<1>2. ASSUME NEW c \in Clients, Busy(c)
      PROVE  /\ client'[c].pc = client[c].pc
             /\ FramesTimely(client'[c].frames, TrackAt(c), client'[c].left, Fill[c])
  <2>. DEFINE r == client[c]
              fill == Fill[c]
              older == OlderFrames(r.frames)
              s == [pc |-> r.pc, frames |-> older, left |-> r.left - 1, early |-> r.early]
  <2>1. asks[c] \in Catalogue /\ IsRequest(r, asks[c], fill) /\ fill \in Nat
    BY <1>2, MaxFillIs DEF IInv, RequestsFit
  <2>2. /\ r = [pc |-> r.pc, frames |-> r.frames, left |-> r.left, early |-> r.early]
        /\ r.pc \in ThePlaces(asks[c]) /\ r.left \in 0..fill
    BY <2>1 DEF IsRequest
  <2>3. client'[c] = s
    <3>1. client'[c] = Aged(r)
      BY <1>1, <1>2
    <3>2. Aged(r) = s
      BY <2>2, Ageing
    <3>. QED
      BY <3>1, <3>2
  <2>4. IsProgram(TrackAt(c))
    BY <2>1, <2>2, TrackIs DEF TrackAt
  <2>5. FramesTimely(r.frames, TrackAt(c), r.left, fill)
    BY <1>2 DEF AgeInv, RequestsTimely
  <2>6. r.left \in Nat
    BY <2>1, <2>2
  <2>7. FramesTimely(older, TrackAt(c), r.left - 1, fill)
    BY <2>1, <2>4, <2>5, <2>6, FramesTimelyAging
  <2>. HIDE DEF older
  <2>8. s.pc = r.pc /\ s.frames = older /\ s.left = r.left - 1
    OBVIOUS
  <2>. HIDE DEF s
  <2>. QED
    BY <2>3, <2>7, <2>8
<1>3. ASSUME NEW c \in Clients, ~Busy(c) PROVE ~Busy(c)'
  <2>1. client'[c] = Idle
    BY <1>1, <1>3
  <2>2. client'[c].pc = 0
    BY <2>1 DEF Idle
  <2>. QED
    BY <2>2 DEF Busy
<1>4. \A c \in Clients : Busy(c)' => Busy(c) /\ TrackAt(c)' = TrackAt(c) /\ Place(c)' = Place(c)
  BY <1>1, <1>2, <1>3 DEF TrackAt, Place
<1>5. RequestsTimely'
  BY <1>2, <1>4 DEF RequestsTimely
<1>6. TableTimely'
  <2>1. \A c \in Clients : Batching(c)' => Batching(c) /\ TrackAt(c)' = TrackAt(c)
    BY <1>4 DEF Batching
  <2>. QED
    BY <1>1, <2>1 DEF AgeInv, TableTimely
<1>7. RedisTimely'
  <2>. SUFFICES ASSUME NEW k \in DOMAIN redis' PROVE EntryTimely(k, redis'[k])
    BY DEF RedisTimely
  <2>1. /\ k \in DOMAIN redis
        /\ redis'[k] = [parts |-> Older(redis[k].parts), left |-> redis[k].left - 1]
    BY <1>1
  <2>2. EntryTimely(k, redis[k]) /\ redis[k].left \in Nat
    BY <2>1 DEF AgeInv, RedisTimely, IInv, RedisFits, IsEntry
  <2>. QED
    BY <2>1, <2>2, EntryTimelyAging
<1>. QED
  BY <1>5, <1>6, <1>7 DEF AgeInv

LEMMA NextTimely == IInv /\ IInv' /\ AgeInv /\ [Next]_vars => AgeInv'
<1>. SUFFICES ASSUME IInv, IInv', AgeInv, [Next]_vars PROVE AgeInv'
  OBVIOUS
<1>1. ASSUME NEW c \in Clients, Begin(c) PROVE AgeInv'
  BY <1>1, BeginTimely
<1>2. ASSUME NEW c \in Clients, Hit(c) PROVE AgeInv'
  BY <1>2, HitTimely
<1>3. ASSUME NEW c \in Clients, Miss(c) \/ Open(c) PROVE AgeInv'
  BY <1>3, MissTimely
<1>4. ASSUME NEW c \in Clients, Close(c) \/ Keep(c) PROVE AgeInv'
  BY <1>4, CloseTimely
<1>5. ASSUME NEW c \in Clients, ShareOut(c) PROVE AgeInv'
  BY <1>5, ShareOutTimely
<1>6. ASSUME NEW c \in Clients, Answered(c) PROVE AgeInv'
  BY <1>6, AnsweredTimely
<1>7. ASSUME NEW c \in Clients, CreateTop(c) PROVE AgeInv'
  BY <1>7, CreateTopTimely
<1>8. ASSUME NEW c \in Clients, InsertTop(c) PROVE AgeInv'
  BY <1>8, InsertTopTimely
<1>9. ASSUME NEW c \in Clients, DropTop(c) PROVE AgeInv'
  BY <1>9, DropTopTimely
<1>10. ASSUME NEW c \in Clients, Reply(c) PROVE AgeInv'
  BY <1>10, TimelyDropping DEF Reply, Leave
<1>11. ASSUME NEW c \in Clients, Fail(c) PROVE AgeInv'
  BY <1>11, TimelyDropping DEF Fail, Leave
<1>12. CASE Crash
  BY <1>12, CrashTimely
<1>13. CASE SessionCloses
  BY <1>13, SessionClosesTimely
<1>14. CASE Tick
  BY <1>14, TickTimely
<1>15. CASE LateAnswers \/ UNCHANGED vars
  <2>1. UNCHANGED <<asks, client, redis, topTable>>
    BY <1>15 DEF LateAnswers, vars
  <2>2. RequestsTimely'
    BY <2>1 DEF AgeInv, RequestsTimely, Busy, TrackAt
  <2>3. RedisTimely'
    BY <2>1 DEF AgeInv, RedisTimely
  <2>4. TableTimely'
    BY <2>1 DEF AgeInv, TableTimely, Batching, Busy, Place, TrackAt
  <2>. QED
    BY <2>2, <2>3, <2>4 DEF AgeInv
<1>. QED
  BY <1>1, <1>2, <1>3, <1>4, <1>5, <1>6, <1>7, <1>8, <1>9, <1>10, <1>11, <1>12, <1>13,
     <1>14, <1>15
  DEF Next

\* A handler that has come to its end: each part is about something that it asks, and no
\* older than the entries around that step may get and the times to fill them.
LEMMA FinishedTimely ==
  ASSUME IInv, AgeInv, NEW c \in Clients, Finished(c), NEW p \in Frames(c)[1]
  PROVE  \E i \in Asking(Code(c), Topic(p[1])) : p[2] <= AgeAt(Code(c), i)
<1>. DEFINE e == asks[c]
            r == client[c]
            last == Len(e[3]) + 1
<1>1. e \in Catalogue /\ r.pc \in ThePlaces(e) /\ r.left \in 0..Fill[c] /\ Busy(c)
  BY DEF Finished, IInv, RequestsFit, IsRequest
<1>2. r.pc = last
  <2>1. Len(e[3]) \in Nat /\ r.pc > Len(e[3])
    BY <1>1, CourseIs DEF Finished, Code
  <2>. QED
    BY <1>1, <2>1 DEF ThePlaces
<1>3. PICK B : Track(e)[last] = <<B>> /\ Allows(Bounds(e[3]), B)
  BY <1>1, TrackIs
<1>4. FramesTimely(r.frames, <<B>>, r.left, Fill[c])
  BY <1>1, <1>2, <1>3 DEF AgeInv, RequestsTimely, TrackAt
<1>5. Timely(r.frames[1], B, r.left, Fill[c])
  <2>1. Len(<<B>>) = 1 /\ <<B>>[1] = B /\ 1 \in 1..1
    OBVIOUS
  <2>. QED
    BY <1>4, <2>1 DEF FramesTimely
<1>6. Fill[c] \in Nat /\ Fill[c] <= MaxFill /\ MaxFill \in Nat /\ r.left \in Nat
  BY <1>1, MaxFillIs
<1>7. Timely(r.frames[1], Bounds(e[3]), r.left, Fill[c])
  BY <1>3, <1>5, <1>6, TimelyAllowed
<1>8. p[2] \in Nat
  BY <1>7 DEF Timely, Frames
<1>9. PICK b \in Bounds(e[3]) : b[2] \in Nat /\ b[1] = Topic(p[1]) /\ p[2] + r.left <= b[2] + Fill[c]
  BY <1>7 DEF Timely, Frames
<1>10. PICK i \in DOMAIN e[3] : \E x \in Read(e[3][i]) : b = <<Topic(x), Inside(e[3], i)>>
  BY <1>9, BoundsAre
<1>11. PICK x \in Read(e[3][i]) : b = <<Topic(x), Inside(e[3], i)>>
  BY <1>10
<1>12. b[1] = Topic(x) /\ b[2] = Inside(e[3], i)
  BY <1>11
<1>13. i \in Asking(e[3], Topic(p[1]))
  BY <1>9, <1>10, <1>11, <1>12, ReadingOfStep DEF Asking
<1>14. AgeAt(e[3], i) = b[2] + MaxFill
  BY <1>12 DEF AgeAt, Inside
<1>15. p[2] <= b[2] + MaxFill
  BY <1>6, <1>8, <1>9
<1>. QED
  BY <1>13, <1>14, <1>15 DEF Code

\* No part of an answer is older than its place in the handler allows: the lifetimes of the
\* entries around the step that asks for it, kept inside one another, and the time of the
\* request that filled each and of this one.
THEOREM AgesAreBounded == Spec => []AgeBounded
<1>1. Init => IInv /\ AgeInv
  BY InitFits, InitTimely
<1>2. IInv /\ AgeInv /\ [Next]_vars => (IInv /\ AgeInv)'
  BY NextFits, NextTimely
<1>3. IInv /\ AgeInv => AgeBounded
  BY FinishedTimely DEF AgeBounded
<1>. QED
  BY <1>1, <1>2, <1>3, PTL DEF Spec

===============================================================================
