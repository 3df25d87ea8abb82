--------------------------- MODULE SequenceLemmas ---------------------------
(***************************************************************************)
(* Facts about sequences that the proofs of several modules use, and about *)
(* the projection of a socket's callbacks in progress to their names,      *)
(* which is all that ConnectionEvents sees of them.                        *)
(***************************************************************************)
EXTENDS Naturals, Sequences, SequenceTheorems, TLAPS

\* A function on 1..n is a sequence of length n.
LEMMA LenOfFunction ==
  ASSUME NEW S, NEW n \in Nat, NEW f \in [1..n -> S]
  PROVE  f \in Seq(S) /\ Len(f) = n
<1>1. f \in Seq(S)
  BY SeqDef
<1>2. Len(f) \in Nat /\ 1..Len(f) = 1..n
  BY <1>1, LenProperties
<1>3. \A i, j \in Nat : 1..i = 1..j => i <= j
  <2> SUFFICES ASSUME NEW i \in Nat, NEW j \in Nat, 1..i = 1..j, i > j
               PROVE  FALSE
    OBVIOUS
  <2>1. i \in 1..i /\ i \notin 1..j
    OBVIOUS
  <2>2. QED
    BY <2>1
<1> DEFINE m == Len(f)
<1>4. m \in Nat /\ 1..m = 1..n
  BY <1>2
<1> HIDE DEF m
<1>5. m = n
  BY <1>3, <1>4
<1>6. QED
  BY <1>1, <1>5 DEF m

LEMMA AppendToEmpty ==
  ASSUME NEW S, NEW c \in S
  PROVE  Append(<<>>, c) = <<c>>
<1>1. <<>> \in Seq(S) /\ <<c>> \in Seq(S)
  BY EmptySeq
<1>2. Append(<<>>, c) = <<>> \o <<c>>
  BY <1>1, AppendIsConcat
<1>3. QED
  BY <1>1, <1>2, ConcatEmptySeq

\* All but the last element, that is all but the innermost callback.
LEMMA PopFacts ==
  ASSUME NEW S, NEW st \in Seq(S), st # <<>>
  PROVE  /\ Len(st) \in Nat \ {0}
         /\ SubSeq(st, 1, Len(st) - 1) \in Seq(S)
         /\ Len(SubSeq(st, 1, Len(st) - 1)) = Len(st) - 1
         /\ \A i \in 1..Len(st) - 1 : SubSeq(st, 1, Len(st) - 1)[i] = st[i]
<1>1. Len(st) \in Nat \ {0} /\ \A i \in 1..Len(st) : st[i] \in S
  BY EmptySeq, ElementOfSeq
<1> DEFINE n == Len(st) - 1
<1>2. n \in Nat /\ 1 \in Int /\ n \in Int /\ \A i \in 1..n : st[i] \in S
  BY <1>1
<1>3. n - 1 + 1 = n /\ \A i \in 1..n : 1 + i - 1 = i
  BY <1>2
<1>4. (IF 1 <= n THEN n - 1 + 1 ELSE 0) = n
  BY <1>2, <1>3
<1> HIDE DEF n
<1>5. /\ SubSeq(st, 1, n) \in Seq(S)
      /\ Len(SubSeq(st, 1, n)) = n
      /\ \A i \in 1..n : SubSeq(st, 1, n)[i] = st[1 + i - 1]
  BY <1>2, <1>3, <1>4, SubSeqProperties
<1>6. QED
  BY <1>1, <1>3, <1>5 DEF n

----------------------------------------------------------------------------
(* The names of the callbacks in progress                                  *)

Runs(F) == {f.run : f \in F}

RunsOf(st) == [i \in DOMAIN st |-> st[i].run]

LEMMA RunsOfFacts ==
  ASSUME NEW F, NEW st \in Seq(F)
  PROVE  /\ RunsOf(st) \in Seq(Runs(F))
         /\ Len(RunsOf(st)) = Len(st)
         /\ \A i \in 1..Len(st) : RunsOf(st)[i] = st[i].run
         /\ RunsOf(st) = <<>> <=> st = <<>>
<1>1. /\ Len(st) \in Nat
      /\ DOMAIN st = 1..Len(st)
      /\ st \in [1..Len(st) -> F]
  BY LenProperties
<1>2. RunsOf(st) \in [1..Len(st) -> Runs(F)]
  BY <1>1 DEF RunsOf, Runs
<1>3. RunsOf(st) \in Seq(Runs(F)) /\ Len(RunsOf(st)) = Len(st)
  BY <1>1, <1>2, LenOfFunction
<1>4. \A i \in 1..Len(st) : RunsOf(st)[i] = st[i].run
  BY <1>1 DEF RunsOf
<1>5. RunsOf(st) = <<>> <=> st = <<>>
  BY <1>3, EmptySeq
<1>6. QED
  BY <1>3, <1>4, <1>5

LEMMA RunsOfNonEmpty ==
  ASSUME NEW F, NEW st \in Seq(F), st # <<>>
  PROVE  /\ RunsOf(st) \in Seq(Runs(F)) /\ RunsOf(st) # <<>>
         /\ Len(RunsOf(st)) = Len(st)
         /\ \A i \in 1..Len(st) : RunsOf(st)[i] = st[i].run
<1>1. RunsOf(st) \in Seq(Runs(F)) /\ Len(RunsOf(st)) = Len(st)
  BY RunsOfFacts
<1>2. RunsOf(st) # <<>>
  BY RunsOfFacts
<1>3. \A i \in 1..Len(st) : RunsOf(st)[i] = st[i].run
  BY RunsOfFacts
<1>4. QED
  BY <1>1, <1>2, <1>3

\* A callback more is one more at the end.
LEMMA RunsOfAppend ==
  ASSUME NEW F, NEW st \in Seq(F), NEW f \in F
  PROVE  RunsOf(Append(st, f)) = Append(RunsOf(st), f.run)
<1> DEFINE lhs == RunsOf(Append(st, f))
           rhs == Append(RunsOf(st), f.run)
<1>1. /\ Append(st, f) \in Seq(F)
      /\ Len(Append(st, f)) = Len(st) + 1
      /\ \A i \in 1..Len(st) : Append(st, f)[i] = st[i]
      /\ Append(st, f)[Len(st) + 1] = f
  BY AppendProperties
<1>2. /\ lhs \in Seq(Runs(F)) /\ Len(lhs) = Len(st) + 1
      /\ \A i \in 1..Len(st) + 1 : lhs[i] = Append(st, f)[i].run
  BY <1>1, RunsOfFacts
<1>3. f.run \in Runs(F) /\ Len(st) \in Nat
  BY LenProperties DEF Runs
<1>4. /\ rhs \in Seq(Runs(F)) /\ Len(rhs) = Len(st) + 1
      /\ \A i \in 1..Len(st) : rhs[i] = st[i].run
      /\ rhs[Len(st) + 1] = f.run
  BY <1>3, AppendProperties, RunsOfFacts
<1>5. \A i \in 1..Len(st) + 1 : i \in 1..Len(st) \/ i = Len(st) + 1
  BY <1>3
<1> HIDE DEF lhs, rhs
<1>6. \A i \in 1..Len(lhs) : lhs[i] = rhs[i]
  BY <1>1, <1>2, <1>3, <1>4, <1>5
<1>7. lhs = rhs
  BY <1>2, <1>4, <1>6, SeqEqual
<1>8. QED
  BY <1>7 DEF lhs, rhs

\* The innermost callback returns.
LEMMA RunsOfPop ==
  ASSUME NEW F, NEW st \in Seq(F), st # <<>>
  PROVE  RunsOf(SubSeq(st, 1, Len(st) - 1))
           = SubSeq(RunsOf(st), 1, Len(RunsOf(st)) - 1)
<1> DEFINE runs == RunsOf(st)
           lhs == RunsOf(SubSeq(st, 1, Len(st) - 1))
           rhs == SubSeq(runs, 1, Len(runs) - 1)
<1>1. /\ runs \in Seq(Runs(F)) /\ Len(runs) = Len(st) /\ runs # <<>>
      /\ \A i \in 1..Len(st) : runs[i] = st[i].run
  BY RunsOfNonEmpty
<1>2. /\ Len(st) \in Nat \ {0}
      /\ SubSeq(st, 1, Len(st) - 1) \in Seq(F)
      /\ Len(SubSeq(st, 1, Len(st) - 1)) = Len(st) - 1
      /\ \A i \in 1..Len(st) - 1 : SubSeq(st, 1, Len(st) - 1)[i] = st[i]
  BY PopFacts
<1>a. /\ lhs \in Seq(Runs(F)) /\ Len(lhs) = Len(SubSeq(st, 1, Len(st) - 1))
      /\ \A i \in 1..Len(SubSeq(st, 1, Len(st) - 1)) :
            lhs[i] = SubSeq(st, 1, Len(st) - 1)[i].run
  BY <1>2, RunsOfFacts
<1>3. /\ lhs \in Seq(Runs(F)) /\ Len(lhs) = Len(st) - 1
      /\ \A i \in 1..Len(st) - 1 : lhs[i] = st[i].run
  BY <1>2, <1>a
<1> HIDE DEF runs
<1>4. /\ rhs \in Seq(Runs(F)) /\ Len(rhs) = Len(runs) - 1
      /\ \A i \in 1..Len(runs) - 1 : rhs[i] = runs[i]
  BY <1>1, PopFacts
<1> HIDE DEF lhs, rhs
<1>5. \A i \in 1..Len(st) - 1 : i \in 1..Len(st)
  BY <1>2
<1>6. lhs = rhs
  BY <1>1, <1>3, <1>4, <1>5, SeqEqual
<1>7. QED
  BY <1>6 DEF lhs, rhs, runs

\* The innermost callback returns and another takes its place.
LEMMA RunsOfReplace ==
  ASSUME NEW F, NEW st \in Seq(F), st # <<>>, NEW f \in F
  PROVE  RunsOf(Append(SubSeq(st, 1, Len(st) - 1), f))
           = [RunsOf(st) EXCEPT ![Len(RunsOf(st))] = f.run]
<1>0. /\ RunsOf(st) \in Seq(Runs(F)) /\ Len(RunsOf(st)) = Len(st) /\ RunsOf(st) # <<>>
      /\ \A i \in 1..Len(st) : RunsOf(st)[i] = st[i].run
  BY RunsOfNonEmpty
<1> DEFINE runs == RunsOf(st)
           below == SubSeq(st, 1, Len(st) - 1)
           lhs == RunsOf(Append(below, f))
           rhs == [runs EXCEPT ![Len(runs)] = f.run]
<1>1. /\ runs \in Seq(Runs(F)) /\ Len(runs) = Len(st) /\ runs # <<>>
      /\ \A i \in 1..Len(st) : runs[i] = st[i].run
  BY <1>0
<1>2. /\ Len(st) \in Nat \ {0}
      /\ below \in Seq(F) /\ Len(below) = Len(st) - 1
      /\ \A i \in 1..Len(st) - 1 : below[i] = st[i]
  BY PopFacts
<1> HIDE DEF below
<1>3. /\ Append(below, f) \in Seq(F)
      /\ Len(Append(below, f)) = Len(below) + 1
      /\ \A i \in 1..Len(below) : Append(below, f)[i] = below[i]
      /\ Append(below, f)[Len(below) + 1] = f
  BY <1>2, AppendProperties
<1>4. /\ lhs \in Seq(Runs(F)) /\ Len(lhs) = Len(Append(below, f))
      /\ \A i \in 1..Len(Append(below, f)) : lhs[i] = Append(below, f)[i].run
  BY <1>3, RunsOfFacts
<1>5. f.run \in Runs(F) /\ Len(runs) \in 1..Len(runs)
  BY <1>1, <1>2 DEF Runs
<1> HIDE DEF runs
<1>6. /\ rhs \in Seq(Runs(F)) /\ Len(rhs) = Len(runs)
      /\ \A i \in 1..Len(runs) : rhs[i] = IF i = Len(runs) THEN f.run ELSE runs[i]
  BY <1>1, <1>5, ExceptSeq
<1> HIDE DEF lhs, rhs
<1>7. Len(lhs) = Len(st) /\ Len(below) + 1 = Len(st)
  BY <1>2, <1>3, <1>4
<1>8. \A i \in 1..Len(st) : /\ i = Len(st) \/ i \in 1..Len(st) - 1
                            /\ i # Len(st) => i \in 1..Len(below)
  BY <1>2
<1>9. \A i \in 1..Len(st) : lhs[i] = rhs[i]
  <2>1. ASSUME NEW i \in 1..Len(st), i = Len(st)
        PROVE  lhs[i] = rhs[i]
    BY <1>1, <1>3, <1>4, <1>6, <1>7, <2>1
  <2>2. ASSUME NEW i \in 1..Len(st), i # Len(st)
        PROVE  lhs[i] = rhs[i]
    <3>1. i \in 1..Len(below) /\ i \in 1..Len(st) - 1
      BY <1>8, <2>2
    <3>2. lhs[i] = st[i].run
      BY <1>2, <1>3, <1>4, <1>7, <3>1
    <3>3. rhs[i] = st[i].run
      BY <1>1, <1>6, <2>2
    <3>4. QED
      BY <3>2, <3>3
  <2>3. QED
    BY <2>1, <2>2
<1>10. lhs = rhs
  BY <1>1, <1>4, <1>6, <1>7, <1>9, SeqEqual
<1>11. QED
  BY <1>10 DEF lhs, rhs, runs, below

============================================================================
