--------------------------- MODULE EvmApplyProofs ---------------------------
(***************************************************************************)
(* Proofs about what becomes of the journal of EvmJournal, of any length:  *)
(* the checks made when entries are added are enough when it is applied,   *)
(* what is applied is what the contracts saw, and the pool backs all NEON. *)
(***************************************************************************)
EXTENDS EvmJournalProofs, FoldLemmas

-----------------------------------------------------------------------------
(* Folds *)

FilterStep(t, e, K) == IF e \in K THEN Append(t, e) ELSE t

FilterSteps(s, K, V) == [k \in 1..Len(s) |-> [t \in V |-> FilterStep(t, s[k], K)]]

LEMMA FilterFold ==
    ASSUME NEW E, NEW K, NEW s \in Seq(E)
    PROVE  \E h : /\ Steps(h, Len(s), << >>, FilterSteps(s, K, Seq(E)), Seq(E))
                  /\ Filtered(s, K) = h[1..Len(s)]
<1> DEFINE n == Len(s)
           S == 1..n
           V == Seq(E)
           step == FilterSteps(s, K, V)
           Folds(g) == g = [u \in SUBSET S |->
                              IF u = {} THEN << >>
                              ELSE IF s[Max(u)] \in K
                                   THEN Append(g[u \ {Max(u)}], s[Max(u)])
                                   ELSE g[u \ {Max(u)}]]
           iter == CHOOSE g : Folds(g)
<1>1. n \in Nat /\ << >> \in V /\ DOMAIN s = S /\ \A k \in S : s[k] \in E
  OBVIOUS
<1>2. \A k \in S, t \in V : step[k][t] \in V
  BY <1>1 DEF FilterSteps, FilterStep
<1>3. StepsOver(step, n, V)
  BY <1>2 DEF StepsOver
<1>4. PICK h \in [SUBSET S -> V] : Iteration(h, n, << >>, step)
  <2> HIDE DEF step, V, n
  <2> QED BY <1>1, <1>3, SequenceRecursion
<1>5. \A u \in SUBSET S : u # {} => Max(u) \in S /\ u \ {Max(u)} \in SUBSET S
  BY <1>1, MaxIsLargest
<1>6. Folds(h)
  <2>1. \A u \in SUBSET S : u # {} =>
           h[u] = IF s[Max(u)] \in K THEN Append(h[u \ {Max(u)}], s[Max(u)])
                  ELSE h[u \ {Max(u)}]
    BY <1>4, <1>5 DEF Iteration, FilterSteps, FilterStep
  <2>2. h[{}] = << >> /\ h = [u \in SUBSET S |-> h[u]]
    BY <1>4 DEF Iteration
  <2> QED BY <2>1, <2>2
<1>7. Folds(iter)
  BY <1>6
<1>8. Filtered(s, K) = iter[S]
  BY <1>1 DEF Filtered, FoldLeft, MapThenFoldSet
<1> HIDE DEF iter
<1>9. /\ iter[{}] = << >>
      /\ \A u \in SUBSET S : u # {} =>
            iter[u] = FilterStep(iter[u \ {Max(u)}], s[Max(u)], K)
  BY <1>7 DEF FilterStep
<1>10. 1..0 = {} /\ iter[1..0] = << >>
  BY <1>9
<1>11. ASSUME NEW k \in 1..n, iter[1..(k - 1)] \in V
       PROVE  iter[1..k] = step[k][iter[1..(k - 1)]]
  <2>1. 1..k \in SUBSET S /\ k \in Nat \ {0}
    BY <1>1
  <2>2. iter[1..k] = FilterStep(iter[1..(k - 1)], s[k], K)
    BY <1>9, <2>1, MaxOfPrefix
  <2> QED BY <1>1, <1>11, <2>2 DEF FilterSteps
<1>12. Steps(iter, n, << >>, step, V)
  <2>1. Follows(iter, n, step, V)
    BY <1>11 DEF Follows
  <2> HIDE DEF step, V, n
  <2> QED BY <1>1, <1>3, <1>10, <2>1, StepsFollow
<1> QED BY <1>8, <1>12

\* What is filtered of one element more.
LEMMA FilteredAppend ==
    ASSUME NEW E, NEW K, NEW s \in Seq(E), NEW e \in E
    PROVE  /\ Filtered(s, K) \in Seq(E)
           /\ Filtered(Append(s, e), K) = FilterStep(Filtered(s, K), e, K)
           /\ Filtered(<< >>, K) = << >>
<1> DEFINE n == Len(s)
           t == Append(s, e)
           V == Seq(E)
           first == FilterSteps(s, K, V)
           step == FilterSteps(t, K, V)
<1>1. /\ n \in Nat /\ t \in V /\ s \in V /\ Len(t) = n + 1 /\ t[n + 1] = e
      /\ \A k \in 1..n : t[k] = s[k]
  OBVIOUS
<1>2. PICK g : Steps(g, n, << >>, first, V) /\ Filtered(s, K) = g[1..n]
  BY FilterFold
<1>3. PICK h : Steps(h, Len(t), << >>, step, V) /\ Filtered(t, K) = h[1..Len(t)]
  <2> HIDE DEF t
  <2> QED BY <1>1, FilterFold
<1>4. PICK z : Steps(z, Len(<< >>), << >>, FilterSteps(<< >>, K, V), V)
               /\ Filtered(<< >>, K) = z[1..Len(<< >>)]
  <2>1. << >> \in Seq(E)
    OBVIOUS
  <2> QED BY <2>1, FilterFold
<1>5. Filtered(<< >>, K) = << >>
  BY <1>4 DEF Steps
<1> HIDE DEF t
<1>6. \A k \in 1..n : \A v \in V : first[k][v] = step[k][v]
  BY <1>1 DEF FilterSteps
<1> HIDE DEF first
<1>7. g[1..n] = h[1..n]
  <2>1. n + 1 \in Nat /\ n <= n + 1 /\ Steps(h, n + 1, << >>, step, V)
    BY <1>1, <1>3
  <2> HIDE DEF n, V, step
  <2> QED BY <1>1, <1>2, <1>6, <2>1, StepsUnique
<1>8. g[1..n] \in V
  BY <1>1, <1>2 DEF Steps
<1>9. h[1..(n + 1)] = step[n + 1][h[1..n]]
  BY <1>1, <1>3 DEF Steps
<1>10. step[n + 1][h[1..n]] = FilterStep(h[1..n], e, K)
  BY <1>1, <1>7, <1>8 DEF FilterSteps
<1> QED BY <1>1, <1>2, <1>3, <1>5, <1>7, <1>8, <1>9, <1>10 DEF t

AllApplyAction(base, js) == FoldLeft(ApplyAction, base, js)

ApplyActionStays(V, E) == \A v \in V, e \in E : ApplyAction(v, e) \in V

ApplyActionSteps(js, V) == [k \in 1..Len(js) |-> [v \in V |-> ApplyAction(v, js[k])]]

LEMMA ApplyActionFold ==
    ASSUME NEW E, NEW V, ApplyActionStays(V, E), NEW base \in V, NEW js \in Seq(E)
    PROVE  \E h : /\ Steps(h, Len(js), base, ApplyActionSteps(js, V), V)
                  /\ AllApplyAction(base, js) = h[1..Len(js)]
<1> DEFINE n == Len(js)
           S == 1..n
           step == ApplyActionSteps(js, V)
           Folds(g) == g = [u \in SUBSET S |->
                              IF u = {} THEN base
                              ELSE ApplyAction(g[u \ {Max(u)}], js[Max(u)])]
           iter == CHOOSE g : Folds(g)
<1>1. n \in Nat /\ DOMAIN js = S /\ \A k \in S : js[k] \in E
  OBVIOUS
<1>2. \A k \in S, v \in V : step[k][v] \in V
  BY <1>1 DEF ApplyActionSteps, ApplyActionStays
<1>3. StepsOver(step, n, V)
  BY <1>2 DEF StepsOver
<1>4. PICK h \in [SUBSET S -> V] : Iteration(h, n, base, step)
  <2> HIDE DEF step, n
  <2> QED BY <1>1, <1>3, SequenceRecursion
<1>5. \A u \in SUBSET S : u # {} => Max(u) \in S /\ u \ {Max(u)} \in SUBSET S
  BY <1>1, MaxIsLargest
<1>6. Folds(h)
  <2>1. \A u \in SUBSET S : u # {} => h[u] = ApplyAction(h[u \ {Max(u)}], js[Max(u)])
    BY <1>4, <1>5 DEF Iteration, ApplyActionSteps
  <2>2. h[{}] = base /\ h = [u \in SUBSET S |-> h[u]]
    BY <1>4 DEF Iteration
  <2> QED BY <2>1, <2>2
<1>7. Folds(iter)
  BY <1>6
<1>8. AllApplyAction(base, js) = iter[S]
  BY <1>1 DEF AllApplyAction, FoldLeft, MapThenFoldSet
<1> HIDE DEF iter
<1>9. /\ iter[{}] = base
      /\ \A u \in SUBSET S : u # {} =>
            iter[u] = ApplyAction(iter[u \ {Max(u)}], js[Max(u)])
  BY <1>7
<1>10. 1..0 = {} /\ iter[1..0] = base
  BY <1>9
<1>11. ASSUME NEW k \in 1..n, iter[1..(k - 1)] \in V
       PROVE  iter[1..k] = step[k][iter[1..(k - 1)]]
  <2>1. 1..k \in SUBSET S /\ k \in Nat \ {0}
    BY <1>1
  <2>2. iter[1..k] = ApplyAction(iter[1..(k - 1)], js[k])
    BY <1>9, <2>1, MaxOfPrefix
  <2> QED BY <1>1, <1>11, <2>2 DEF ApplyActionSteps
<1>12. Steps(iter, n, base, step, V)
  <2>1. Follows(iter, n, step, V)
    BY <1>11 DEF Follows
  <2> HIDE DEF step, n
  <2> QED BY <1>1, <1>3, <1>10, <2>1, StepsFollow
<1> QED BY <1>8, <1>12

LEMMA ApplyActionAppend ==
    ASSUME NEW E, NEW V, ApplyActionStays(V, E), NEW base \in V,
           NEW js \in Seq(E), NEW e \in E
    PROVE  /\ AllApplyAction(base, js) \in V
           /\ AllApplyAction(base, Append(js, e)) = ApplyAction(AllApplyAction(base, js), e)
<1> DEFINE n == Len(js)
           t == Append(js, e)
           first == ApplyActionSteps(js, V)
           step == ApplyActionSteps(t, V)
<1>1. /\ n \in Nat /\ t \in Seq(E) /\ Len(t) = n + 1 /\ t[n + 1] = e
      /\ \A k \in 1..n : t[k] = js[k]
  OBVIOUS
<1>2. PICK g : Steps(g, n, base, first, V) /\ AllApplyAction(base, js) = g[1..n]
  BY ApplyActionFold
<1>3. PICK h : Steps(h, Len(t), base, step, V) /\ AllApplyAction(base, t) = h[1..Len(t)]
  <2> HIDE DEF t
  <2> QED BY <1>1, ApplyActionFold
<1> HIDE DEF t
<1>4. \A k \in 1..n : \A v \in V : first[k][v] = step[k][v]
  BY <1>1 DEF ApplyActionSteps
<1> HIDE DEF first
<1>5. g[1..n] = h[1..n]
  <2>1. n + 1 \in Nat /\ n <= n + 1 /\ Steps(h, n + 1, base, step, V)
    BY <1>1, <1>3
  <2> HIDE DEF n, step
  <2> QED BY <1>1, <1>2, <1>4, <2>1, StepsUnique
<1>6. g[1..n] \in V
  BY <1>1, <1>2 DEF Steps
<1>7. h[1..(n + 1)] = step[n + 1][h[1..n]]
  BY <1>1, <1>3 DEF Steps
<1>8. step[n + 1][h[1..n]] = ApplyAction(h[1..n], e)
  BY <1>1, <1>5, <1>6 DEF ApplyActionSteps
<1> QED BY <1>1, <1>2, <1>3, <1>5, <1>6, <1>7, <1>8 DEF t

LEMMA ApplyActionNothing ==
    ASSUME NEW E, NEW V, ApplyActionStays(V, E), NEW base \in V
    PROVE  AllApplyAction(base, << >>) = base
<1>1. << >> \in Seq(E)
  OBVIOUS
<1>2. PICK h : /\ Steps(h, Len(<< >>), base, ApplyActionSteps(<< >>, V), V)
               /\ AllApplyAction(base, << >>) = h[1..Len(<< >>)]
  BY <1>1, ApplyActionFold
<1> QED BY <1>2 DEF Steps

AllApplyStorage(base, js) == FoldLeft(ApplyStorage, base, js)

ApplyStorageStays(V, E) == \A v \in V, e \in E : ApplyStorage(v, e) \in V

ApplyStorageSteps(js, V) == [k \in 1..Len(js) |-> [v \in V |-> ApplyStorage(v, js[k])]]

LEMMA ApplyStorageFold ==
    ASSUME NEW E, NEW V, ApplyStorageStays(V, E), NEW base \in V, NEW js \in Seq(E)
    PROVE  \E h : /\ Steps(h, Len(js), base, ApplyStorageSteps(js, V), V)
                  /\ AllApplyStorage(base, js) = h[1..Len(js)]
<1> DEFINE n == Len(js)
           S == 1..n
           step == ApplyStorageSteps(js, V)
           Folds(g) == g = [u \in SUBSET S |->
                              IF u = {} THEN base
                              ELSE ApplyStorage(g[u \ {Max(u)}], js[Max(u)])]
           iter == CHOOSE g : Folds(g)
<1>1. n \in Nat /\ DOMAIN js = S /\ \A k \in S : js[k] \in E
  OBVIOUS
<1>2. \A k \in S, v \in V : step[k][v] \in V
  BY <1>1 DEF ApplyStorageSteps, ApplyStorageStays
<1>3. StepsOver(step, n, V)
  BY <1>2 DEF StepsOver
<1>4. PICK h \in [SUBSET S -> V] : Iteration(h, n, base, step)
  <2> HIDE DEF step, n
  <2> QED BY <1>1, <1>3, SequenceRecursion
<1>5. \A u \in SUBSET S : u # {} => Max(u) \in S /\ u \ {Max(u)} \in SUBSET S
  BY <1>1, MaxIsLargest
<1>6. Folds(h)
  <2>1. \A u \in SUBSET S : u # {} => h[u] = ApplyStorage(h[u \ {Max(u)}], js[Max(u)])
    BY <1>4, <1>5 DEF Iteration, ApplyStorageSteps
  <2>2. h[{}] = base /\ h = [u \in SUBSET S |-> h[u]]
    BY <1>4 DEF Iteration
  <2> QED BY <2>1, <2>2
<1>7. Folds(iter)
  BY <1>6
<1>8. AllApplyStorage(base, js) = iter[S]
  BY <1>1 DEF AllApplyStorage, FoldLeft, MapThenFoldSet
<1> HIDE DEF iter
<1>9. /\ iter[{}] = base
      /\ \A u \in SUBSET S : u # {} =>
            iter[u] = ApplyStorage(iter[u \ {Max(u)}], js[Max(u)])
  BY <1>7
<1>10. 1..0 = {} /\ iter[1..0] = base
  BY <1>9
<1>11. ASSUME NEW k \in 1..n, iter[1..(k - 1)] \in V
       PROVE  iter[1..k] = step[k][iter[1..(k - 1)]]
  <2>1. 1..k \in SUBSET S /\ k \in Nat \ {0}
    BY <1>1
  <2>2. iter[1..k] = ApplyStorage(iter[1..(k - 1)], js[k])
    BY <1>9, <2>1, MaxOfPrefix
  <2> QED BY <1>1, <1>11, <2>2 DEF ApplyStorageSteps
<1>12. Steps(iter, n, base, step, V)
  <2>1. Follows(iter, n, step, V)
    BY <1>11 DEF Follows
  <2> HIDE DEF step, n
  <2> QED BY <1>1, <1>3, <1>10, <2>1, StepsFollow
<1> QED BY <1>8, <1>12

LEMMA ApplyStorageAppend ==
    ASSUME NEW E, NEW V, ApplyStorageStays(V, E), NEW base \in V,
           NEW js \in Seq(E), NEW e \in E
    PROVE  /\ AllApplyStorage(base, js) \in V
           /\ AllApplyStorage(base, Append(js, e)) = ApplyStorage(AllApplyStorage(base, js), e)
<1> DEFINE n == Len(js)
           t == Append(js, e)
           first == ApplyStorageSteps(js, V)
           step == ApplyStorageSteps(t, V)
<1>1. /\ n \in Nat /\ t \in Seq(E) /\ Len(t) = n + 1 /\ t[n + 1] = e
      /\ \A k \in 1..n : t[k] = js[k]
  OBVIOUS
<1>2. PICK g : Steps(g, n, base, first, V) /\ AllApplyStorage(base, js) = g[1..n]
  BY ApplyStorageFold
<1>3. PICK h : Steps(h, Len(t), base, step, V) /\ AllApplyStorage(base, t) = h[1..Len(t)]
  <2> HIDE DEF t
  <2> QED BY <1>1, ApplyStorageFold
<1> HIDE DEF t
<1>4. \A k \in 1..n : \A v \in V : first[k][v] = step[k][v]
  BY <1>1 DEF ApplyStorageSteps
<1> HIDE DEF first
<1>5. g[1..n] = h[1..n]
  <2>1. n + 1 \in Nat /\ n <= n + 1 /\ Steps(h, n + 1, base, step, V)
    BY <1>1, <1>3
  <2> HIDE DEF n, step
  <2> QED BY <1>1, <1>2, <1>4, <2>1, StepsUnique
<1>6. g[1..n] \in V
  BY <1>1, <1>2 DEF Steps
<1>7. h[1..(n + 1)] = step[n + 1][h[1..n]]
  BY <1>1, <1>3 DEF Steps
<1>8. step[n + 1][h[1..n]] = ApplyStorage(h[1..n], e)
  BY <1>1, <1>5, <1>6 DEF ApplyStorageSteps
<1> QED BY <1>1, <1>2, <1>3, <1>5, <1>6, <1>7, <1>8 DEF t

LEMMA ApplyStorageNothing ==
    ASSUME NEW E, NEW V, ApplyStorageStays(V, E), NEW base \in V
    PROVE  AllApplyStorage(base, << >>) = base
<1>1. << >> \in Seq(E)
  OBVIOUS
<1>2. PICK h : /\ Steps(h, Len(<< >>), base, ApplyStorageSteps(<< >>, V), V)
               /\ AllApplyStorage(base, << >>) = h[1..Len(<< >>)]
  BY <1>1, ApplyStorageFold
<1> QED BY <1>2 DEF Steps

-----------------------------------------------------------------------------
(* Entries of the journal, and the journal with one entry more *)

LEMMA ActionTypes ==
    ASSUME NEW e \in Action
    PROVE  /\ e.op \in {"EvmIncrementNonce", "EvmSelfDestruct", "EvmSetStorage", "EvmSetCode",
                        "NeonWithdraw", "NeonTransfer", "TokenCreate", "TokenTransfer"}
           /\ e.op \in {"EvmIncrementNonce", "EvmSelfDestruct", "EvmSetStorage", "EvmSetCode"}
                => e.address \in Addresses
           /\ e.op = "EvmIncrementNonce" => e = IncrementNonce(e.address)
           /\ e.op = "EvmSetStorage" =>
                 e.index \in Indices /\ e.value \in Cells
           /\ e.op = "EvmSetCode" => e.code \in Codes \cup {NoCode}
           /\ e.op = "NeonWithdraw" =>
                 e.source = NeonToken /\ e.source \in Addresses /\ e.value \in Nat \ {0}
           /\ e.op = "NeonTransfer" =>
                 /\ e.source \in Addresses /\ e.target \in Addresses
                 /\ e.value \in Nat \ {0}
           /\ e.op = "TokenCreate" =>
                 /\ e.key \in SolanaKeys /\ e.payer \in Operators
                 /\ e.authority \in Addresses \cup Wallets
           /\ e.op = "TokenTransfer" =>
                 /\ e.from \in SolanaKeys /\ e.to \in SolanaKeys
                 /\ e.signer \in Addresses \cup {Deposit} /\ e.value \in Nat
BY JournalAssumption DEF Action, IncrementNonce

ValueSum(js, S) == MapThenSumSet(LAMBDA i : js[i].value, S)

ValuesIn(js, S) == [i \in S |-> js[i].value]

LEMMA ValueSumIs ==
    ASSUME NEW js, NEW S, IsFiniteSet(S), \A i \in S : js[i].value \in Int
    PROVE  ValueSum(js, S) = Total(ValuesIn(js, S), S)
<1> DEFINE f == ValuesIn(js, S)
           Sums(g) == g = [s \in SUBSET S |-> IF s = {} THEN 0
                                              ELSE js[Chosen(s)].value + g[s \ {Chosen(s)}]]
           iter == CHOOSE g : Sums(g)
<1>1. \A i \in S : f[i] = js[i].value /\ f[i] \in Int
  BY DEF ValuesIn
<1> HIDE DEF f
<1>2. \A s \in SUBSET S : s # {} => Chosen(s) \in s /\ f[Chosen(s)] = js[Chosen(s)].value
  BY <1>1 DEF Chosen
<1>3. PICK h : SumsOf(h, f, S) /\ Total(f, S) = h[S]
  BY <1>1, TotalIsSum
<1>4. Sums(h)
  <2>1. h = [s \in SUBSET S |-> h[s]]
    BY <1>3 DEF SumsOf
  <2>2. \A s \in SUBSET S : s # {} => h[s] = js[Chosen(s)].value + h[s \ {Chosen(s)}]
    BY <1>2, <1>3 DEF SumsOf
  <2>3. h[{}] = 0
    BY <1>3 DEF SumsOf
  <2> QED BY <2>1, <2>2, <2>3
<1>5. Sums(iter)
  BY <1>4
<1>6. ValueSum(js, S) = iter[S]
  BY DEF ValueSum, MapThenSumSet, MapThenFoldSet, Chosen
<1> HIDE DEF iter
<1>7. /\ iter[{}] = 0
      /\ \A s \in SUBSET S : s # {} => iter[s] = js[Chosen(s)].value + iter[s \ {Chosen(s)}]
  BY <1>5
<1>8. PICK P : P = {s \in SUBSET S : iter[s] = h[s]}
  OBVIOUS
<1>9. {} \in P
  BY <1>3, <1>7, <1>8 DEF SumsOf
<1>10. Inductive(P, S, ChosenOfEach(S))
  <2>1. ASSUME NEW s \in SUBSET S, s # {}, s \ {Chosen(s)} \in P PROVE s \in P
    <3>1. iter[s] = js[Chosen(s)].value + iter[s \ {Chosen(s)}]
      BY <1>7, <2>1
    <3>2. h[s] = js[Chosen(s)].value + h[s \ {Chosen(s)}]
      BY <1>2, <1>3, <2>1 DEF SumsOf
    <3>3. iter[s \ {Chosen(s)}] = h[s \ {Chosen(s)}]
      BY <1>8, <2>1
    <3> QED BY <1>8, <3>1, <3>2, <3>3
  <2> QED BY <2>1 DEF Inductive, ChosenOfEach
<1>11. S \in P
  <2>1. S \in SUBSET S
    OBVIOUS
  <2> QED BY <1>9, <1>10, <2>1, ChosenIn, SetInduction
<1> QED BY <1>3, <1>6, <1>8, <1>11 DEF f

LEMMA ValueSumType ==
    ASSUME NEW js, NEW S, IsFiniteSet(S), \A i \in S : js[i].value \in Int
    PROVE  ValueSum(js, S) \in Int
<1>1. \A i \in S : ValuesIn(js, S)[i] \in Int
  BY DEF ValuesIn
<1>2. Total(ValuesIn(js, S), S) \in Int
  BY <1>1, TotalType
<1> QED BY <1>2, ValueSumIs

\* One entry more at a, others as they were
LEMMA ValueSumMore ==
    ASSUME NEW js, NEW S, IsFiniteSet(S), \A i \in S : js[i].value \in Int,
           NEW t, \A i \in S : t[i] = js[i]
    PROVE  /\ ValueSum(t, S) = ValueSum(js, S)
           /\ \A a : a \notin S /\ t[a].value \in Int =>
                 ValueSum(t, S \cup {a}) = ValueSum(js, S) + t[a].value
<1> DEFINE f == ValuesIn(js, S)
<1>1. \A i \in S : f[i] \in Int
  BY DEF ValuesIn
<1>2. ValueSum(js, S) = Total(f, S)
  BY ValueSumIs
<1>3. ValueSum(t, S) = ValueSum(js, S)
  <2> DEFINE g == ValuesIn(t, S)
  <2>1. \A i \in S : g[i] = f[i]
    BY DEF ValuesIn
  <2>2. \A i \in S : t[i].value \in Int
    OBVIOUS
  <2>3. ValueSum(t, S) = Total(g, S)
    BY <2>2, ValueSumIs
  <2> HIDE DEF f, g
  <2>4. Total(g, S) = Total(f, S)
    BY <1>1, <2>1, TotalSame
  <2> QED BY <1>2, <2>3, <2>4
<1>4. ASSUME NEW a, a \notin S, t[a].value \in Int
      PROVE  ValueSum(t, S \cup {a}) = ValueSum(js, S) + t[a].value
  <2> DEFINE R == S \cup {a}
             g == ValuesIn(t, R)
  <2>1. IsFiniteSet(R) /\ R \ {a} = S /\ a \in R
    BY <1>4, FS_AddElement
  <2>2. \A i \in R : t[i].value \in Int
    BY <1>4
  <2>3. (\A i \in S : g[i] = f[i]) /\ (\A i \in R : g[i] \in Int) /\ g[a] = t[a].value
    BY <1>4 DEF ValuesIn
  <2>4. ValueSum(t, R) = Total(g, R)
    <3> HIDE DEF R
    <3> QED BY <2>1, <2>2, ValueSumIs
  <2> HIDE DEF f, g, R
  <2>5. Total(g, R) = Total(g, R \ {a}) + g[a]
    BY <2>1, <2>3, TotalInsert
  <2>6. Total(g, S) = Total(f, S)
    BY <1>1, <2>3, TotalSame
  <2>7. ValueSum(t, R) = ValueSum(js, S) + t[a].value
    BY <1>2, <2>1, <2>3, <2>4, <2>5, <2>6
  <2> QED BY <2>7 DEF R
<1> QED BY <1>3, <1>4

Credit(e, x) == IF e.op = "NeonTransfer" /\ e.target = x THEN e.value ELSE 0
Debit(e, x) ==
    IF e.op \in {"NeonTransfer", "NeonWithdraw"} /\ e.source = x THEN e.value ELSE 0

LEMMA EntryAppended ==
    ASSUME NEW E, NEW js \in Seq(E), NEW e \in E
    PROVE  /\ Append(js, e) \in Seq(E) /\ Len(js) \in Nat
           /\ Len(Append(js, e)) = Len(js) + 1
           /\ \A i \in 1..Len(js) : Append(js, e)[i] = js[i] /\ js[i] \in E
           /\ Append(js, e)[Len(js) + 1] = e
           /\ DOMAIN js = 1..Len(js)
           /\ DOMAIN Append(js, e) = 1..(Len(js) + 1)
OBVIOUS

CreditsIn(js, x) == {i \in DOMAIN js : js[i].op = "NeonTransfer" /\ js[i].target = x}
DebitsIn(js, x) ==
    {i \in DOMAIN js : js[i].op \in {"NeonTransfer", "NeonWithdraw"} /\ js[i].source = x}

\* The transfers in the journal are of natural numbers.
LEMMA TransfersIn ==
    ASSUME NEW js \in Seq(Action), NEW x
    PROVE  /\ IsFiniteSet(CreditsIn(js, x)) /\ \A i \in CreditsIn(js, x) : js[i].value \in Int
           /\ IsFiniteSet(DebitsIn(js, x)) /\ \A i \in DebitsIn(js, x) : js[i].value \in Int
           /\ CreditsIn(js, x) \subseteq 1..Len(js) /\ DebitsIn(js, x) \subseteq 1..Len(js)
<1>1. DOMAIN js = 1..Len(js) /\ Len(js) \in Nat /\ \A i \in 1..Len(js) : js[i] \in Action
  OBVIOUS
<1>2. IsFiniteSet(1..Len(js))
  BY <1>1, FS_Interval
<1>3. CreditsIn(js, x) \subseteq 1..Len(js) /\ DebitsIn(js, x) \subseteq 1..Len(js)
  BY <1>1 DEF CreditsIn, DebitsIn
<1>4. \A i \in CreditsIn(js, x) : js[i].value \in Int
  BY <1>1, ActionTypes DEF CreditsIn
<1>5. \A i \in DebitsIn(js, x) : js[i].value \in Int
  BY <1>1, ActionTypes DEF DebitsIn
<1> QED BY <1>2, <1>3, <1>4, <1>5, FS_Subset

LEMMA CreditsAppend ==
    ASSUME NEW js \in Seq(Action), NEW e \in Action, NEW x
    PROVE  Credits(Append(js, e), x) = Credits(js, x) + Credit(e, x)
<1> DEFINE t == Append(js, e)
           S == CreditsIn(js, x)
           a == Len(js) + 1
<1>1. /\ Len(js) \in Nat /\ DOMAIN js = 1..Len(js) /\ DOMAIN t = 1..a
      /\ (\A i \in 1..Len(js) : t[i] = js[i]) /\ t[a] = e
  BY EntryAppended
<1>2. IsFiniteSet(S) /\ (\A i \in S : js[i].value \in Int) /\ S \subseteq 1..Len(js)
  BY TransfersIn
<1>3. Credits(js, x) = ValueSum(js, S) /\ Credits(t, x) = ValueSum(t, CreditsIn(t, x))
  BY DEF Credits, ValueSum, CreditsIn
<1> HIDE DEF t
<1>4. (\A i \in S : t[i] = js[i]) /\ a \notin S
  BY <1>1, <1>2
<1>5. CASE e.op = "NeonTransfer" /\ e.target = x
  <2>1. CreditsIn(t, x) = S \cup {a}
    BY <1>1, <1>5 DEF CreditsIn
  <2>2. t[a].value \in Int
    BY <1>1, <1>5, ActionTypes
  <2> HIDE DEF S, a
  <2>3. ValueSum(t, S \cup {a}) = ValueSum(js, S) + t[a].value
    BY <1>2, <1>4, <2>2, ValueSumMore
  <2> QED BY <1>1, <1>3, <1>5, <2>1, <2>3 DEF t, Credit
<1>6. CASE ~(e.op = "NeonTransfer" /\ e.target = x)
  <2>1. CreditsIn(t, x) = S
    BY <1>1, <1>6 DEF CreditsIn
  <2> HIDE DEF S, a
  <2>2. ValueSum(t, S) = ValueSum(js, S) /\ ValueSum(js, S) \in Int
    BY <1>2, <1>4, ValueSumMore, ValueSumType
  <2> QED BY <1>3, <1>6, <2>1, <2>2 DEF t, Credit
<1> QED BY <1>5, <1>6

LEMMA DebitsAppend ==
    ASSUME NEW js \in Seq(Action), NEW e \in Action, NEW x
    PROVE  Debits(Append(js, e), x) = Debits(js, x) + Debit(e, x)
<1> DEFINE t == Append(js, e)
           S == DebitsIn(js, x)
           a == Len(js) + 1
<1>1. /\ Len(js) \in Nat /\ DOMAIN js = 1..Len(js) /\ DOMAIN t = 1..a
      /\ (\A i \in 1..Len(js) : t[i] = js[i]) /\ t[a] = e
  BY EntryAppended
<1>2. IsFiniteSet(S) /\ (\A i \in S : js[i].value \in Int) /\ S \subseteq 1..Len(js)
  BY TransfersIn
<1>3. Debits(js, x) = ValueSum(js, S) /\ Debits(t, x) = ValueSum(t, DebitsIn(t, x))
  BY DEF Debits, ValueSum, DebitsIn
<1> HIDE DEF t
<1>4. (\A i \in S : t[i] = js[i]) /\ a \notin S
  BY <1>1, <1>2
<1>5. CASE e.op \in {"NeonTransfer", "NeonWithdraw"} /\ e.source = x
  <2>1. DebitsIn(t, x) = S \cup {a}
    BY <1>1, <1>5 DEF DebitsIn
  <2>2. t[a].value \in Int
    BY <1>1, <1>5, ActionTypes
  <2> HIDE DEF S, a
  <2>3. ValueSum(t, S \cup {a}) = ValueSum(js, S) + t[a].value
    BY <1>2, <1>4, <2>2, ValueSumMore
  <2> QED BY <1>1, <1>3, <1>5, <2>1, <2>3 DEF t, Debit
<1>6. CASE ~(e.op \in {"NeonTransfer", "NeonWithdraw"} /\ e.source = x)
  <2>1. DebitsIn(t, x) = S
    BY <1>1, <1>6 DEF DebitsIn
  <2> HIDE DEF S, a
  <2>2. ValueSum(t, S) = ValueSum(js, S) /\ ValueSum(js, S) \in Int
    BY <1>2, <1>4, ValueSumMore, ValueSumType
  <2> QED BY <1>3, <1>6, <2>1, <2>2 DEF t, Debit
<1> QED BY <1>5, <1>6

\* Of the empty journal
LEMMA NothingSummed ==
    ASSUME NEW x
    PROVE  Credits(<< >>, x) = 0 /\ Debits(<< >>, x) = 0
<1>1. << >> \in Seq(Action)
  OBVIOUS
<1>2. ASSUME NEW S, S = {} PROVE ValueSum(<< >>, S) = 0
  <2>1. IsFiniteSet(S) /\ \A i \in S : <<>>[i].value \in Int
    BY <1>2, FS_EmptySet
  <2>2. ValueSum(<< >>, S) = Total(ValuesIn(<< >>, S), S)
    BY <2>1, ValueSumIs
  <2> QED BY <1>2, <2>1, <2>2, TotalZero
<1>3. CreditsIn(<< >>, x) = {} /\ DebitsIn(<< >>, x) = {}
  BY DEF CreditsIn, DebitsIn
<1>4. /\ Credits(<< >>, x) = ValueSum(<< >>, CreditsIn(<< >>, x))
      /\ Debits(<< >>, x) = ValueSum(<< >>, DebitsIn(<< >>, x))
  BY DEF Credits, Debits, ValueSum, CreditsIn, DebitsIn
<1> QED BY <1>2, <1>3, <1>4

LEMMA BalanceAppend ==
    ASSUME NEW w \in World, NEW js \in Seq(Action), NEW e \in Action, NEW x \in Addresses
    PROVE  /\ balance(w, js, x) \in Int
           /\ balance(w, << >>, x) = w.balance[x]
           /\ balance(w, Append(js, e), x) = balance(w, js, x) + Credit(e, x) - Debit(e, x)
           /\ Credit(e, x) \in Nat /\ Debit(e, x) \in Nat
<1>1. w.balance[x] \in Nat
  BY DEF World
<1>2. Credits(js, x) \in Int /\ Debits(js, x) \in Int
  <2>1. /\ Credits(js, x) = ValueSum(js, CreditsIn(js, x))
        /\ Debits(js, x) = ValueSum(js, DebitsIn(js, x))
    BY DEF Credits, Debits, ValueSum, CreditsIn, DebitsIn
  <2> QED BY <2>1, TransfersIn, ValueSumType
<1>3. Credit(e, x) \in Nat /\ Debit(e, x) \in Nat
  BY ActionTypes DEF Credit, Debit
<1> QED BY <1>1, <1>2, <1>3, CreditsAppend, DebitsAppend, NothingSummed DEF balance

\* Is e in the journal?
Has(js, e) == \E j \in 1..Len(js) : js[j] = e

Deploys(js, x) == \E j \in 1..Len(js) : js[j].op = "EvmSetCode" /\ js[j].address = x

LEMMA NonceAppend ==
    ASSUME NEW w \in World, NEW js \in Seq(Action), NEW e \in Action, NEW x \in Addresses
    PROVE  /\ nonce(w, js, x) \in Nat
           /\ nonce(w, << >>, x) = w.nonce[x]
           /\ nonce(w, Append(js, e), x) =
                 IF e = IncrementNonce(x) THEN nonce(w, js, x) + 1 ELSE nonce(w, js, x)
           /\ nonce(w, js, x) = 0 => w.nonce[x] = 0 /\ ~Has(js, IncrementNonce(x))
<1> DEFINE In(s) == {i \in DOMAIN s : s[i] = IncrementNonce(x)}
           t == Append(js, e)
           a == Len(js) + 1
<1>1. /\ Len(js) \in Nat /\ DOMAIN js = 1..Len(js) /\ DOMAIN t = 1..a
      /\ (\A i \in 1..Len(js) : t[i] = js[i]) /\ t[a] = e
  BY EntryAppended
<1> HIDE DEF t
<1>2. IsFiniteSet(In(js)) /\ In(js) \subseteq 1..Len(js)
  <2>1. IsFiniteSet(1..Len(js))
    BY <1>1, FS_Interval
  <2> QED BY <1>1, <2>1, FS_Subset
<1>3. Cardinality(In(js)) \in Nat
  BY <1>2, FS_CardinalityType
<1>4. Cardinality(In(t)) = IF e = IncrementNonce(x) THEN Cardinality(In(js)) + 1
                           ELSE Cardinality(In(js))
  <2>1. CASE e = IncrementNonce(x)
    <3>1. In(t) = In(js) \cup {a} /\ a \notin In(js)
      BY <1>1, <1>2, <2>1
    <3> HIDE DEF In, a
    <3> QED BY <1>2, <2>1, <3>1, FS_AddElement
  <2>2. CASE e # IncrementNonce(x)
    <3>1. In(t) = In(js)
      BY <1>1, <2>2
    <3> QED BY <2>2, <3>1
  <2> QED BY <2>1, <2>2
<1>5. w.nonce[x] \in Nat
  BY DEF World
<1>6. /\ nonce(w, js, x) = w.nonce[x] + Cardinality(In(js))
      /\ nonce(w, t, x) = w.nonce[x] + Cardinality(In(t))
  BY DEF nonce
<1>7. nonce(w, << >>, x) = w.nonce[x]
  <2>1. In(<< >>) = {} /\ Cardinality({}) = 0
    BY FS_EmptySet
  <2> QED BY <1>5, <2>1 DEF nonce
<1>8. ASSUME Cardinality(In(js)) = 0 PROVE ~Has(js, IncrementNonce(x))
  <2>1. In(js) = {}
    BY <1>2, <1>8, FS_EmptySet
  <2> QED BY <1>1, <2>1 DEF Has
<1> HIDE DEF In
<1>9. nonce(w, js, x) = 0 => w.nonce[x] = 0 /\ Cardinality(In(js)) = 0
  BY <1>3, <1>5, <1>6
<1>10. nonce(w, js, x) \in Nat
  BY <1>3, <1>5, <1>6
<1>11. nonce(w, t, x) = IF e = IncrementNonce(x) THEN nonce(w, js, x) + 1 ELSE nonce(w, js, x)
  BY <1>3, <1>4, <1>5, <1>6
<1> QED BY <1>7, <1>8, <1>9, <1>10, <1>11 DEF t

LEMMA CodeAppend ==
    ASSUME NEW w \in World, NEW js \in Seq(Action), NEW e \in Action, NEW x \in Addresses
    PROVE  /\ ~Deploys(js, x) => code(w, js, x) = w.code[x]
           /\ Deploys(js, x) => code(w, Append(js, e), x) = code(w, js, x)
           /\ ~Deploys(js, x) =>
                 code(w, Append(js, e), x) =
                    IF e.op = "EvmSetCode" /\ e.address = x THEN e.code ELSE w.code[x]
<1> DEFINE In(s) == {i \in 1..Len(s) : s[i].op = "EvmSetCode" /\ s[i].address = x}
           t == Append(js, e)
           a == Len(js) + 1
<1>1. /\ Len(js) \in Nat /\ Len(t) = a
      /\ (\A i \in 1..Len(js) : t[i] = js[i]) /\ t[a] = e
  BY EntryAppended
<1> HIDE DEF t
<1>2. /\ CodeSetFirst(js, x) = IF In(js) # {} THEN Min(In(js)) ELSE 0
      /\ CodeSetFirst(t, x) = IF In(t) # {} THEN Min(In(t)) ELSE 0
  BY DEF CodeSetFirst, SelectInSeq
<1>3. In(js) \subseteq 1..Len(js) /\ In(js) \subseteq Nat /\ In(t) \subseteq Nat
  OBVIOUS
<1>4. Deploys(js, x) <=> In(js) # {}
  BY DEF Deploys
<1>5. CASE Deploys(js, x)
  <2>1. In(js) # {} /\ In(js) \subseteq In(t) /\ In(t) \subseteq In(js) \cup {a}
    BY <1>1, <1>4, <1>5
  <2>2. Min(In(js)) \in In(js) /\ \A y \in In(js) : Min(In(js)) <= y
    BY <1>3, <2>1, MinIsLeast
  <2>3. Min(In(t)) \in In(t) /\ \A y \in In(t) : Min(In(t)) <= y
    <3>1. In(t) # {}
      BY <2>1
    <3> QED BY <1>3, <3>1, MinIsLeast
  <2>4. Min(In(t)) = Min(In(js)) /\ Min(In(js)) \in 1..Len(js)
    <3> DEFINE m == Min(In(js))
               n == Min(In(t))
    <3>1. m \in In(t) /\ m \in 1..Len(js)
      BY <1>3, <2>1, <2>2
    <3>2. n <= m /\ n \in Nat
      BY <1>3, <2>3, <3>1
    <3>3. n \in In(t)
      BY <2>3
    <3>4. \A y \in In(js) : m <= y
      BY <2>2
    <3> HIDE DEF m, n
    <3>5. m <= n
      <4>1. n # a
        BY <1>1, <3>1, <3>2
      <4>2. n \in In(js)
        BY <2>1, <3>3, <4>1
      <4> QED BY <3>4, <4>2
    <3>6. m = n
      BY <3>1, <3>2, <3>5
    <3> QED BY <3>1, <3>6 DEF m, n
  <2>5. In(t) # {}
    BY <2>1
  <2> HIDE DEF In
  <2>6. CodeSetFirst(t, x) = CodeSetFirst(js, x) /\ CodeSetFirst(js, x) \in 1..Len(js)
    BY <1>2, <2>1, <2>4, <2>5
  <2>7. t[CodeSetFirst(t, x)] = js[CodeSetFirst(js, x)] /\ CodeSetFirst(js, x) # 0
    BY <1>1, <2>6
  <2> QED BY <1>5, <2>6, <2>7 DEF code, t
<1>6. CASE ~Deploys(js, x)
  <2>1. In(js) = {}
    BY <1>4, <1>6
  <2>2. code(w, js, x) = w.code[x]
    BY <1>2, <2>1 DEF code
  <2>3. CASE e.op = "EvmSetCode" /\ e.address = x
    <3>1. In(t) = {a}
      BY <1>1, <2>1, <2>3
    <3>2. Min(In(t)) = a
      <4>1. In(t) # {}
        BY <3>1
      <4>2. Min(In(t)) \in In(t)
        BY <1>3, <4>1, MinIsLeast
      <4> QED BY <3>1, <4>2
    <3> HIDE DEF In
    <3>3. CodeSetFirst(t, x) = a /\ a # 0
      BY <1>1, <1>2, <3>1, <3>2
    <3> QED BY <1>1, <1>6, <2>2, <2>3, <3>3 DEF code, t
  <2>4. CASE ~(e.op = "EvmSetCode" /\ e.address = x)
    <3>1. In(t) = {}
      BY <1>1, <2>1, <2>4
    <3> HIDE DEF In
    <3>2. CodeSetFirst(t, x) = 0
      BY <1>2, <3>1
    <3> QED BY <1>6, <2>2, <2>4, <3>2 DEF code, t
  <2> QED BY <2>3, <2>4
<1> QED BY <1>5, <1>6

LEMMA StorageNothing ==
    ASSUME NEW w, NEW x, NEW i
    PROVE  storage(w, << >>, x, i) = w.storage[x][i]
BY DEF storage, SelectLastInSeq

LEMMA StorageAppend ==
    ASSUME NEW E, NEW js \in Seq(E), NEW e \in E, NEW w, NEW x, NEW i
    PROVE  storage(w, Append(js, e), x, i) =
              IF WritesCell(e, x, i) THEN e.value ELSE storage(w, js, x, i)
<1> DEFINE In(s) == {k \in 1..Len(s) : WritesCell(s[k], x, i)}
           LastIn(s) == SelectLastInSeq(s, LAMBDA a : WritesCell(a, x, i))
           t == Append(js, e)
           n == Len(js) + 1
<1>1. /\ Len(js) \in Nat /\ Len(t) = n
      /\ (\A k \in 1..Len(js) : t[k] = js[k]) /\ t[n] = e
  BY EntryAppended
<1> HIDE DEF t
<1>3. /\ LastIn(js) = IF In(js) # {} THEN Max(In(js)) ELSE 0
      /\ LastIn(t) = IF In(t) # {} THEN Max(In(t)) ELSE 0
  BY DEF SelectLastInSeq
<1>4. /\ storage(w, js, x, i) =
            IF LastIn(js) = 0 THEN w.storage[x][i] ELSE js[LastIn(js)].value
      /\ storage(w, t, x, i) =
            IF LastIn(t) = 0 THEN w.storage[x][i] ELSE t[LastIn(t)].value
  BY DEF storage
<1> HIDE DEF LastIn
<1>5. CASE WritesCell(e, x, i)
  <2>1. n \in In(t) /\ In(t) \subseteq 1..n /\ n \in Nat
    BY <1>1, <1>5
  <2>2. Max(In(t)) \in In(t) /\ Max(In(t)) >= n
    <3>1. In(t) # {}
      BY <2>1
    <3> QED BY <2>1, <3>1, MaxIsLargest
  <2>3. Max(In(t)) = n
    BY <2>1, <2>2
  <2> HIDE DEF In
  <2>4. LastIn(t) = n /\ n # 0
    BY <1>1, <1>3, <2>1, <2>3
  <2> QED BY <1>1, <1>4, <1>5, <2>4 DEF t
<1>6. CASE ~WritesCell(e, x, i)
  <2>1. In(t) = In(js) /\ In(js) \subseteq 1..Len(js)
    BY <1>1, <1>6
  <2>2. In(js) # {} => Max(In(js)) \in 1..Len(js)
    BY <1>1, <2>1, MaxIsLargest
  <2> HIDE DEF In
  <2>3. LastIn(t) = LastIn(js) /\ LastIn(js) \in 0..Len(js)
    BY <1>1, <1>3, <2>1, <2>2
  <2> QED BY <1>1, <1>4, <1>6, <2>3 DEF t
<1> QED BY <1>5, <1>6

-----------------------------------------------------------------------------
(* Journals as the machine writes them *)

FromPool(e) == e.op = "TokenTransfer" /\ e.from = Pool

\* No transfer out of the pool waits for the withdrawal that goes with it.
Settled(js) == Len(js) = 0 \/ ~FromPool(js[Len(js)])

\* The address x is in use in the accounts w with the journal js.
Used(w, js, x) ==
    \/ w.nonce[x] # 0 \/ w.code[x] # NoCode
    \/ Has(js, IncrementNonce(x))

\* The entry e may follow the journal js: what it takes is there; cells are
\* written of addresses in use; code is set once, of an address that was created
\* before; what leaves the pool is withdrawn at once.
Fits(w, js, e) ==
    /\ e.op = "NeonTransfer" =>
          e.source # e.target /\ balance(w, js, e.source) >= e.value
    /\ e.op = "NeonWithdraw" =>
          /\ balance(w, js, e.source) >= e.value
          /\ ~Settled(js) /\ js[Len(js)].value = e.value
    /\ ~Settled(js) => e.op = "NeonWithdraw"
    /\ e.op = "EvmSetStorage" => Used(w, js, e.address)
    /\ e.op = "EvmSetCode" =>
          /\ w.code[e.address] = NoCode
          /\ Has(js, IncrementNonce(e.address)) /\ ~Deploys(js, e.address)
    /\ e.op = "TokenCreate" => e.key # Pool
    /\ e.op = "TokenTransfer" => e.to # Pool

Legal(w, js) ==
    /\ js \in Seq(Action)
    /\ \A k \in 1..Len(js) : Fits(w, SubSeq(js, 1, k - 1), js[k])

\* js is the beginning of t.
Begins(js, t) == Len(js) <= Len(t) /\ SubSeq(t, 1, Len(js)) = js

LEMMA PrefixFacts ==
    ASSUME NEW E, NEW js \in Seq(E)
    PROVE  /\ Len(js) \in Nat
           /\ SubSeq(js, 1, 0) = << >> /\ SubSeq(js, 1, Len(js)) = js
           /\ \A n \in 0..Len(js) :
                 /\ SubSeq(js, 1, n) \in Seq(E) /\ Len(SubSeq(js, 1, n)) = n
                 /\ \A i \in 1..n : SubSeq(js, 1, n)[i] = js[i] /\ js[i] \in E
                 /\ \A k \in 0..n : SubSeq(SubSeq(js, 1, n), 1, k) = SubSeq(js, 1, k)
           /\ \A n \in 1..Len(js) :
                 SubSeq(js, 1, n) = Append(SubSeq(js, 1, n - 1), js[n])
<1>1. IsSeq(js) /\ Len(js) \in Nat /\ SubSeq(js, 1, Len(js)) = js
  BY IsSeqIntro, SubSeqFull
<1>2. SubSeq(js, 1, 0) = << >>
  BY SubSeqEmpty, <1>1
<1>3. ASSUME NEW n \in 0..Len(js)
      PROVE  /\ SubSeq(js, 1, n) \in Seq(E) /\ Len(SubSeq(js, 1, n)) = n
             /\ \A i \in 1..n : SubSeq(js, 1, n)[i] = js[i] /\ js[i] \in E
             /\ \A k \in 0..n : SubSeq(SubSeq(js, 1, n), 1, k) = SubSeq(js, 1, k)
  <2>1. \A i \in 1..n : js[i] \in E
    BY <1>1
  <2>2. SubSeq(js, 1, n) \in Seq(E)
    BY <1>1, <2>1, SubSeqProperties
  <2> QED BY <1>1, <2>1, <2>2, CutFacts
<1>4. ASSUME NEW n \in 1..Len(js)
      PROVE  SubSeq(js, 1, n) = Append(SubSeq(js, 1, n - 1), js[n])
  <2> DEFINE p == SubSeq(js, 1, n - 1)
             q == SubSeq(js, 1, n)
  <2>0. n - 1 \in 0..Len(js) /\ n \in 0..Len(js) /\ n \in 1..n /\ js[n] \in E
    BY <1>1
  <2>1. p \in Seq(E) /\ Len(p) = n - 1 /\ \A i \in 1..(n - 1) : p[i] = js[i]
    BY <1>3, <2>0
  <2>2. q \in Seq(E) /\ Len(q) = n /\ \A i \in 1..n : q[i] = js[i]
    BY <1>3, <2>0
  <2> HIDE DEF p, q
  <2>3. /\ Append(p, js[n]) \in Seq(E) /\ Len(Append(p, js[n])) = n
        /\ (\A i \in 1..(n - 1) : Append(p, js[n])[i] = p[i]) /\ Append(p, js[n])[n] = js[n]
    BY <2>0, <2>1, EntryAppended
  <2>4. q = Append(p, js[n])
    BY <2>1, <2>2, <2>3, SeqEqual
  <2> QED BY <2>4 DEF p, q
<1> QED BY <1>1, <1>2, <1>3, <1>4

LEMMA LegalNone ==
    ASSUME NEW w
    PROVE  Legal(w, << >>) /\ Settled(<< >>)
BY DEF Legal, Settled

LEMMA LegalCut ==
    ASSUME NEW w, NEW js, Legal(w, js), NEW n \in 0..Len(js)
    PROVE  Legal(w, SubSeq(js, 1, n))
<1> DEFINE p == SubSeq(js, 1, n)
<1>1. js \in Seq(Action) /\ \A k \in 1..Len(js) : Fits(w, SubSeq(js, 1, k - 1), js[k])
  BY DEF Legal
<1>2. /\ Len(js) \in Nat /\ p \in Seq(Action) /\ Len(p) = n
      /\ \A i \in 1..n : p[i] = js[i]
      /\ \A k \in 0..n : SubSeq(p, 1, k) = SubSeq(js, 1, k)
  BY <1>1, PrefixFacts
<1> HIDE DEF p
<1>3. ASSUME NEW k \in 1..n PROVE Fits(w, SubSeq(p, 1, k - 1), p[k])
  <2>1. k \in 1..Len(js) /\ k - 1 \in 0..n
    BY <1>2
  <2> QED BY <1>1, <1>2, <2>1
<1>4. Legal(w, p)
  BY <1>2, <1>3 DEF Legal
<1> QED BY <1>4 DEF p

LEMMA LegalAppend ==
    ASSUME NEW w, NEW js, Legal(w, js), NEW e \in Action, Fits(w, js, e)
    PROVE  Legal(w, Append(js, e)) /\ Begins(js, Append(js, e))
<1> DEFINE t == Append(js, e)
           n == Len(js)
<1>1. js \in Seq(Action) /\ \A k \in 1..n : Fits(w, SubSeq(js, 1, k - 1), js[k])
  BY DEF Legal
<1>2. /\ n \in Nat /\ t \in Seq(Action) /\ Len(t) = n + 1
      /\ (\A i \in 1..n : t[i] = js[i]) /\ t[n + 1] = e
  BY <1>1, EntryAppended
<1>3. \A k \in 0..n : SubSeq(t, 1, k) = SubSeq(js, 1, k)
  <2>1. t = js \o <<e>> /\ IsSeq(js) /\ IsSeq(<<e>>)
    BY <1>1, AppendOne, OneIsSeq, IsSeqIntro
  <2> HIDE DEF t
  <2> QED BY <2>1, ConcatFacts
<1>4. SubSeq(js, 1, n) = js
  BY <1>1, PrefixFacts
<1> HIDE DEF t
<1>5. ASSUME NEW k \in 1..(n + 1) PROVE Fits(w, SubSeq(t, 1, k - 1), t[k])
  <2>1. CASE k = n + 1
    <3>1. k - 1 = n /\ n \in 0..n
      BY <1>2, <2>1
    <3>2. SubSeq(t, 1, k - 1) = js /\ t[k] = e
      BY <1>2, <1>3, <1>4, <2>1, <3>1
    <3> QED BY <3>2
  <2>2. CASE k # n + 1
    <3>1. k \in 1..n /\ k - 1 \in 0..n
      BY <1>2, <2>2
    <3> QED BY <1>1, <1>2, <1>3, <3>1
  <2> QED BY <2>1, <2>2
<1>6. Legal(w, t)
  BY <1>2, <1>5 DEF Legal
<1>7. Begins(js, t)
  BY <1>2, <1>3, <1>4 DEF Begins
<1> QED BY <1>6, <1>7 DEF t

LEMMA HasAppend ==
    ASSUME NEW js \in Seq(Action), NEW e \in Action, NEW a, NEW x
    PROVE  /\ Has(Append(js, e), a) <=> Has(js, a) \/ e = a
           /\ Deploys(Append(js, e), x) <=>
                 Deploys(js, x) \/ (e.op = "EvmSetCode" /\ e.address = x)
<1> DEFINE t == Append(js, e)
           n == Len(js)
<1>1. /\ n \in Nat /\ Len(t) = n + 1
      /\ (\A i \in 1..n : t[i] = js[i]) /\ t[n + 1] = e
  BY EntryAppended
<1> HIDE DEF t
<1>2. /\ Has(t, a) <=> Has(js, a) \/ e = a
      /\ Deploys(t, x) <=> Deploys(js, x) \/ (e.op = "EvmSetCode" /\ e.address = x)
  BY <1>1 DEF Has, Deploys
<1> QED BY <1>2 DEF t

\* What a beginning of the journal has, the journal has.
LEMMA HasPrefix ==
    ASSUME NEW E, NEW js \in Seq(E), NEW n \in 0..Len(js), NEW a
    PROVE  Has(SubSeq(js, 1, n), a) <=> \E j \in 1..n : js[j] = a
BY PrefixFacts DEF Has

LEMMA UsedLater ==
    ASSUME NEW w, NEW js \in Seq(Action), NEW m \in 0..Len(js), NEW n \in m..Len(js),
           NEW x
    PROVE  /\ Used(w, SubSeq(js, 1, m), x) => Used(w, SubSeq(js, 1, n), x)
           /\ Has(SubSeq(js, 1, m), x) => Has(SubSeq(js, 1, n), x)
<1>1. n \in 0..Len(js) /\ Len(js) \in Nat /\ 1..m \subseteq 1..n
  OBVIOUS
<1>2. \A a : Has(SubSeq(js, 1, m), a) => Has(SubSeq(js, 1, n), a)
  BY <1>1, HasPrefix
<1> QED BY <1>2 DEF Used

\* No beginning of a legal journal overdraws a balance.
LEMMA LegalCovered ==
    ASSUME NEW w \in World, NEW js, Legal(w, js), NEW x \in Addresses
    PROVE  balance(w, js, x) \in Nat
<1> DEFINE p(k) == SubSeq(js, 1, k)
           T == {k \in Nat : k <= Len(js) => balance(w, p(k), x) >= 0}
<1>1. js \in Seq(Action) /\ Len(js) \in Nat
  BY DEF Legal
<1>2. 0 \in T
  <2>1. p(0) = << >> /\ << >> \in Seq(Action)
    BY <1>1, PrefixFacts
  <2>2. balance(w, << >>, x) = w.balance[x] /\ w.balance[x] \in Nat
    <3>1. \E e \in Action : TRUE
      <4>1. IncrementNonce(x) \in Action
        BY DEF IncrementNonce, Action
      <4> QED BY <4>1
    <3> QED BY <2>1, <3>1, BalanceAppend DEF World
  <2>3. balance(w, p(0), x) = w.balance[x]
    BY <2>1, <2>2
  <2> HIDE DEF p
  <2> QED BY <2>2, <2>3
<1>3. ASSUME NEW j \in Nat, j \in T PROVE j + 1 \in T
  <2> DEFINE k == j + 1
             e == js[k]
  <2> SUFFICES ASSUME k <= Len(js) PROVE balance(w, p(k), x) >= 0
    OBVIOUS
  <2>1. k \in 1..Len(js) /\ k - 1 = j /\ j \in 0..Len(js) /\ e \in Action
    BY <1>1
  <2>2. p(j) \in Seq(Action) /\ p(k) = Append(p(j), e)
    BY <1>1, <2>1, PrefixFacts
  <2>3. Fits(w, p(j), e)
    BY <2>1 DEF Legal
  <2>4. balance(w, p(j), x) >= 0
    BY <1>3, <2>1
  <2> HIDE DEF p, e, k
  <2>5. /\ balance(w, p(k), x) = balance(w, p(j), x) + Credit(e, x) - Debit(e, x)
        /\ balance(w, p(j), x) \in Int /\ Credit(e, x) \in Nat /\ Debit(e, x) \in Nat
    BY <2>1, <2>2, BalanceAppend
  <2>6. Debit(e, x) <= balance(w, p(j), x)
    BY <2>1, <2>3, <2>4, ActionTypes DEF Fits, Debit
  <2> QED BY <2>5, <2>6
<1> HIDE DEF T
<1>4. Len(js) \in T
  BY <1>1, <1>2, <1>3, NumberInduction
<1>5. p(Len(js)) = js
  BY <1>1, PrefixFacts
<1>6. balance(w, js, x) >= 0
  <2>1. balance(w, p(Len(js)), x) >= 0
    <3> HIDE DEF p
    <3> QED BY <1>1, <1>4 DEF T
  <2> HIDE DEF p
  <2> QED BY <1>5, <2>1
<1>7. balance(w, js, x) \in Int
  <2>1. IncrementNonce(x) \in Action
    BY DEF IncrementNonce, Action
  <2> QED BY <1>1, <2>1, BalanceAppend
<1> QED BY <1>6, <1>7

LEMMA LegalDeploys ==
    ASSUME NEW w, NEW js, Legal(w, js), NEW x, Deploys(js, x)
    PROVE  w.code[x] = NoCode /\ Has(js, IncrementNonce(x))
<1>1. js \in Seq(Action) /\ Len(js) \in Nat
  BY DEF Legal
<1>2. PICK k \in 1..Len(js) : js[k].op = "EvmSetCode" /\ js[k].address = x
  BY DEF Deploys
<1>3. Fits(w, SubSeq(js, 1, k - 1), js[k])
  BY DEF Legal
<1>4. w.code[x] = NoCode /\ Has(SubSeq(js, 1, k - 1), IncrementNonce(x))
  BY <1>2, <1>3 DEF Fits
<1>5. k - 1 \in 0..Len(js) /\ Len(js) \in (k - 1)..Len(js) /\ SubSeq(js, 1, Len(js)) = js
  BY <1>1, PrefixFacts
<1>6. \E j \in 1..(k - 1) : js[j] = IncrementNonce(x)
  BY <1>1, <1>4, <1>5, HasPrefix
<1> QED BY <1>1, <1>4, <1>6 DEF Has

\* What a contract with code is, and an address free to be created, in terms of
\* the reads
LEMMA LegalUsed ==
    ASSUME NEW w \in World, NEW js, Legal(w, js), NEW x \in Addresses
    PROVE  /\ code(w, js, x) # NoCode => Used(w, js, x)
           /\ nonce(w, js, x) = 0 /\ code(w, js, x) = NoCode => ~Used(w, js, x)
<1>1. js \in Seq(Action) /\ IncrementNonce(x) \in Action
  BY DEF Legal, Action, IncrementNonce
<1>2. ~Deploys(js, x) => code(w, js, x) = w.code[x]
  BY <1>1, CodeAppend
<1>3. nonce(w, js, x) = 0 => w.nonce[x] = 0 /\ ~Has(js, IncrementNonce(x))
  BY <1>1, NonceAppend
<1>4. Deploys(js, x) => Has(js, IncrementNonce(x))
  BY LegalDeploys
<1> QED BY <1>2, <1>3, <1>4 DEF Used

\* Nothing is written of an address that is not in use; this says so of any
\* accounts w, whatever accounts u the entries fit.
LEMMA LegalUnwritten ==
    ASSUME NEW u, NEW js, Legal(u, js), NEW x, ~Used(u, js, x), NEW i, NEW w
    PROVE  storage(w, js, x, i) = w.storage[x][i]
<1>1. js \in Seq(Action) /\ Len(js) \in Nat
  BY DEF Legal
<1>2. ASSUME NEW k \in 1..Len(js), WritesCell(js[k], x, i) PROVE FALSE
  <2>1. Used(u, SubSeq(js, 1, k - 1), x)
    BY <1>2 DEF Legal, Fits, WritesCell
  <2>2. k - 1 \in 0..Len(js) /\ Len(js) \in (k - 1)..Len(js) /\ SubSeq(js, 1, Len(js)) = js
    BY <1>1, PrefixFacts
  <2>3. Used(u, js, x)
    <3>1. Used(u, SubSeq(js, 1, Len(js)), x)
      BY <1>1, <2>1, <2>2, UsedLater
    <3> QED BY <2>2, <3>1
  <2> QED BY <2>3
<1> QED BY <1>2 DEF storage, SelectLastInSeq

\* js has grown to t, without deploying anything.
Grown(w, js, t) ==
    /\ Legal(w, t) /\ Begins(js, t)
    /\ \A x : Deploys(t, x) => Deploys(js, x)

LEMMA GrownNot ==
    ASSUME NEW w, NEW js, Legal(w, js)
    PROVE  Grown(w, js, js)
BY PrefixFacts DEF Grown, Begins, Legal

LEMMA GrownOne ==
    ASSUME NEW w, NEW js, Legal(w, js), NEW e \in Action, Fits(w, js, e),
           e.op # "EvmSetCode"
    PROVE  Grown(w, js, Append(js, e))
<1>1. js \in Seq(Action)
  BY DEF Legal
<1>2. \A x : Deploys(Append(js, e), x) => Deploys(js, x)
  BY <1>1, HasAppend
<1> QED BY <1>2, LegalAppend DEF Grown

LEMMA BeginsTrans ==
    ASSUME NEW E, NEW r \in Seq(E), NEW s \in Seq(E), NEW t \in Seq(E),
           Begins(r, s), Begins(s, t)
    PROVE  Begins(r, t)
<1>1. Len(r) \in 0..Len(s) /\ Len(s) \in 0..Len(t)
  BY DEF Begins
<1>2. SubSeq(SubSeq(t, 1, Len(s)), 1, Len(r)) = SubSeq(t, 1, Len(r))
  BY <1>1, PrefixFacts
<1> QED BY <1>1, <1>2 DEF Begins

LEMMA GrownMore ==
    ASSUME NEW w, NEW js, Legal(w, js), NEW s, Grown(w, js, s),
           NEW e \in Action, Fits(w, s, e), e.op # "EvmSetCode"
    PROVE  Grown(w, js, Append(s, e))
<1> DEFINE t == Append(s, e)
<1>1. Grown(w, s, t)
  BY GrownOne DEF Grown
<1> HIDE DEF t
<1>2. js \in Seq(Action) /\ s \in Seq(Action) /\ t \in Seq(Action)
  BY <1>1 DEF Grown, Legal
<1>3. Begins(js, t)
  BY <1>1, <1>2, BeginsTrans DEF Grown
<1>4. Grown(w, js, t)
  BY <1>1, <1>3 DEF Grown
<1> QED BY <1>4 DEF t

\* What a transfer adds, of a value that is there
LEMMA GrownTransfer ==
    ASSUME NEW w \in World, NEW js, Legal(w, js), NEW s, Grown(w, js, s), Settled(s),
           NEW x \in Addresses, NEW y \in Addresses, NEW v \in Nat,
           balance(w, s, x) >= v
    PROVE  /\ Grown(w, js, s \o Transfer(x, y, v)) /\ Settled(s \o Transfer(x, y, v))
           /\ balance(w, s \o Transfer(x, y, v), y) >= v
           /\ \A a : Has(s, a) => Has(s \o Transfer(x, y, v), a)
<1>1. s \in Seq(Action) /\ IsSeq(s)
  BY IsSeqIntro DEF Grown, Legal
<1>2. CASE v = 0 \/ x = y
  <2>1. s \o Transfer(x, y, v) = s
    BY <1>1, <1>2, NothingAdded DEF Transfer
  <2>2. balance(w, s, y) >= v
    BY <1>2, LegalCovered DEF Grown
  <2> QED BY <2>1, <2>2
<1>3. CASE v # 0 /\ x # y
  <2> DEFINE e == [op |-> "NeonTransfer", source |-> x, target |-> y, value |-> v]
             t == Append(s, e)
  <2>1. /\ e \in Action /\ e.op = "NeonTransfer" /\ e.source = x /\ e.target = y
        /\ e.value = v
    <3>1. v \in Nat \ {0}
      BY <1>3
    <3> QED BY <3>1 DEF Action
  <2>2. s \o Transfer(x, y, v) = t
    BY <1>1, <1>3, AppendOne DEF Transfer
  <2> HIDE DEF e
  <2>3. Fits(w, s, e)
    BY <1>3, <2>1 DEF Fits
  <2>4. Grown(w, js, t)
    BY <2>1, <2>3, GrownMore
  <2>5. Settled(t)
    BY <1>1, <2>1, EntryAppended DEF Settled, FromPool
  <2>6. balance(w, t, y) >= v
    <3>1. balance(w, t, y) = balance(w, s, y) + Credit(e, y) - Debit(e, y)
      BY <1>1, <2>1, BalanceAppend
    <3>2. balance(w, s, y) \in Nat
      BY LegalCovered DEF Grown
    <3>3. Credit(e, y) = v /\ Debit(e, y) = 0
      BY <1>3, <2>1 DEF Credit, Debit
    <3> HIDE DEF t
    <3> QED BY <3>1, <3>2, <3>3
  <2>7. \A a : Has(s, a) => Has(t, a)
    BY <1>1, <2>1, HasAppend
  <2> HIDE DEF t
  <2> QED BY <2>2, <2>4, <2>5, <2>6, <2>7
<1> QED BY <1>2, <1>3

-----------------------------------------------------------------------------
(* The frames *)

\* The journal when the frame d last ran
Reached(js, ss, d) == SubSeq(js, 1, IF d < Len(ss) THEN ss[d + 1] ELSE Len(js))

\* The frame found its address unused, has used it, and has not set its code.
Creating(w, before, reached, js, x) ==
    /\ ~Used(w, before, x)
    /\ Has(reached, IncrementNonce(x)) /\ ~Deploys(js, x)

\* Frames that run have an address in use; those that create a contract are
\* alone with it.
Entitled(w, js, ss, fs) ==
    \A d \in 1..Len(fs) :
        /\ fs[d].runs => Used(w, Reached(js, ss, d), fs[d].contract)
        /\ fs[d].reason = "Create" =>
              Creating(w, SubSeq(js, 1, ss[d]), Reached(js, ss, d), js, fs[d].contract)

Machine(w, js, ss, fs) ==
    /\ Legal(w, js) /\ Settled(js)
    /\ \A d \in 1..Len(ss) : Settled(SubSeq(js, 1, ss[d]))
    /\ Entitled(w, js, ss, fs)

\* Where the frames' parts of the journal end
LEMMA Ends ==
    ASSUME NEW w, NEW js, NEW ss, NEW fs, NEW vs,
           Shape(w, js, ss, fs, vs), js \in Seq(Action)
    PROVE  /\ Len(ss) \in Nat /\ Len(fs) = Len(ss) /\ Len(js) \in Nat
           /\ ss \in Seq(Nat) /\ fs \in Seq(Frame)
           /\ \A d \in 1..Len(ss) : ss[d] \in 1..Len(js) /\ ss[d] \in 0..Len(js)
           /\ \A d \in 1..Len(ss) : d < Len(ss) =>
                 /\ d + 1 \in 1..Len(ss) /\ ss[d + 1] \in 1..Len(js)
                 /\ Reached(js, ss, d) = SubSeq(js, 1, ss[d + 1])
           /\ \A d \in 1..Len(ss) : ~(d < Len(ss)) => d = Len(ss) /\ Reached(js, ss, d) = js
BY PrefixFacts DEF Shape, Reached

LEMMA BeginsPrefix ==
    ASSUME NEW E, NEW js \in Seq(E), NEW t \in Seq(E), Begins(js, t)
    PROVE  /\ \A n \in 0..Len(js) : SubSeq(t, 1, n) = SubSeq(js, 1, n)
           /\ \A a : Has(js, a) => Has(t, a)
           /\ \A w, x : Used(w, js, x) => Used(w, t, x)
<1>1. /\ Len(js) \in 0..Len(t) /\ SubSeq(t, 1, Len(js)) = js /\ Len(t) \in Nat
      /\ SubSeq(t, 1, Len(t)) = t
  BY PrefixFacts DEF Begins
<1>2. \A n \in 0..Len(js) : SubSeq(t, 1, n) = SubSeq(js, 1, n)
  BY <1>1, PrefixFacts
<1>3. ASSUME NEW a, Has(js, a) PROVE Has(t, a)
  <2>1. \A j \in 1..Len(js) : t[j] = js[j]
    BY <1>1, PrefixFacts
  <2>2. 1..Len(js) \subseteq 1..Len(t)
    BY <1>1
  <2> QED BY <1>3, <2>1, <2>2 DEF Has
<1> QED BY <1>2, <1>3 DEF Used

\* The journal grows while the frames stay.
LEMMA MachineGrown ==
    ASSUME NEW w, NEW js, NEW ss, NEW fs, NEW vs, Shape(w, js, ss, fs, vs),
           Machine(w, js, ss, fs), NEW t, Grown(w, js, t), Settled(t)
    PROVE  Machine(w, t, ss, fs)
<1>1. js \in Seq(Action) /\ t \in Seq(Action) /\ Begins(js, t) /\ Legal(w, t)
  BY DEF Machine, Grown, Legal
<1>2. \A n \in 0..Len(js) : SubSeq(t, 1, n) = SubSeq(js, 1, n)
  BY <1>1, BeginsPrefix
<1>3. Len(ss) \in Nat /\ Len(fs) = Len(ss) /\ \A d \in 1..Len(ss) : ss[d] \in 0..Len(js)
  BY <1>1, Ends
<1>4. \A d \in 1..Len(ss) : Settled(SubSeq(t, 1, ss[d]))
  BY <1>2, <1>3 DEF Machine
<1>5. ASSUME NEW d \in 1..Len(ss)
      PROVE  /\ SubSeq(t, 1, ss[d]) = SubSeq(js, 1, ss[d])
             /\ \A a : Has(Reached(js, ss, d), a) => Has(Reached(t, ss, d), a)
             /\ \A x : Used(w, Reached(js, ss, d), x) => Used(w, Reached(t, ss, d), x)
  <2>1. CASE d < Len(ss)
    <3>1. Reached(t, ss, d) = Reached(js, ss, d)
      BY <1>1, <1>2, <2>1, Ends DEF Reached
    <3> QED BY <1>2, <1>3, <3>1
  <2>2. CASE ~(d < Len(ss))
    <3>1. Reached(t, ss, d) = t /\ Reached(js, ss, d) = js
      BY <1>1, <2>2, PrefixFacts DEF Reached
    <3> QED BY <1>1, <1>2, <1>3, <3>1, BeginsPrefix
  <2> QED BY <2>1, <2>2
<1>6. Entitled(w, t, ss, fs)
  <2> SUFFICES ASSUME NEW d \in 1..Len(fs)
               PROVE  /\ fs[d].runs => Used(w, Reached(t, ss, d), fs[d].contract)
                      /\ fs[d].reason = "Create" =>
                            Creating(w, SubSeq(t, 1, ss[d]), Reached(t, ss, d), t,
                                     fs[d].contract)
    BY DEF Entitled
  <2>1. /\ fs[d].runs => Used(w, Reached(js, ss, d), fs[d].contract)
        /\ fs[d].reason = "Create" =>
              Creating(w, SubSeq(js, 1, ss[d]), Reached(js, ss, d), js, fs[d].contract)
    BY DEF Machine, Entitled
  <2>2. d \in 1..Len(ss) /\ \A x : Deploys(t, x) => Deploys(js, x)
    BY <1>3 DEF Grown
  <2> QED BY <1>5, <2>1, <2>2 DEF Creating
<1> QED BY <1>1, <1>4, <1>6 DEF Machine

\* A frame is entered, with its snapshot at js; then the journal grows to t.
LEMMA MachineEntered ==
    ASSUME NEW w, NEW js, NEW ss, NEW fs, NEW vs, Shape(w, js, ss, fs, vs),
           Machine(w, js, ss, fs), NEW t, Grown(w, js, t), Settled(t),
           NEW f \in Frame, f.runs => Used(w, t, f.contract),
           f.reason = "Create" => Creating(w, js, t, t, f.contract)
    PROVE  Machine(w, t, Append(ss, Len(js)), Append(fs, f))
<1> DEFINE s2 == Append(ss, Len(js))
           f2 == Append(fs, f)
           n == Len(ss)
<1>1. js \in Seq(Action) /\ t \in Seq(Action) /\ Begins(js, t) /\ Legal(w, t)
  BY DEF Machine, Grown, Legal
<1>2. /\ SubSeq(t, 1, Len(js)) = js /\ SubSeq(t, 1, Len(t)) = t
      /\ \A k \in 0..Len(js) : SubSeq(t, 1, k) = SubSeq(js, 1, k)
  BY <1>1, BeginsPrefix, PrefixFacts DEF Begins
<1>3. /\ n \in Nat /\ Len(fs) = n /\ ss \in Seq(Nat) /\ fs \in Seq(Frame)
      /\ Len(js) \in Nat /\ \A d \in 1..n : ss[d] \in 0..Len(js)
  BY <1>1, Ends
<1>4. /\ Len(s2) = n + 1 /\ Len(f2) = n + 1
      /\ \A d \in 1..n : s2[d] = ss[d] /\ f2[d] = fs[d]
      /\ s2[n + 1] = Len(js) /\ f2[n + 1] = f
  BY <1>3
<1> HIDE DEF s2, f2
<1>5. \A d \in 1..(n + 1) : Settled(SubSeq(t, 1, s2[d]))
  <2> SUFFICES ASSUME NEW d \in 1..(n + 1) PROVE Settled(SubSeq(t, 1, s2[d]))
    OBVIOUS
  <2>1. CASE d = n + 1
    BY <1>2, <1>4, <2>1 DEF Machine
  <2>2. CASE d # n + 1
    <3>1. d \in 1..n
      BY <1>3, <2>2
    <3> QED BY <1>2, <1>3, <1>4, <3>1 DEF Machine
  <2> QED BY <2>1, <2>2
<1>6. ASSUME NEW d \in 1..n PROVE Reached(t, s2, d) = Reached(js, ss, d)
  <2>1. CASE d < n
    <3>1. d + 1 \in 1..n /\ d < n + 1
      BY <1>3, <2>1
    <3> QED BY <1>2, <1>3, <1>4, <2>1, <3>1 DEF Reached
  <2>2. CASE ~(d < n)
    <3>1. d = n /\ n < n + 1
      BY <1>3, <2>2
    <3>2. Reached(js, ss, d) = js
      BY <1>1, <2>2, PrefixFacts DEF Reached
    <3> QED BY <1>2, <1>4, <3>1, <3>2 DEF Reached
  <2> QED BY <2>1, <2>2
<1>7. Reached(t, s2, n + 1) = t
  BY <1>2, <1>3, <1>4 DEF Reached
<1>8. Entitled(w, t, s2, f2)
  <2> SUFFICES ASSUME NEW d \in 1..(n + 1)
               PROVE  /\ f2[d].runs => Used(w, Reached(t, s2, d), f2[d].contract)
                      /\ f2[d].reason = "Create" =>
                            Creating(w, SubSeq(t, 1, s2[d]), Reached(t, s2, d), t,
                                     f2[d].contract)
    BY <1>4 DEF Entitled
  <2>1. CASE d = n + 1
    BY <1>2, <1>4, <1>7, <2>1
  <2>2. CASE d # n + 1
    <3>1. d \in 1..n /\ f2[d] = fs[d] /\ s2[d] = ss[d]
      BY <1>3, <1>4, <2>2
    <3>2. /\ fs[d].runs => Used(w, Reached(js, ss, d), fs[d].contract)
          /\ fs[d].reason = "Create" =>
                Creating(w, SubSeq(js, 1, ss[d]), Reached(js, ss, d), js, fs[d].contract)
      BY <1>3, <3>1 DEF Machine, Entitled
    <3>3. Reached(t, s2, d) = Reached(js, ss, d) /\ SubSeq(t, 1, ss[d]) = SubSeq(js, 1, ss[d])
      BY <1>2, <1>3, <1>6, <3>1
    <3>4. \A x : Deploys(t, x) => Deploys(js, x)
      BY DEF Grown
    <3> QED BY <3>1, <3>2, <3>3, <3>4 DEF Creating
  <2> QED BY <2>1, <2>2
<1>9. Machine(w, t, s2, f2)
  BY <1>1, <1>4, <1>5, <1>8 DEF Machine
<1> QED BY <1>9 DEF s2, f2

\* The last frame is left, with the journal t, which is as it was up to the
\* frame's snapshot.
LEMMA MachineLeft ==
    ASSUME NEW w, NEW js, NEW ss, NEW fs, NEW vs, Shape(w, js, ss, fs, vs),
           Machine(w, js, ss, fs), Len(ss) > 0,
           NEW t, Legal(w, t), Settled(t), Begins(SubSeq(js, 1, Last(ss)), t),
           \A d \in 1..(Len(ss) - 1) :
              fs[d].reason = "Create" => ~Deploys(t, fs[d].contract)
    PROVE  Machine(w, t, Front(ss), Front(fs))
<1> DEFINE n == Len(ss)
           m == n - 1
           p == SubSeq(js, 1, ss[n])
           s2 == Front(ss)
           f2 == Front(fs)
<1>1. js \in Seq(Action) /\ t \in Seq(Action)
  BY DEF Machine, Legal
<1>2. /\ n \in Nat /\ m \in Nat /\ n = m + 1 /\ Len(fs) = n /\ Len(js) \in Nat
      /\ ss \in Seq(Nat) /\ fs \in Seq(Frame)
      /\ \A d \in 1..n : ss[d] \in 0..Len(js)
  BY <1>1, Ends
<1>3. \A d \in 1..n : ss[d] \in 0..ss[n]
  <2>1. \A d, e \in 1..n : d <= e => ss[d] <= ss[e]
    BY DEF Shape
  <2>2. n \in 1..n
    BY <1>2
  <2> QED BY <1>2, <2>1, <2>2
<1>4. /\ Len(s2) = m /\ Len(f2) = m
      /\ \A d \in 1..m : s2[d] = ss[d] /\ f2[d] = fs[d]
  BY <1>2, SubSeqProperties DEF Front
<1>5. p \in Seq(Action) /\ Len(p) = ss[n] /\ Begins(p, t)
      /\ \A k \in 0..ss[n] : SubSeq(p, 1, k) = SubSeq(js, 1, k)
  <2>1. n \in 1..n /\ Last(ss) = ss[n]
    BY <1>2 DEF Last
  <2> QED BY <1>1, <1>2, <2>1, PrefixFacts
<1> HIDE DEF p, s2, f2
<1>6. \A k \in 0..ss[n] : SubSeq(t, 1, k) = SubSeq(js, 1, k)
  <2>1. \A k \in 0..ss[n] : SubSeq(t, 1, k) = SubSeq(p, 1, k)
    BY <1>1, <1>5, BeginsPrefix
  <2> QED BY <1>5, <2>1
<1>7. \A d \in 1..m : Settled(SubSeq(t, 1, s2[d]))
  <2> TAKE d \in 1..m
  <2>1. d \in 1..n
    BY <1>2
  <2> QED BY <1>3, <1>4, <1>6, <2>1 DEF Machine
<1>8. ASSUME NEW d \in 1..m
      PROVE  /\ \A a : Has(Reached(js, ss, d), a) => Has(Reached(t, s2, d), a)
             /\ \A x : Used(w, Reached(js, ss, d), x) => Used(w, Reached(t, s2, d), x)
  <2>1. d \in 1..n /\ d < n /\ d + 1 \in 1..n
    BY <1>2
  <2>2. Reached(js, ss, d) = SubSeq(js, 1, ss[d + 1])
    BY <2>1 DEF Reached
  <2>3. CASE d < m
    <3>1. d + 1 \in 1..m
      BY <1>2, <2>3
    <3>2. Reached(t, s2, d) = SubSeq(t, 1, ss[d + 1])
      BY <1>4, <2>3, <3>1 DEF Reached
    <3>3. Reached(t, s2, d) = Reached(js, ss, d)
      BY <1>3, <1>6, <2>1, <2>2, <3>2
    <3> QED BY <3>3
  <2>4. CASE ~(d < m)
    <3>1. d + 1 = n
      BY <1>2, <2>4
    <3>2. Reached(js, ss, d) = p
      BY <2>2, <3>1 DEF p
    <3>3. Reached(t, s2, d) = t
      BY <1>1, <1>4, <2>4, PrefixFacts DEF Reached
    <3> QED BY <1>1, <1>5, <3>2, <3>3, BeginsPrefix
  <2> QED BY <2>3, <2>4
<1>9. Entitled(w, t, s2, f2)
  <2> SUFFICES ASSUME NEW d \in 1..m
               PROVE  /\ f2[d].runs => Used(w, Reached(t, s2, d), f2[d].contract)
                      /\ f2[d].reason = "Create" =>
                            Creating(w, SubSeq(t, 1, s2[d]), Reached(t, s2, d), t,
                                     f2[d].contract)
    BY <1>4 DEF Entitled
  <2>1. d \in 1..n /\ f2[d] = fs[d] /\ s2[d] = ss[d]
    BY <1>2, <1>4
  <2>2. /\ fs[d].runs => Used(w, Reached(js, ss, d), fs[d].contract)
        /\ fs[d].reason = "Create" =>
              Creating(w, SubSeq(js, 1, ss[d]), Reached(js, ss, d), js, fs[d].contract)
    BY <1>2, <2>1 DEF Machine, Entitled
  <2>3. SubSeq(t, 1, ss[d]) = SubSeq(js, 1, ss[d])
    BY <1>3, <1>6, <2>1
  <2> QED BY <1>8, <2>1, <2>2, <2>3 DEF Creating
<1>10. Machine(w, t, s2, f2)
  BY <1>4, <1>7, <1>9 DEF Machine
<1> QED BY <1>10 DEF s2, f2

\* What holds of the running frame, and what its creation means for the others
LEMMA TopEntitled ==
    ASSUME NEW w, NEW js, NEW ss, NEW fs, NEW vs, Shape(w, js, ss, fs, vs),
           Machine(w, js, ss, fs), Len(ss) > 0
    PROVE  /\ js \in Seq(Action) /\ SubSeq(js, 1, Last(ss)) \in Seq(Action)
           /\ Legal(w, SubSeq(js, 1, Last(ss))) /\ Settled(SubSeq(js, 1, Last(ss)))
           /\ Begins(SubSeq(js, 1, Last(ss)), js)
           /\ Last(fs).runs => Used(w, js, Last(fs).contract)
           /\ Last(fs).reason = "Create" =>
                 Creating(w, SubSeq(js, 1, Last(ss)), js, js, Last(fs).contract)
           /\ \A d \in 1..(Len(ss) - 1) : fs[d].reason = "Create" =>
                 /\ ~Deploys(js, fs[d].contract)
                 /\ Has(SubSeq(js, 1, Last(ss)), IncrementNonce(fs[d].contract))
<1> DEFINE n == Len(ss)
           p == SubSeq(js, 1, Last(ss))
<1>1. js \in Seq(Action)
  BY DEF Machine, Legal
<1>2. /\ n \in Nat /\ n \in 1..n /\ Len(fs) = n /\ Len(js) \in Nat
      /\ Last(ss) = ss[n] /\ Last(fs) = fs[n]
      /\ ss \in Seq(Nat) /\ \A d \in 1..n : ss[d] \in 0..Len(js)
      /\ Reached(js, ss, n) = js
  BY <1>1, Ends DEF Last
<1>3. \A d, e \in 1..n : d <= e => ss[d] <= ss[e]
  BY DEF Shape
<1>4. /\ Last(ss) \in 0..Len(js) /\ p \in Seq(Action) /\ Len(p) = Last(ss)
      /\ SubSeq(js, 1, Len(p)) = p
  BY <1>1, <1>2, PrefixFacts
<1>5. Legal(w, p) /\ Settled(p) /\ Begins(p, js)
  BY <1>2, <1>4, LegalCut DEF Machine, Begins
<1>6. /\ fs[n].runs => Used(w, Reached(js, ss, n), fs[n].contract)
      /\ fs[n].reason = "Create" =>
            Creating(w, SubSeq(js, 1, ss[n]), Reached(js, ss, n), js, fs[n].contract)
  BY <1>2 DEF Machine, Entitled
<1>7. ASSUME NEW d \in 1..(n - 1), fs[d].reason = "Create"
      PROVE  ~Deploys(js, fs[d].contract) /\ Has(p, IncrementNonce(fs[d].contract))
  <2>1. d \in 1..n /\ d < n /\ d + 1 \in 1..n /\ d + 1 <= n
    BY <1>2
  <2>2. Creating(w, SubSeq(js, 1, ss[d]), Reached(js, ss, d), js, fs[d].contract)
    BY <1>2, <1>7, <2>1 DEF Machine, Entitled
  <2>3. Reached(js, ss, d) = SubSeq(js, 1, ss[d + 1])
    BY <2>1 DEF Reached
  <2>4. ss[d + 1] \in 0..Len(js) /\ ss[n] \in ss[d + 1]..Len(js)
    <3>1. ss[d + 1] <= ss[n]
      BY <1>2, <1>3, <2>1
    <3> QED BY <1>2, <2>1, <3>1
  <2>5. Has(SubSeq(js, 1, ss[d + 1]), IncrementNonce(fs[d].contract))
    BY <2>2, <2>3 DEF Creating
  <2>6. Has(p, IncrementNonce(fs[d].contract))
    <3>1. \E j \in 1..ss[d + 1] : js[j] = IncrementNonce(fs[d].contract)
      BY <1>1, <2>4, <2>5, HasPrefix
    <3>2. 1..ss[d + 1] \subseteq 1..ss[n] /\ ss[n] \in 0..Len(js)
      BY <1>2, <2>4
    <3>3. \E j \in 1..ss[n] : js[j] = IncrementNonce(fs[d].contract)
      BY <3>1, <3>2
    <3> QED BY <1>1, <1>2, <3>2, <3>3, HasPrefix
  <2> QED BY <2>2, <2>6 DEF Creating
<1> QED BY <1>1, <1>2, <1>4, <1>5, <1>6, <1>7

-----------------------------------------------------------------------------
(* The steps of the machine *)

LEMMA EntryTypes ==
    ASSUME NEW x \in Addresses, NEW k \in SolanaKeys, NEW j \in SolanaKeys
    PROVE  /\ IncrementNonce(x) \in Action /\ Destruct(x) \in Action
           /\ \A i \in Indices, v \in Cells : SetStorage(x, i, v) \in Action
           /\ \A c \in Codes \cup {NoCode} : SetCode(x, c) \in Action
           /\ \A v \in Nat \ {0} : Withdraw(NeonToken, v) \in Action
           /\ \A o \in Operators, a \in Addresses \cup Wallets : TokenCreate(k, o, a) \in Action
           /\ \A v \in Nat, a \in Addresses \cup {Deposit} : TokenTransfer(j, k, a, v) \in Action
<1>1. IncrementNonce(x) \in Action /\ Destruct(x) \in Action
  BY DEF Action, IncrementNonce, Destruct
<1>2. \A i \in Indices, v \in Cells : SetStorage(x, i, v) \in Action
  BY DEF Action, SetStorage
<1>3. \A c \in Codes \cup {NoCode} : SetCode(x, c) \in Action
  BY DEF Action, SetCode
<1>4. \A v \in Nat \ {0} : Withdraw(NeonToken, v) \in Action
  BY DEF Action, Withdraw
<1>5. \A o \in Operators, a \in Addresses \cup Wallets : TokenCreate(k, o, a) \in Action
  BY DEF Action, TokenCreate
<1>6. \A v \in Nat, a \in Addresses \cup {Deposit} : TokenTransfer(j, k, a, v) \in Action
  BY DEF Action, TokenTransfer
<1> QED BY <1>1, <1>2, <1>3, <1>4, <1>5, <1>6

\* After a settled journal an entry of these kinds fits, and settles it.
LEMMA PlainFits ==
    ASSUME NEW w, NEW js \in Seq(Action), Settled(js), NEW e \in Action,
           \/ e.op \in {"EvmIncrementNonce", "EvmSelfDestruct"}
           \/ e.op = "EvmSetStorage" /\ Used(w, js, e.address)
           \/ /\ e.op = "EvmSetCode" /\ w.code[e.address] = NoCode
              /\ Has(js, IncrementNonce(e.address)) /\ ~Deploys(js, e.address)
           \/ e.op = "TokenCreate" /\ e.key # Pool
           \/ e.op = "TokenTransfer" /\ e.from # Pool /\ e.to # Pool
    PROVE  Fits(w, js, e) /\ Settled(Append(js, e))
<1>1. Len(Append(js, e)) = Len(js) + 1 /\ Append(js, e)[Len(js) + 1] = e /\ Len(js) \in Nat
  BY EntryAppended
<1>2. ~FromPool(e)
  BY DEF FromPool
<1>3. Settled(Append(js, e))
  BY <1>1, <1>2 DEF Settled
<1> QED BY <1>3 DEF Fits

\* A withdrawal to the wallet k of what the NEON token's contract has
LEMMA GrownWithdrawal ==
    ASSUME NEW w \in World, NEW js, Legal(w, js), NEW s, Grown(w, js, s), Settled(s),
           NEW k \in Wallets, NEW v \in Nat \ {0}, operator \in Operators,
           balance(w, s, NeonToken) >= v
    PROVE  Grown(w, js, s \o Withdrawal(k, v)) /\ Settled(s \o Withdrawal(k, v))
<1> DEFINE c == TokenCreate(k, operator, k)
           u == TokenTransfer(Pool, k, Deposit, v)
           d == Withdraw(NeonToken, v)
           t == IF ExternalAccount(actions, k).owner = "token" THEN <<>> ELSE <<c>>
           s1 == s \o t
           s2 == Append(s1, u)
           s3 == Append(s2, d)
<1>1. k \in SolanaKeys /\ Pool \in SolanaKeys /\ k # Pool /\ NeonToken \in Addresses /\ v \in Nat
  BY JournalAssumption
<1>2. c \in Action /\ u \in Action /\ d \in Action
  BY <1>1, EntryTypes
<1>3. /\ c.op = "TokenCreate" /\ c.key = k
      /\ u.op = "TokenTransfer" /\ u.from = Pool /\ u.to = k /\ u.value = v
      /\ d.op = "NeonWithdraw" /\ d.source = NeonToken /\ d.value = v
  BY DEF TokenCreate, TokenTransfer, Withdraw
<1>4. s \in Seq(Action)
  BY DEF Grown, Legal
<1>5. s \o Withdrawal(k, v) = s3
  <2>1. IsSeq(s) /\ IsSeq(<<u>>) /\ IsSeq(<<d>>) /\ IsSeq(t)
    BY <1>4, IsSeqIntro, OneIsSeq, EmptyIsSeq
  <2>2. Withdrawal(k, v) = (t \o <<u>>) \o <<d>>
    BY DEF Withdrawal
  <2> HIDE DEF t, u, d
  <2>3. IsSeq(t \o <<u>>) /\ IsSeq(s1) /\ IsSeq(s1 \o <<u>>)
    BY <2>1, ConcatFacts
  <2>4. s \o ((t \o <<u>>) \o <<d>>) = (s \o (t \o <<u>>)) \o <<d>>
    BY <2>1, <2>3, Regroup
  <2>5. s \o (t \o <<u>>) = s1 \o <<u>>
    BY <2>1, Regroup
  <2>6. s1 \o <<u>> = s2 /\ s2 \o <<d>> = s3
    <3>1. s1 \o <<u>> = s2
      BY <2>3, AppendOne
    <3>2. IsSeq(s2)
      BY <2>3, <3>1
    <3> HIDE DEF s2
    <3> QED BY <3>1, <3>2, AppendOne
  <2> QED BY <2>2, <2>4, <2>5, <2>6
<1> HIDE DEF c, u, d
<1>6. Grown(w, js, s1) /\ Settled(s1) /\ balance(w, s1, NeonToken) >= v /\ s1 \in Seq(Action)
  <2>1. CASE t = <<>>
    <3>1. s1 = s
      BY <1>4, <2>1, NothingAdded, IsSeqIntro
    <3> QED BY <1>4, <3>1
  <2>2. CASE t = <<c>>
    <3>1. s1 = Append(s, c)
      BY <1>4, <2>2, AppendOne, IsSeqIntro
    <3>2. Fits(w, s, c) /\ Settled(Append(s, c))
      BY <1>1, <1>2, <1>3, <1>4, PlainFits
    <3>3. Grown(w, js, Append(s, c))
      BY <1>2, <1>3, <3>2, GrownMore
    <3>4. balance(w, Append(s, c), NeonToken) = balance(w, s, NeonToken)
      <4>1. /\ balance(w, Append(s, c), NeonToken)
               = balance(w, s, NeonToken) + Credit(c, NeonToken) - Debit(c, NeonToken)
            /\ balance(w, s, NeonToken) \in Int
        BY <1>1, <1>2, <1>4, BalanceAppend
      <4>2. Credit(c, NeonToken) = 0 /\ Debit(c, NeonToken) = 0
        BY <1>3 DEF Credit, Debit
      <4> QED BY <4>1, <4>2
    <3> HIDE DEF s1
    <3> QED BY <3>1, <3>2, <3>3, <3>4 DEF Grown, Legal
  <2> QED BY <2>1, <2>2
<1> HIDE DEF s1, t
<1>7. Grown(w, js, s2) /\ balance(w, s2, NeonToken) >= v /\ s2 \in Seq(Action)
      /\ ~Settled(s2) /\ s2[Len(s2)].value = v
  <2>1. Fits(w, s1, u)
    BY <1>1, <1>3, <1>6 DEF Fits
  <2>2. Grown(w, js, s2)
    BY <1>2, <1>3, <2>1, <1>6, GrownMore
  <2>3. balance(w, s2, NeonToken) = balance(w, s1, NeonToken)
    <3>1. /\ balance(w, s2, NeonToken)
             = balance(w, s1, NeonToken) + Credit(u, NeonToken) - Debit(u, NeonToken)
          /\ balance(w, s1, NeonToken) \in Int
      BY <1>1, <1>2, <1>6, BalanceAppend
    <3>2. Credit(u, NeonToken) = 0 /\ Debit(u, NeonToken) = 0
      BY <1>3 DEF Credit, Debit
    <3> QED BY <3>1, <3>2
  <2>4. Len(s2) = Len(s1) + 1 /\ s2[Len(s2)] = u /\ Len(s1) \in Nat /\ s2 \in Seq(Action)
    BY <1>2, <1>6, EntryAppended
  <2> HIDE DEF s2
  <2>5. ~Settled(s2)
    BY <1>3, <2>4 DEF Settled, FromPool
  <2> QED BY <1>3, <1>6, <2>2, <2>3, <2>4, <2>5
<1> HIDE DEF s2
<1>8. Fits(w, s2, d)
  BY <1>3, <1>7 DEF Fits
<1>9. Grown(w, js, s3)
  BY <1>2, <1>3, <1>7, <1>8, GrownMore
<1>10. Settled(s3)
  <2>1. Len(s3) = Len(s2) + 1 /\ s3[Len(s3)] = d
    BY <1>2, <1>7, EntryAppended
  <2> QED BY <1>3, <2>1 DEF Settled, FromPool
<1> QED BY <1>5, <1>9, <1>10

\* An address without nonce and code has no storage.
Clean(w) ==
    \A x \in Addresses : w.nonce[x] = 0 /\ w.code[x] = NoCode =>
        \A i \in Indices : w.storage[x][i] = Zero

\* The accounts as if the gas of this transaction's iterations had not been
\* taken: what the checks of the opcodes promise, they promise of these.
LentTo(w, p) == [w EXCEPT !.balance = [x \in Addresses |-> w.balance[x] + p[x]]]

Lent == LentTo(world, paid)

MachineInv == Machine(Lent, actions, stack, frames)

\* What the steps need to know
Ready ==
    /\ JournalInv /\ MachineInv
    /\ world \in World /\ paid \in [Addresses -> Nat] /\ operator \in Operators

LEMMA LentTypes ==
    ASSUME NEW w \in World, NEW p \in [Addresses -> Nat]
    PROVE  LET u == LentTo(w, p) IN
           /\ u \in World
           /\ u.nonce = w.nonce /\ u.code = w.code /\ u.storage = w.storage
           /\ \A x \in Addresses : u.balance[x] = w.balance[x] + p[x]
BY DEF LentTo, World

\* Reads of a journal over these accounts are what they are, balances at least.
LEMMA LentReads ==
    ASSUME world \in World, paid \in [Addresses -> Nat]
    PROVE  /\ Lent \in World
           /\ Lent.nonce = world.nonce /\ Lent.code = world.code
           /\ Lent.storage = world.storage
           /\ \A js, x : nonce(Lent, js, x) = nonce(world, js, x)
           /\ \A js, x : code(Lent, js, x) = code(world, js, x)
           /\ \A js, x, i : storage(Lent, js, x, i) = storage(world, js, x, i)
           /\ \A js : View(Lent, js) = View(world, js)
           /\ \A x \in Addresses : Lent.balance[x] = world.balance[x] + paid[x]
<1>1. /\ Lent \in World
      /\ Lent.nonce = world.nonce /\ Lent.code = world.code
      /\ Lent.storage = world.storage
      /\ \A x \in Addresses : Lent.balance[x] = world.balance[x] + paid[x]
  BY LentTypes DEF Lent
<1>2. /\ \A js, x : nonce(Lent, js, x) = nonce(world, js, x)
      /\ \A js, x : code(Lent, js, x) = code(world, js, x)
      /\ \A js, x, i : storage(Lent, js, x, i) = storage(world, js, x, i)
  BY <1>1 DEF nonce, code, storage
<1>3. \A js : View(Lent, js) = View(world, js)
  BY ViewApart DEF Lent, LentTo
<1> QED BY <1>1, <1>2, <1>3

LEMMA LentBalance ==
    ASSUME world \in World, paid \in [Addresses -> Nat], NEW js \in Seq(Action),
           NEW x \in Addresses
    PROVE  /\ balance(Lent, js, x) = balance(world, js, x) + paid[x]
           /\ balance(world, js, x) \in Int
           /\ balance(Lent, js, x) >= balance(world, js, x)
           /\ \A v \in Int : balance(world, js, x) >= v => balance(Lent, js, x) >= v
<1>1. IncrementNonce(x) \in Action
  BY DEF IncrementNonce, Action
<1>2. balance(world, js, x) \in Int
  BY <1>1, BalanceAppend
<1>3. balance(world, js, x) = world.balance[x] + (Credits(js, x) - Debits(js, x))
      /\ balance(Lent, js, x) = Lent.balance[x] + (Credits(js, x) - Debits(js, x))
      /\ Credits(js, x) \in Int /\ Debits(js, x) \in Int
  <2>1. /\ Credits(js, x) = ValueSum(js, CreditsIn(js, x))
        /\ Debits(js, x) = ValueSum(js, DebitsIn(js, x))
    BY DEF Credits, Debits, ValueSum, CreditsIn, DebitsIn
  <2>2. Credits(js, x) \in Int /\ Debits(js, x) \in Int
    BY <2>1, TransfersIn, ValueSumType
  <2>3. world.balance[x] \in Int /\ Lent.balance[x] \in Int
    BY LentReads DEF World
  <2> QED BY <2>2, <2>3 DEF balance
<1>4. Lent.balance[x] = world.balance[x] + paid[x] /\ world.balance[x] \in Nat
      /\ paid[x] \in Nat
  BY LentReads DEF World
<1>5. balance(Lent, js, x) = balance(world, js, x) + paid[x] /\ paid[x] \in Nat
  <2> HIDE DEF Lent
  <2> QED BY <1>3, <1>4
<1>6. ASSUME NEW v \in Int, balance(world, js, x) >= v
      PROVE  balance(Lent, js, x) >= v
  BY <1>2, <1>5, <1>6
<1> QED BY <1>2, <1>5, <1>6

\* The frames as they are over these accounts
LEMMA LentShape ==
    ASSUME Ready
    PROVE  /\ Shape(Lent, actions, stack, frames, entered)
           /\ Lent \in World
<1>1. \A js : View(Lent, js) = View(world, js)
  BY LentReads DEF Ready
<1> QED BY <1>1, LentReads DEF Ready, JournalInv, Shape

\* While the machine runs
LEMMA RunningFacts ==
    ASSUME Ready, Running
    PROVE  /\ Shape(Lent, actions, stack, frames, entered)
           /\ Len(stack) > 0 /\ Legal(Lent, actions) /\ Settled(actions)
           /\ actions \in Seq(Action) /\ IsSeq(actions)
           /\ Top \in Frame /\ Top.contract \in Addresses
           /\ Grown(Lent, actions, actions)
           /\ Top.runs => Used(Lent, actions, Top.contract)
<1>1. Shape(Lent, actions, stack, frames, entered) /\ Len(stack) > 0
      /\ Top \in Frame /\ IsSeq(actions)
  BY WhileRunning, LentShape DEF Ready
<1>2. Legal(Lent, actions) /\ Settled(actions) /\ actions \in Seq(Action)
  BY DEF Ready, MachineInv, Machine, Legal
<1>3. Top.runs => Used(Lent, actions, Top.contract)
  BY <1>1, TopEntitled DEF Ready, MachineInv, Top
<1>4. Top.contract \in Addresses
  BY <1>1 DEF Frame
<1> QED BY <1>1, <1>2, <1>3, <1>4, GrownNot

LEMMA StepMachine ==
    ASSUME Ready, Running, NEW t, Grown(Lent, actions, t), Settled(t), Step(t)
    PROVE  MachineInv'
<1>1. actions' = t /\ Lent' = Lent /\ stack' = stack /\ frames' = frames
  BY DEF Step, Lent
<1>2. Machine(Lent, t, stack, frames)
  BY RunningFacts, MachineGrown DEF Ready, MachineInv
<1> QED BY <1>1, <1>2 DEF MachineInv

\* One entry more that needs nothing but what PlainFits asks for
LEMMA StepPlain ==
    ASSUME Ready, Running, NEW e \in Action, e.op # "EvmSetCode",
           \/ e.op = "EvmIncrementNonce"
           \/ e.op = "EvmSetStorage" /\ Used(Lent, actions, e.address)
           \/ e.op = "TokenCreate" /\ e.key # Pool
           \/ e.op = "TokenTransfer" /\ e.from # Pool /\ e.to # Pool,
           Step(actions \o <<e>>)
    PROVE  MachineInv'
<1>1. Fits(Lent, actions, e) /\ Settled(Append(actions, e))
  BY RunningFacts, PlainFits
<1>2. Grown(Lent, actions, Append(actions, e))
  BY <1>1, RunningFacts, GrownOne
<1>3. Append(actions, e) = actions \o <<e>>
  BY RunningFacts, AppendOne
<1> QED BY <1>1, <1>2, <1>3, StepMachine

LEMMA CallMachine ==
    ASSUME Ready, Running, NEW f \in Frame, f.reason = "Call",
           f.runs => Used(Lent, actions, f.contract),
           NEW more, Grown(Lent, actions, actions \o more), Settled(actions \o more),
           Enter(f, actions, more)
    PROVE  MachineInv'
<1> DEFINE t == actions \o more
<1>1. /\ actions' = t /\ Lent' = Lent
      /\ stack' = Append(stack, Len(actions)) /\ frames' = Append(frames, f)
  BY DEF Enter, Lent
<1> HIDE DEF t
<1>2. f.runs => Used(Lent, t, f.contract)
  BY RunningFacts, BeginsPrefix DEF Grown, Legal, t
<1>3. Machine(Lent, t, Append(stack, Len(actions)), Append(frames, f))
  <2>1. Grown(Lent, actions, t) /\ Settled(t)
    BY DEF t
  <2>2. f.reason # "Create"
    OBVIOUS
  <2>3. Shape(Lent, actions, stack, frames, entered)
    BY RunningFacts
  <2>4. Machine(Lent, actions, stack, frames)
    BY DEF Ready, MachineInv
  <2> QED BY <1>2, <2>1, <2>2, <2>3, <2>4, MachineEntered
<1> QED BY <1>1, <1>3 DEF MachineInv

LEMMA LeaveMachine ==
    ASSUME Ready, Running, NEW t, NEW status, Legal(Lent, t), Settled(t),
           Begins(SubSeq(actions, 1, Last(stack)), t),
           \A d \in 1..(Len(stack) - 1) :
              frames[d].reason = "Create" => ~Deploys(t, frames[d].contract),
           Leave(t, status)
    PROVE  MachineInv'
<1>1. /\ actions' = t /\ Lent' = Lent
      /\ stack' = Front(stack) /\ frames' = Front(frames)
  BY DEF Leave, Lent
<1>2. Machine(Lent, t, Front(stack), Front(frames))
  BY RunningFacts, MachineLeft DEF Ready, MachineInv
<1> QED BY <1>1, <1>2 DEF MachineInv

\* A frame is left with the journal as it is, or grown.
LEMMA LeaveGrown ==
    ASSUME Ready, Running, NEW t, NEW status, Grown(Lent, actions, t), Settled(t),
           Leave(t, status)
    PROVE  MachineInv'
<1> DEFINE p == SubSeq(actions, 1, Last(stack))
<1>1. /\ p \in Seq(Action) /\ Begins(p, actions)
      /\ \A d \in 1..(Len(stack) - 1) :
            frames[d].reason = "Create" => ~Deploys(actions, frames[d].contract)
  BY RunningFacts, TopEntitled DEF Ready, MachineInv
<1>2. actions \in Seq(Action) /\ t \in Seq(Action) /\ Begins(actions, t) /\ Legal(Lent, t)
  BY RunningFacts DEF Grown, Legal
<1> HIDE DEF p
<1>3. Begins(p, t)
  BY <1>1, <1>2, BeginsTrans
<1>4. \A d \in 1..(Len(stack) - 1) :
         frames[d].reason = "Create" => ~Deploys(t, frames[d].contract)
  BY <1>1 DEF Grown
<1> QED BY <1>2, <1>3, <1>4, LeaveMachine DEF p

LEMMA NothingChanges ==
    ASSUME MachineInv, UNCHANGED <<world, paid, actions, stack, frames>>
    PROVE  MachineInv'
BY DEF MachineInv, Lent

\* A machine starts.
LEMMA StartedMachine ==
    ASSUME Lent \in World, NEW f \in Frame, NEW o \in Origins, NEW t,
           Grown(Lent, <<IncrementNonce(o)>>, t), Settled(t),
           f.runs => Used(Lent, t, f.contract),
           f.reason = "Create" => Creating(Lent, <<IncrementNonce(o)>>, t, t, f.contract),
           Started(f, t)
    PROVE  MachineInv'
<1> DEFINE one == <<IncrementNonce(o)>>
<1>1. IsSeq(one) /\ Len(one) = 1 /\ one[1] = IncrementNonce(o)
  BY OneIsSeq
<1>2. /\ actions' = t /\ stack' = <<1>> /\ frames' = <<f>> /\ Lent' = Lent
  BY DEF Started, Lent
<1>3. Grown(Lent, one, t) /\ (f.reason = "Create" => Creating(Lent, one, t, t, f.contract))
  OBVIOUS
<1>4. Legal(Lent, one) /\ Settled(one)
  <2>1. o \in Addresses
    BY JournalAssumption
  <2>2. IncrementNonce(o) \in Action /\ IncrementNonce(o).op = "EvmIncrementNonce"
    BY <2>1 DEF IncrementNonce, Action
  <2>3. Legal(Lent, << >>) /\ Settled(<< >>) /\ << >> \in Seq(Action)
    BY LegalNone
  <2>4. Fits(Lent, << >>, IncrementNonce(o)) /\ Settled(Append(<< >>, IncrementNonce(o)))
    BY <2>2, <2>3, PlainFits
  <2>5. Legal(Lent, Append(<< >>, IncrementNonce(o)))
    BY <2>2, <2>3, <2>4, LegalAppend
  <2>6. Append(<< >>, IncrementNonce(o)) = one
    OBVIOUS
  <2> QED BY <2>4, <2>5, <2>6
<1> HIDE DEF one
<1>5. Shape(Lent, one, <<>>, <<>>, <<>>)
  BY <1>1, EmptyIsSeq DEF Shape
<1>6. Machine(Lent, one, <<>>, <<>>)
  BY <1>4 DEF Machine, Entitled
<1>7. Machine(Lent, t, Append(<<>>, Len(one)), Append(<<>>, f))
  BY <1>3, <1>5, <1>6, MachineEntered
<1>8. Append(<<>>, Len(one)) = <<1>> /\ Append(<<>>, f) = <<f>>
  BY <1>1
<1> QED BY <1>2, <1>7, <1>8 DEF MachineInv

LEMMA StartMachine == ASSUME Ready, Start PROVE MachineInv'
<1> PICK o \in Origins, v \in Values :
        \/ \E x \in Addresses : StartCall(o, x, v)
        \/ \E x \in Creatable, eof \in BOOLEAN : StartCreate(o, x, v, eof)
  BY DEF Start
<1> DEFINE one == <<IncrementNonce(o)>>
<1>1. /\ Lent \in World /\ o \in Addresses /\ v \in Nat
      /\ IncrementNonce(o) \in Action /\ IncrementNonce(o).op = "EvmIncrementNonce"
  BY JournalAssumption, LentReads DEF Ready, IncrementNonce, Action
<1>0. /\ Lent.nonce = world.nonce /\ Lent.code = world.code
      /\ world.balance[o] >= v => Lent.balance[o] >= v
  <2>1. /\ Lent.balance[o] = world.balance[o] + paid[o] /\ paid[o] \in Nat
        /\ world.balance[o] \in Nat
    BY <1>1, LentReads DEF Ready, World
  <2> QED BY <1>1, <2>1, LentReads DEF Ready
<1>2. Legal(Lent, << >>) /\ Settled(<< >>) /\ << >> \in Seq(Action)
      /\ Append(<< >>, IncrementNonce(o)) = one
  BY LegalNone
<1>3. Legal(Lent, one) /\ Settled(one) /\ one \in Seq(Action)
  <2>1. Fits(Lent, << >>, IncrementNonce(o)) /\ Settled(Append(<< >>, IncrementNonce(o)))
    BY <1>1, <1>2, PlainFits
  <2>2. Legal(Lent, Append(<< >>, IncrementNonce(o)))
    BY <1>1, <1>2, <2>1, LegalAppend
  <2> QED BY <1>2, <2>1, <2>2 DEF Legal
<1>4. balance(Lent, one, o) = Lent.balance[o]
  <2>1. /\ balance(Lent, one, o) = balance(Lent, << >>, o) + Credit(IncrementNonce(o), o)
                                    - Debit(IncrementNonce(o), o)
        /\ balance(Lent, << >>, o) = Lent.balance[o]
    BY <1>1, <1>2, BalanceAppend
  <2>2. Credit(IncrementNonce(o), o) = 0 /\ Debit(IncrementNonce(o), o) = 0
    BY <1>1 DEF Credit, Debit
  <2>3. Lent.balance[o] \in Nat
    BY <1>1 DEF World
  <2> QED BY <2>1, <2>2, <2>3
<1>5. Grown(Lent, one, one)
  BY <1>3, GrownNot
<1> HIDE DEF one
<1>6. ASSUME NEW x \in Addresses, StartCall(o, x, v) PROVE MachineInv'
  <2> DEFINE t == one \o Transfer(o, x, v)
             f == CallFrame(x, FALSE, Lent.code[x])
  <2>1. Started(f, t) /\ Lent.balance[o] >= v
    BY <1>0, <1>6 DEF StartCall, CanSend, one
  <2>2. Grown(Lent, one, t) /\ Settled(t)
    BY <1>1, <1>3, <1>4, <1>5, <2>1, GrownTransfer
  <2>3. f \in Frame /\ f.reason = "Call" /\ (f.runs => Lent.code[x] # NoCode)
        /\ f.contract = x
    BY FrameTypes DEF CallFrame
  <2> HIDE DEF t, f
  <2>4. f.runs => Used(Lent, t, f.contract)
    BY <2>3 DEF Used
  <2> QED BY <1>1, <2>1, <2>2, <2>3, <2>4, StartedMachine DEF one
<1>7. ASSUME NEW x \in Creatable, NEW eof \in BOOLEAN, StartCreate(o, x, v, eof)
      PROVE  MachineInv'
  <2> DEFINE s == Append(one, IncrementNonce(x))
             t == s \o Transfer(o, x, v)
             f == CreateFrame(x, eof)
  <2>1. x \in Addresses /\ x # o
    BY JournalAssumption
  <2>2. /\ Started(f, <<IncrementNonce(o), IncrementNonce(x)>> \o Transfer(o, x, v))
        /\ Lent.balance[o] >= v /\ Lent.nonce[x] = 0 /\ Lent.code[x] = NoCode
    BY <1>0, <1>7 DEF StartCreate, CanSend
  <2>3. <<IncrementNonce(o), IncrementNonce(x)>> = s
    BY DEF one
  <2>4. IncrementNonce(x) \in Action /\ IncrementNonce(x).op = "EvmIncrementNonce"
        /\ IncrementNonce(x) # IncrementNonce(o)
    BY <2>1 DEF IncrementNonce, Action
  <2>5. Fits(Lent, one, IncrementNonce(x)) /\ Settled(s)
    BY <1>3, <2>4, PlainFits
  <2>6. Grown(Lent, one, s) /\ s \in Seq(Action)
    BY <1>3, <2>4, <2>5, GrownOne DEF Grown, Legal
  <2>7. balance(Lent, s, o) = Lent.balance[o]
    <3>1. /\ balance(Lent, s, o) = balance(Lent, one, o) + Credit(IncrementNonce(x), o)
                                    - Debit(IncrementNonce(x), o)
      BY <1>1, <1>3, <2>4, BalanceAppend
    <3>2. Credit(IncrementNonce(x), o) = 0 /\ Debit(IncrementNonce(x), o) = 0
      BY <2>4 DEF Credit, Debit
    <3>3. Lent.balance[o] \in Nat
      BY <1>1 DEF World
    <3> QED BY <1>4, <3>1, <3>2, <3>3
  <2>8. Has(s, IncrementNonce(x))
    BY <1>3, <2>4, HasAppend
  <2> HIDE DEF s
  <2>9. /\ Grown(Lent, one, t) /\ Settled(t) /\ Has(t, IncrementNonce(x))
    BY <1>1, <1>3, <2>1, <2>2, <2>5, <2>6, <2>7, <2>8, GrownTransfer
  <2>10. f \in Frame /\ f.contract = x /\ Started(f, t)
    BY <2>1, <2>2, <2>3, FrameTypes DEF CreateFrame
  <2> HIDE DEF t, f
  <2>11. ~Has(one, IncrementNonce(x)) /\ ~Deploys(one, x)
    BY <1>1, <2>4 DEF Has, Deploys, one
  <2>12. Creating(Lent, one, t, t, x)
    BY <2>2, <2>9, <2>11 DEF Creating, Used, Grown
  <2>13. Used(Lent, t, x)
    BY <2>9 DEF Used
  <2> QED BY <1>1, <2>9, <2>10, <2>12, <2>13, StartedMachine DEF one
<1> QED BY <1>6, <1>7

LEMMA CreateMachine ==
    ASSUME Ready, NEW x \in Creatable, NEW v \in Values, NEW eof \in BOOLEAN,
           Create(x, v, eof)
    PROVE  MachineInv'
<1> DEFINE y == Top.contract
           e == IncrementNonce(y)
           js == Append(actions, e)
           f == CreateFrame(x, eof)
<1>0. /\ Running
      /\ \/ /\ nonce(world, js, x) = 0 /\ code(world, js, x) = NoCode
            /\ balance(world, js, y) >= v
            /\ Enter(f, js, <<IncrementNonce(x)>> \o Transfer(y, x, v))
         \/ Step(js)
  BY DEF Create, CanStep
<1>2. x \in Addresses /\ y \in Addresses /\ v \in Nat /\ Lent \in World
  BY <1>0, RunningFacts, LentShape, JournalAssumption
<1>3. e \in Action /\ e.op = "EvmIncrementNonce"
      /\ IncrementNonce(x) \in Action /\ IncrementNonce(x).op = "EvmIncrementNonce"
  BY <1>2 DEF IncrementNonce, Action
<1>4. actions \in Seq(Action) /\ IsSeq(actions) /\ Legal(Lent, actions) /\ Settled(actions)
  BY <1>0, RunningFacts
<1>5. Fits(Lent, actions, e) /\ Settled(js)
  BY <1>3, <1>4, PlainFits
<1>6. Grown(Lent, actions, js)
  BY <1>3, <1>4, <1>5, GrownOne
<1>7. js \in Seq(Action) /\ Legal(Lent, js) /\ js = actions \o <<e>>
  BY <1>4, <1>6, AppendOne DEF Grown, Legal
<1>8. f \in Frame /\ f.reason = "Create" /\ f.contract = x
  BY <1>2, FrameTypes DEF CreateFrame
<1>1. /\ Running
      /\ \/ /\ nonce(Lent, js, x) = 0 /\ code(Lent, js, x) = NoCode
            /\ balance(Lent, js, y) >= v
            /\ Enter(f, js, <<IncrementNonce(x)>> \o Transfer(y, x, v))
         \/ Step(js)
  <2> HIDE DEF e, js, f, y
  <2>1. nonce(Lent, js, x) = nonce(world, js, x) /\ code(Lent, js, x) = code(world, js, x)
    BY LentReads DEF Ready
  <2>2. balance(world, js, y) >= v => balance(Lent, js, y) >= v
    <3>1. world \in World /\ paid \in [Addresses -> Nat] /\ js \in Seq(Action)
      BY <1>7 DEF Ready
    <3>2. balance(world, js, y) \in Int /\ balance(Lent, js, y) >= balance(world, js, y)
          /\ balance(Lent, js, y) = balance(world, js, y) + paid[y] /\ paid[y] \in Nat
      BY <1>2, <3>1, LentBalance
    <3> QED BY <1>2, <3>2
  <2> QED BY <1>0, <2>1, <2>2
<1>9. Shape(Lent, js, stack, frames, entered)
  <2>1. Shape(Lent, actions \o <<e>>, stack, frames, entered)
    BY <1>1, WhileRunning, LentShape, Extended, OneIsSeq DEF Ready
  <2> QED BY <1>7, <2>1
<1>10. Machine(Lent, js, stack, frames)
  BY <1>1, <1>5, <1>6, RunningFacts, MachineGrown DEF Ready, MachineInv
<1> HIDE DEF e, js, f, y
<1>11. CASE Step(js)
  BY <1>1, <1>5, <1>6, <1>11, StepMachine
<1>12. CASE /\ nonce(Lent, js, x) = 0 /\ code(Lent, js, x) = NoCode
            /\ balance(Lent, js, y) >= v
            /\ Enter(f, js, <<IncrementNonce(x)>> \o Transfer(y, x, v))
  <2> DEFINE s == Append(js, IncrementNonce(x))
             t == s \o Transfer(y, x, v)
  <2>1. ~Used(Lent, js, x)
    BY <1>2, <1>7, <1>12, LegalUsed
  <2>2. Fits(Lent, js, IncrementNonce(x)) /\ Settled(s)
    BY <1>3, <1>5, <1>7, PlainFits
  <2>3. Grown(Lent, js, s)
    BY <1>3, <1>7, <2>2, GrownOne
  <2>4. balance(Lent, s, y) = balance(Lent, js, y)
    <3>1. /\ balance(Lent, s, y) = balance(Lent, js, y) + Credit(IncrementNonce(x), y)
                                    - Debit(IncrementNonce(x), y)
          /\ balance(Lent, js, y) \in Int
      BY <1>2, <1>3, <1>7, BalanceAppend
    <3>2. Credit(IncrementNonce(x), y) = 0 /\ Debit(IncrementNonce(x), y) = 0
      BY <1>3 DEF Credit, Debit
    <3> QED BY <3>1, <3>2
  <2>5. Has(s, IncrementNonce(x)) /\ s = js \o <<IncrementNonce(x)>> /\ IsSeq(js)
    BY <1>3, <1>7, HasAppend, AppendOne, IsSeqIntro
  <2>6. t = js \o (<<IncrementNonce(x)>> \o Transfer(y, x, v))
    <3>1. IsSeq(<<IncrementNonce(x)>>) /\ IsSeq(Transfer(y, x, v))
      BY OneIsSeq, TransferIsSeq
    <3> HIDE DEF s
    <3> QED BY <2>5, <3>1, Regroup
  <2> HIDE DEF s
  <2>7. Grown(Lent, js, t) /\ Settled(t) /\ Has(t, IncrementNonce(x))
    BY <1>2, <1>7, <1>12, <2>2, <2>3, <2>4, <2>5, GrownTransfer
  <2>8. /\ actions' = t /\ Lent' = Lent
        /\ stack' = Append(stack, Len(js)) /\ frames' = Append(frames, f)
    BY <1>12, <2>6 DEF Enter, Lent
  <2> HIDE DEF t
  <2>9. ~Deploys(t, x)
    <3>1. Deploys(t, x) => Deploys(js, x)
      BY <2>7 DEF Grown
    <3>2. Deploys(js, x) => Has(js, IncrementNonce(x))
      BY <1>7, LegalDeploys
    <3> QED BY <2>1, <3>1, <3>2 DEF Used
  <2>10. Creating(Lent, js, t, t, x) /\ Used(Lent, t, x)
    BY <2>1, <2>7, <2>9 DEF Creating, Used
  <2>11. Machine(Lent, t, Append(stack, Len(js)), Append(frames, f))
    BY <1>8, <1>9, <1>10, <2>7, <2>10, MachineEntered
  <2> QED BY <2>8, <2>11 DEF MachineInv
<1> QED BY <1>1, <1>11, <1>12

LEMMA ReturnMachine ==
    ASSUME Ready, NEW c \in Codes \cup {NoCode}, Return(c)
    PROVE  MachineInv'
<1>1. Running
  BY DEF Return
<1>2. CASE Top.reason # "Create"
  <2>1. Leave(actions, "return")
    BY <1>2 DEF Return
  <2> QED BY <1>1, <2>1, RunningFacts, LeaveGrown
<1>3. CASE Top.reason = "Create"
  <2> DEFINE x == Top.contract
             e == SetCode(x, c)
             t == Append(actions, e)
             p == SubSeq(actions, 1, Last(stack))
  <2>1. Leave(t, "return")
    BY <1>3 DEF Return
  <2>2. x \in Addresses /\ actions \in Seq(Action) /\ Settled(actions) /\ Legal(Lent, actions)
    BY <1>1, RunningFacts
  <2>3. e \in Action /\ e.op = "EvmSetCode" /\ e.address = x
    BY <2>2 DEF SetCode, Action
  <2>4. /\ Creating(Lent, p, actions, actions, x)
        /\ p \in Seq(Action) /\ Begins(p, actions)
        /\ \A d \in 1..(Len(stack) - 1) : frames[d].reason = "Create" =>
              ~Deploys(actions, frames[d].contract)
              /\ Has(p, IncrementNonce(frames[d].contract))
    BY <1>1, <1>3, RunningFacts, TopEntitled DEF Ready, MachineInv, Top
  <2> HIDE DEF e, p, x
  <2>5. Lent.code[x] = NoCode
    BY <2>4 DEF Creating, Used
  <2>6. Fits(Lent, actions, e) /\ Settled(t)
    BY <2>2, <2>3, <2>4, <2>5, PlainFits DEF Creating
  <2>7. Legal(Lent, t) /\ Begins(actions, t) /\ t \in Seq(Action)
    BY <2>2, <2>3, <2>6, LegalAppend DEF Legal
  <2>8. \A y : Deploys(t, y) => Deploys(actions, y) \/ y = x
    BY <2>2, <2>3, HasAppend
  <2> HIDE DEF t
  <2>9. Begins(p, t)
    BY <2>2, <2>4, <2>7, BeginsTrans
  <2>10. ASSUME NEW d \in 1..(Len(stack) - 1), frames[d].reason = "Create"
         PROVE  ~Deploys(t, frames[d].contract)
    <3>1. ~Deploys(actions, frames[d].contract) /\ Has(p, IncrementNonce(frames[d].contract))
      BY <2>4, <2>10
    <3>2. ~Has(p, IncrementNonce(x))
      BY <2>4 DEF Creating, Used
    <3>3. frames[d].contract # x
      BY <3>1, <3>2
    <3> QED BY <2>8, <3>1, <3>3
  <2> QED BY <1>1, <2>1, <2>6, <2>7, <2>9, <2>10, LeaveMachine DEF p
<1> QED BY <1>2, <1>3

LEMMA OpcodeMachine == ASSUME Ready, Opcode PROVE MachineInv'
<1>0. Lent \in World /\ operator \in Operators
  BY LentShape DEF Ready
<1>00. \A x : code(Lent, actions, x) = code(world, actions, x)
  BY LentReads DEF Ready
<1>1. ASSUME NEW i \in Indices, NEW v \in Cells, Sstore(i, v) PROVE MachineInv'
  <2> DEFINE e == SetStorage(Top.contract, i, v)
  <2>1. Running /\ Top.runs /\ Step(Append(actions, e))
    BY <1>1 DEF Sstore, CanStep
  <2>2. e \in Action /\ e.op = "EvmSetStorage" /\ e.address = Top.contract
    BY <2>1, RunningFacts DEF SetStorage, Action
  <2> HIDE DEF e
  <2>3. Append(actions, e) = actions \o <<e>>
    BY <2>1, RunningFacts, AppendOne
  <2>4. Used(Lent, actions, e.address)
    BY <2>1, <2>2, RunningFacts
  <2> QED BY <2>1, <2>2, <2>3, <2>4, StepPlain
<1>2. ASSUME NEW x \in Addresses, NEW v \in Values, Call(x, v) PROVE MachineInv'
  <2> DEFINE f == CallFrame(x, Top.is_static, code(Lent, actions, x))
             more == Transfer(Top.contract, x, v)
  <2>0. Running /\ Enter(f, actions, more) /\ balance(world, actions, Top.contract) >= v
    BY <1>00, <1>2 DEF Call, CanStep
  <2>2. Top.is_static \in BOOLEAN /\ v \in Nat /\ Top.contract \in Addresses
    BY <2>0, RunningFacts, JournalAssumption DEF Frame
  <2>1. Running /\ Enter(f, actions, more) /\ balance(Lent, actions, Top.contract) >= v
    BY <2>0, <2>2, RunningFacts, LentBalance DEF Ready
  <2>3. f \in Frame /\ f.reason = "Call" /\ f.contract = x
        /\ (f.runs => code(Lent, actions, x) # NoCode)
    BY <2>2, FrameTypes DEF CallFrame
  <2>4. f.runs => Used(Lent, actions, f.contract)
    BY <1>0, <2>1, <2>3, RunningFacts, LegalUsed
  <2>5. Grown(Lent, actions, actions \o more) /\ Settled(actions \o more)
    BY <1>0, <2>1, <2>2, RunningFacts, GrownTransfer
  <2> HIDE DEF f, more
  <2> QED BY <2>1, <2>3, <2>4, <2>5, CallMachine
<1>3. ASSUME NEW x \in Addresses, StaticCall(x) PROVE MachineInv'
  <2> DEFINE f == CallFrame(x, TRUE, code(Lent, actions, x))
  <2>1. Running /\ Enter(f, actions, <<>>)
    BY <1>00, <1>3 DEF StaticCall, CanStep
  <2>2. f \in Frame /\ f.reason = "Call" /\ f.contract = x
        /\ (f.runs => code(Lent, actions, x) # NoCode)
    BY FrameTypes DEF CallFrame
  <2>3. f.runs => Used(Lent, actions, f.contract)
    BY <1>0, <2>1, <2>2, RunningFacts, LegalUsed
  <2>4. actions \o <<>> = actions
    BY <2>1, RunningFacts, NothingAdded
  <2> HIDE DEF f
  <2> QED BY <2>1, <2>2, <2>3, <2>4, RunningFacts, CallMachine
<1>4. ASSUME NEW x \in Addresses, DelegateCall(x) PROVE MachineInv'
  <2> DEFINE f == CallFrame(Top.contract, Top.is_static, code(Lent, actions, x))
  <2>1. Running /\ Top.runs /\ Enter(f, actions, <<>>)
    BY <1>00, <1>4 DEF DelegateCall, CanStep
  <2>2. Top.is_static \in BOOLEAN /\ Top.contract \in Addresses
    BY <2>1, RunningFacts DEF Frame
  <2>3. f \in Frame /\ f.reason = "Call" /\ f.contract = Top.contract
    BY <2>2, FrameTypes DEF CallFrame
  <2>4. actions \o <<>> = actions
    BY <2>1, RunningFacts, NothingAdded
  <2> HIDE DEF f
  <2>5. Used(Lent, actions, f.contract)
    BY <2>1, <2>3, RunningFacts
  <2> QED BY <2>1, <2>3, <2>4, <2>5, RunningFacts, CallMachine
<1>5. ASSUME NEW x \in Addresses, SelfDestruct(x) PROVE MachineInv'
  <2> DEFINE v == balance(world, actions, Top.contract)
             s == actions \o Transfer(Top.contract, x, v)
             e == Destruct(Top.contract)
  <2>1. Running /\ Leave(s \o <<e>>, "suicide") /\ v >= 0
    BY <1>5 DEF SelfDestruct, CanStep
  <2>2. Top.contract \in Addresses /\ Legal(Lent, actions) /\ actions \in Seq(Action)
    BY <2>1, RunningFacts
  <2>3. v \in Nat /\ balance(Lent, actions, Top.contract) >= v
    <3>1. v \in Int /\ balance(Lent, actions, Top.contract) >= v
      BY <2>2, LentBalance DEF Ready
    <3> QED BY <2>1, <3>1
  <2>4. e \in Action /\ e.op = "EvmSelfDestruct"
    BY <2>2 DEF Destruct, Action
  <2> HIDE DEF v, e
  <2>5. Grown(Lent, actions, s) /\ Settled(s)
    <3>1. Grown(Lent, actions, actions) /\ Settled(actions)
      BY <2>1, RunningFacts
    <3> QED BY <1>0, <2>2, <2>3, <3>1, GrownTransfer
  <2> HIDE DEF s
  <2>6. s \in Seq(Action) /\ s \o <<e>> = Append(s, e)
    BY <2>5, AppendOne, IsSeqIntro DEF Grown, Legal
  <2>7. Fits(Lent, s, e) /\ Settled(Append(s, e))
    BY <2>4, <2>5, <2>6, PlainFits
  <2>8. Grown(Lent, actions, Append(s, e))
    BY <2>2, <2>4, <2>5, <2>7, GrownMore
  <2> QED BY <2>1, <2>6, <2>7, <2>8, LeaveGrown
<1>6. ASSUME NEW k \in Wallets, NEW v \in Values, CallWithdraw(k, v) PROVE MachineInv'
  <2> DEFINE s == actions \o Transfer(Top.contract, NeonToken, v)
             u == Transfer(Top.contract, NeonToken, v) \o Withdrawal(k, v)
  <2>0. Running /\ (Step(actions \o u) \/ Step(actions))
        /\ balance(world, actions, Top.contract) >= v /\ v > 0
    BY <1>6 DEF CallWithdraw, CanStep
  <2>2. Top.contract \in Addresses /\ NeonToken \in Addresses /\ v \in Nat \ {0} /\ v \in Nat
        /\ Legal(Lent, actions)
    BY <2>0, RunningFacts, JournalAssumption
  <2>1. Running /\ (Step(actions \o u) \/ Step(actions))
        /\ balance(Lent, actions, Top.contract) >= v /\ v > 0
    BY <2>0, <2>2, RunningFacts, LentBalance DEF Ready
  <2>3. Grown(Lent, actions, s) /\ Settled(s) /\ balance(Lent, s, NeonToken) >= v
    BY <1>0, <2>1, <2>2, RunningFacts, GrownTransfer
  <2>4. actions \o u = s \o Withdrawal(k, v)
    BY <2>1, RunningFacts, TransferIsSeq, WithdrawalIsSeq, Regroup
  <2> HIDE DEF s, u
  <2>5. Grown(Lent, actions, s \o Withdrawal(k, v)) /\ Settled(s \o Withdrawal(k, v))
    BY <1>0, <2>2, <2>3, GrownWithdrawal
  <2>6. CASE Step(actions \o u)
    BY <2>1, <2>4, <2>5, <2>6, StepMachine
  <2>7. CASE Step(actions)
    BY <2>1, <2>7, RunningFacts, StepMachine
  <2> QED BY <2>1, <2>6, <2>7
<1>7. ASSUME NEW k, CallInitializeAccount(k) PROVE MachineInv'
  <2> DEFINE e == TokenCreate(k, operator, Top.contract)
  <2>1. Running /\ k \in DOMAIN derived /\ (Step(actions \o <<e>>) \/ Step(actions))
    BY <1>7 DEF CallInitializeAccount, CanStep
  <2>2. k \in SolanaKeys /\ k # Pool
    BY <2>1, JournalAssumption
  <2>3. e \in Action /\ e.op = "TokenCreate" /\ e.key = k
    BY <1>0, <2>1, <2>2, RunningFacts DEF TokenCreate, Action
  <2> HIDE DEF e
  <2>4. CASE Step(actions \o <<e>>)
    BY <2>1, <2>2, <2>3, <2>4, StepPlain
  <2>5. CASE Step(actions)
    BY <2>1, <2>5, RunningFacts, StepMachine
  <2> QED BY <2>1, <2>4, <2>5
<1>8. ASSUME NEW j \in DOMAIN derived, NEW k \in Wallets, NEW v \in Values,
             CallTokenTransfer(j, k, v)
      PROVE  MachineInv'
  <2> DEFINE e == TokenTransfer(j, k, Top.contract, v)
  <2>1. Running /\ Step(actions \o <<e>>)
    BY <1>8 DEF CallTokenTransfer, CanStep
  <2>2. k \in SolanaKeys /\ k # Pool /\ j \in SolanaKeys /\ j # Pool /\ v \in Nat
    BY JournalAssumption
  <2>3. e \in Action /\ e.op = "TokenTransfer" /\ e.from = j /\ e.to = k
    BY <2>1, <2>2, RunningFacts DEF TokenTransfer, Action
  <2> HIDE DEF e
  <2> QED BY <2>1, <2>2, <2>3, StepPlain
<1>9. ASSUME NEW k, CallGetAccount(k) PROVE MachineInv'
  <2>1. Running /\ Step(actions)
    BY <1>9 DEF CallGetAccount, CanStep
  <2> QED BY <2>1, RunningFacts, StepMachine
<1>10. ASSUME Stop PROVE MachineInv'
  <2>1. Running /\ Leave(actions, "stop")
    BY <1>10 DEF Stop
  <2> QED BY <2>1, RunningFacts, LeaveGrown
<1>11. ASSUME Revert PROVE MachineInv'
  <2> DEFINE p == SubSeq(actions, 1, Last(stack))
  <2>1. Running /\ Leave(p, "revert")
    BY <1>11 DEF Revert
  <2>2. /\ actions \in Seq(Action) /\ p \in Seq(Action) /\ Legal(Lent, p) /\ Settled(p)
        /\ Begins(p, actions)
        /\ \A d \in 1..(Len(stack) - 1) :
              frames[d].reason = "Create" => ~Deploys(actions, frames[d].contract)
    BY <2>1, RunningFacts, TopEntitled DEF Ready, MachineInv
  <2>3. \A x : Deploys(p, x) => Deploys(actions, x)
    <3>1. Len(p) <= Len(actions) /\ SubSeq(actions, 1, Len(p)) = p /\ Len(p) \in Nat
          /\ Len(actions) \in Nat
      BY <2>2 DEF Begins
    <3> HIDE DEF p
    <3>2. \A i \in 1..Len(p) : p[i] = actions[i] /\ i \in 1..Len(actions)
      BY <2>2, <3>1, PrefixFacts
    <3> QED BY <3>2 DEF Deploys
  <2>4. Begins(p, p)
    <3> HIDE DEF p
    <3> QED BY <2>2, PrefixFacts DEF Begins
  <2>5. \A d \in 1..(Len(stack) - 1) :
           frames[d].reason = "Create" => ~Deploys(p, frames[d].contract)
    BY <2>2, <2>3
  <2> QED BY <2>1, <2>2, <2>4, <2>5, LeaveMachine
<1>12. ASSUME Retf PROVE MachineInv'
  BY <1>12, NothingChanges DEF Retf, Ready
<1> QED
  BY <1>1, <1>2, <1>3, <1>4, <1>5, <1>6, <1>7, <1>8, <1>9, <1>10, <1>11, <1>12,
     CreateMachine, ReturnMachine DEF Opcode

-----------------------------------------------------------------------------
(* One action applied *)

SetStorages == {e \in Action : e.op = "EvmSetStorage"}

Faults == {"none", "insufficient funds", "missing account", "already deployed",
           "no contract data", "payer has not signed", "instruction refused",
           "contract expected", "gas not covered"}

ApplyState == [w : World, writes : Seq(SetStorages),
               solana : [SolanaKeys -> SolanaAccount], fault : Faults]

LEMMA FilteredIn ==
    ASSUME NEW E, NEW K, NEW s \in Seq(E)
    PROVE  Filtered(s, K) \in Seq(E)
<1>1. PICK h : /\ Steps(h, Len(s), << >>, FilterSteps(s, K, Seq(E)), Seq(E))
               /\ Filtered(s, K) = h[1..Len(s)]
  BY FilterFold
<1> QED BY <1>1 DEF Steps

\* What an action does to the accounts when it does not fail
Effect(s, a, t) ==
    /\ \A x \in Addresses :
          /\ t.w.balance[x] = s.w.balance[x] + Credit(a, x) - Debit(a, x)
          /\ t.w.nonce[x] = IF a.op = "EvmSelfDestruct" /\ a.address = x THEN 0
                            ELSE IF a = IncrementNonce(x) THEN s.w.nonce[x] + 1
                            ELSE s.w.nonce[x]
          /\ t.w.code[x] = IF a.op = "EvmSelfDestruct" /\ a.address = x THEN NoCode
                           ELSE IF a.op = "EvmSetCode" /\ a.address = x THEN a.code
                           ELSE s.w.code[x]
          /\ t.w.storage[x] = IF a.op = "EvmSelfDestruct" /\ a.address = x
                              THEN [i \in Indices |-> Zero] ELSE s.w.storage[x]
    /\ a.op = "EvmSetCode" => a.code # NoCode
    /\ t.writes = IF a.op = "EvmSetStorage" THEN Append(s.writes, a)
                  ELSE IF a.op = "EvmSelfDestruct"
                  THEN Filtered(s.writes, {b \in Range(s.writes) : b.address # a.address})
                  ELSE s.writes

\* What it does to the pool
PoolEffect(s, a, t) ==
    (a.op = "TokenCreate" => a.key # Pool) /\ (a.op = "TokenTransfer" => a.to # Pool)
    => t.solana[Pool].amount = IF FromPool(a) THEN s.solana[Pool].amount - a.value
                               ELSE s.solana[Pool].amount

\* When it fails for want of funds, or because there is a contract
FaultEffect(s, a, t) ==
    /\ t.fault = "insufficient funds" =>
          /\ a.op \in {"NeonTransfer", "NeonWithdraw"}
          /\ s.w.balance[a.source] < a.value
    /\ t.fault = "already deployed" =>
          a.op = "EvmSetCode" /\ s.w.code[a.address] # NoCode

\* A state from the values of its fields
LEMMA StateFields ==
    ASSUME NEW s \in ApplyState
    PROVE  /\ s.w \in World /\ s.writes \in Seq(SetStorages) /\ s.fault \in Faults
           /\ s.solana \in [SolanaKeys -> SolanaAccount]
           /\ s = [w |-> s.w, writes |-> s.writes, solana |-> s.solana, fault |-> s.fault]
           /\ s.w = [exists |-> s.w.exists, nonce |-> s.w.nonce, balance |-> s.w.balance,
                     code |-> s.w.code, storage |-> s.w.storage]
BY DEF ApplyState, World

\* One action applied to a state without fault
AppliedOne(s, a, t) ==
    /\ t \in ApplyState /\ FaultEffect(s, a, t)
    /\ t.fault = "none" => Effect(s, a, t) /\ PoolEffect(s, a, t)

LEMMA FailedState ==
    ASSUME NEW s \in ApplyState, NEW why \in Faults
    PROVE  Failed(s, why) \in ApplyState /\ Failed(s, why).fault = why
BY DEF Failed, ApplyState

\* A state with other Ethereum accounts
LEMMA AccountsState ==
    ASSUME NEW s \in ApplyState, NEW w \in World
    PROVE  /\ [s EXCEPT !.w = w] \in ApplyState
           /\ [s EXCEPT !.w = w].w = w /\ [s EXCEPT !.w = w].writes = s.writes
           /\ [s EXCEPT !.w = w].solana = s.solana /\ [s EXCEPT !.w = w].fault = s.fault
BY DEF ApplyState

LEMMA TransferEffect ==
    ASSUME NEW s \in ApplyState, s.fault = "none", NEW a \in Action, a.op = "NeonTransfer",
           NEW t, t = ApplyAction(s, a)
    PROVE  AppliedOne(s, a, t)
<1> DEFINE x == a.source
           y == a.target
           v == a.value
           b == s.w.balance
           c == [b EXCEPT ![x] = b[x] - v]
           d == [c EXCEPT ![y] = c[y] + v]
<1>1. x \in Addresses /\ y \in Addresses /\ v \in Nat \ {0}
  BY ActionTypes
<1>2. b \in [Addresses -> Nat]
  BY DEF ApplyState, World
<1>3. CASE b[x] < v
  <2>1. t = Failed(s, "insufficient funds") /\ "insufficient funds" \in Faults
    BY <1>3 DEF ApplyAction, Faults
  <2> QED BY <1>3, <2>1, FailedState DEF AppliedOne, FaultEffect
<1>4. CASE ~(b[x] < v)
  <2>1. t = [s EXCEPT !.w = [s.w EXCEPT !.balance = d]]
    <3>1. t = [s EXCEPT !.w.balance = Moved(@, a)]
      BY <1>4 DEF ApplyAction
    <3>2. Moved(b, a) = d
      BY DEF Moved
    <3> QED BY <3>1, <3>2
  <2>2. d \in [Addresses -> Nat]
    BY <1>1, <1>2, <1>4
  <2>3. \A z \in Addresses : d[z] = b[z] + Credit(a, z) - Debit(a, z)
    BY <1>1, <1>2 DEF Credit, Debit
  <2> HIDE DEF d
  <2>4. t \in ApplyState /\ t.fault = "none" /\ t.solana = s.solana /\ t.writes = s.writes
        /\ t.w = [s.w EXCEPT !.balance = d]
    BY <2>1, <2>2 DEF ApplyState, World
  <2>5. /\ t.w.balance = d /\ t.w.nonce = s.w.nonce /\ t.w.code = s.w.code
        /\ t.w.storage = s.w.storage
    BY <2>4 DEF ApplyState, World
  <2>6. \A z : a # IncrementNonce(z)
    BY DEF IncrementNonce
  <2>7. Effect(s, a, t)
    BY <2>3, <2>4, <2>5, <2>6 DEF Effect
  <2>8. PoolEffect(s, a, t)
    BY <2>4 DEF PoolEffect, FromPool
  <2> QED BY <2>4, <2>7, <2>8 DEF FaultEffect, AppliedOne
<1> QED BY <1>3, <1>4

LEMMA WithdrawEffect ==
    ASSUME NEW s \in ApplyState, s.fault = "none", NEW a \in Action, a.op = "NeonWithdraw",
           NEW t, t = ApplyAction(s, a)
    PROVE  AppliedOne(s, a, t)
<1> DEFINE x == a.source
           v == a.value
           b == s.w.balance
           c == [b EXCEPT ![x] = b[x] - v]
           w == [s.w EXCEPT !.balance = c]
<1>1. x \in Addresses /\ v \in Nat \ {0}
  BY ActionTypes
<1>2. b \in [Addresses -> Nat] /\ s.w \in World
  BY DEF ApplyState, World
<1>3. CASE x \notin s.w.exists
  <2>1. t = Failed(s, "missing account") /\ "missing account" \in Faults
    BY <1>3 DEF ApplyAction, Faults
  <2> QED BY <2>1, FailedState DEF AppliedOne, FaultEffect
<1>4. CASE x \in s.w.exists /\ b[x] < v
  <2>1. t = Failed(s, "insufficient funds") /\ "insufficient funds" \in Faults
    BY <1>4 DEF ApplyAction, Faults
  <2> QED BY <1>4, <2>1, FailedState DEF AppliedOne, FaultEffect
<1>5. CASE x \in s.w.exists /\ ~(b[x] < v)
  <2>1. t = [s EXCEPT !.w = w]
    BY <1>5 DEF ApplyAction
  <2>2. c \in [Addresses -> Nat]
    BY <1>1, <1>2, <1>5
  <2>3. \A z \in Addresses : c[z] = b[z] + Credit(a, z) - Debit(a, z)
    BY <1>1, <1>2 DEF Credit, Debit
  <2> HIDE DEF c
  <2>4. /\ w \in World /\ w.balance = c /\ w.nonce = s.w.nonce /\ w.code = s.w.code
        /\ w.storage = s.w.storage
    BY <1>2, <2>2 DEF World
  <2> HIDE DEF w
  <2>5. t \in ApplyState /\ t.fault = "none" /\ t.solana = s.solana /\ t.writes = s.writes
        /\ t.w = w
    BY <2>1, <2>4, AccountsState
  <2>6. \A z : a # IncrementNonce(z)
    BY DEF IncrementNonce
  <2>7. Effect(s, a, t)
    BY <2>3, <2>4, <2>5, <2>6 DEF Effect
  <2>8. PoolEffect(s, a, t)
    BY <2>5 DEF PoolEffect, FromPool
  <2> QED BY <2>5, <2>7, <2>8 DEF FaultEffect, AppliedOne
<1> QED BY <1>3, <1>4, <1>5

LEMMA NonceEffect ==
    ASSUME NEW s \in ApplyState, s.fault = "none", NEW a \in Action,
           a.op = "EvmIncrementNonce", NEW t, t = ApplyAction(s, a)
    PROVE  AppliedOne(s, a, t)
<1> DEFINE x == a.address
           b == s.w.nonce
           c == [b EXCEPT ![x] = b[x] + 1]
           w == [s.w EXCEPT !.nonce = c]
<1>1. x \in Addresses /\ a = IncrementNonce(x)
  BY ActionTypes
<1>2. b \in [Addresses -> Nat] /\ s.w.balance \in [Addresses -> Nat] /\ s.w \in World
  BY DEF ApplyState, World
<1>3. CASE x \notin s.w.exists
  <2>1. t = Failed(s, "missing account") /\ "missing account" \in Faults
    BY <1>3 DEF ApplyAction, Faults
  <2> QED BY <2>1, FailedState DEF AppliedOne, FaultEffect
<1>4. CASE x \in s.w.exists
  <2>1. t = [s EXCEPT !.w = w]
    BY <1>4 DEF ApplyAction
  <2>2. c \in [Addresses -> Nat]
    BY <1>1, <1>2
  <2>3. \A z \in Addresses : c[z] = IF a = IncrementNonce(z) THEN b[z] + 1 ELSE b[z]
    BY <1>1, <1>2 DEF IncrementNonce
  <2> HIDE DEF c
  <2>4. /\ w \in World /\ w.balance = s.w.balance /\ w.nonce = c /\ w.code = s.w.code
        /\ w.storage = s.w.storage
    BY <1>2, <2>2 DEF World
  <2> HIDE DEF w
  <2>5. t \in ApplyState /\ t.fault = "none" /\ t.solana = s.solana /\ t.writes = s.writes
        /\ t.w = w
    BY <2>1, <2>4, AccountsState
  <2>6. \A z \in Addresses : s.w.balance[z] = s.w.balance[z] + Credit(a, z) - Debit(a, z)
    BY <1>2 DEF Credit, Debit
  <2>7. Effect(s, a, t)
    BY <2>3, <2>4, <2>5, <2>6 DEF Effect
  <2>8. PoolEffect(s, a, t)
    BY <2>5 DEF PoolEffect, FromPool
  <2> QED BY <2>5, <2>7, <2>8 DEF FaultEffect, AppliedOne
<1> QED BY <1>3, <1>4

LEMMA CodeEffect ==
    ASSUME NEW s \in ApplyState, s.fault = "none", NEW a \in Action,
           a.op = "EvmSetCode", NEW t, t = ApplyAction(s, a)
    PROVE  AppliedOne(s, a, t)
<1> DEFINE x == a.address
           b == s.w.code
           c == [b EXCEPT ![x] = a.code]
           w == [s.w EXCEPT !.code = c]
<1>1. x \in Addresses /\ a.code \in Codes \cup {NoCode}
  BY ActionTypes
<1>2. b \in [Addresses -> Codes \cup {NoCode}] /\ s.w.balance \in [Addresses -> Nat]
      /\ s.w \in World
  BY DEF ApplyState, World
<1>3. CASE b[x] # NoCode
  <2>1. t = Failed(s, "already deployed") /\ "already deployed" \in Faults
    BY <1>3 DEF ApplyAction, Faults
  <2> QED BY <1>3, <2>1, FailedState DEF AppliedOne, FaultEffect
<1>4. CASE b[x] = NoCode /\ a.code = NoCode
  <2>1. t = Failed(s, "no contract data") /\ "no contract data" \in Faults
    BY <1>4 DEF ApplyAction, Faults
  <2> QED BY <2>1, FailedState DEF AppliedOne, FaultEffect
<1>5. CASE b[x] = NoCode /\ a.code # NoCode
  <2>1. t = [s EXCEPT !.w = w]
    BY <1>5 DEF ApplyAction
  <2>2. c \in [Addresses -> Codes \cup {NoCode}]
    BY <1>1, <1>2
  <2>3. \A z \in Addresses : c[z] = IF a.address = z THEN a.code ELSE b[z]
    BY <1>1, <1>2
  <2> HIDE DEF c
  <2>4. /\ w \in World /\ w.balance = s.w.balance /\ w.nonce = s.w.nonce /\ w.code = c
        /\ w.storage = s.w.storage
    BY <1>2, <2>2 DEF World
  <2> HIDE DEF w
  <2>5. t \in ApplyState /\ t.fault = "none" /\ t.solana = s.solana /\ t.writes = s.writes
        /\ t.w = w
    BY <2>1, <2>4, AccountsState
  <2>6. \A z \in Addresses : s.w.balance[z] = s.w.balance[z] + Credit(a, z) - Debit(a, z)
    BY <1>2 DEF Credit, Debit
  <2>7. \A z : a # IncrementNonce(z)
    BY DEF IncrementNonce
  <2>8. Effect(s, a, t)
    BY <1>5, <2>3, <2>4, <2>5, <2>6, <2>7 DEF Effect
  <2>9. PoolEffect(s, a, t)
    BY <2>5 DEF PoolEffect, FromPool
  <2> QED BY <2>5, <2>8, <2>9 DEF FaultEffect, AppliedOne
<1> QED BY <1>3, <1>4, <1>5

LEMMA DestructEffect ==
    ASSUME NEW s \in ApplyState, s.fault = "none", NEW a \in Action,
           a.op = "EvmSelfDestruct", NEW t, t = ApplyAction(s, a)
    PROVE  AppliedOne(s, a, t)
<1> DEFINE x == a.address
           zeros == [i \in Indices |-> Zero]
           n == [s.w.nonce EXCEPT ![x] = 0]
           c == [s.w.code EXCEPT ![x] = NoCode]
           st == [s.w.storage EXCEPT ![x] = zeros]
           w == [s.w EXCEPT !.nonce = n, !.code = c, !.storage = st]
           left == Filtered(s.writes, {b \in Range(s.writes) : b.address # x})
<1>1. x \in Addresses /\ zeros \in [Indices -> Cells]
  BY ActionTypes, JournalAssumption
<1>2. /\ s.w \in World /\ s.writes \in Seq(SetStorages)
      /\ s.w.nonce \in [Addresses -> Nat] /\ s.w.balance \in [Addresses -> Nat]
      /\ s.w.code \in [Addresses -> Codes \cup {NoCode}]
      /\ s.w.storage \in [Addresses -> [Indices -> Cells]]
  BY DEF ApplyState, World
<1>3. Deleted(s.w, x) = w
  BY <1>2 DEF Deleted, World
<1>4. t = [s EXCEPT !.w = Deleted(s.w, x), !.writes = left]
  BY DEF ApplyAction
<1>5. /\ n \in [Addresses -> Nat] /\ c \in [Addresses -> Codes \cup {NoCode}]
      /\ st \in [Addresses -> [Indices -> Cells]]
  BY <1>1, <1>2
<1>6. \A z \in Addresses :
         /\ n[z] = IF x = z THEN 0 ELSE s.w.nonce[z]
         /\ c[z] = IF x = z THEN NoCode ELSE s.w.code[z]
         /\ st[z] = IF x = z THEN zeros ELSE s.w.storage[z]
  BY <1>1, <1>2
<1> HIDE DEF n, c, st, left, zeros
<1>7. /\ w \in World /\ w.balance = s.w.balance /\ w.nonce = n /\ w.code = c
      /\ w.storage = st
  BY <1>2, <1>5 DEF World
<1>8. left \in Seq(SetStorages)
  BY <1>2, FilteredIn DEF left
<1> HIDE DEF w
<1>9. t \in ApplyState /\ t.fault = "none" /\ t.solana = s.solana /\ t.writes = left
      /\ t.w = w
  BY <1>3, <1>4, <1>7, <1>8 DEF ApplyState
<1>10. \A z \in Addresses : s.w.balance[z] = s.w.balance[z] + Credit(a, z) - Debit(a, z)
  BY <1>2 DEF Credit, Debit
<1>11. \A z : a # IncrementNonce(z)
  BY DEF IncrementNonce
<1>12. Effect(s, a, t)
  BY <1>6, <1>7, <1>9, <1>10, <1>11 DEF Effect, left, zeros
<1>13. PoolEffect(s, a, t)
  BY <1>9 DEF PoolEffect, FromPool
<1> QED BY <1>9, <1>12, <1>13 DEF FaultEffect, AppliedOne

\* What leaves the Ethereum accounts as they are
LEMMA SameAccounts ==
    ASSUME NEW s \in ApplyState, NEW a \in Action,
           a.op \in {"EvmSetStorage", "TokenCreate", "TokenTransfer"},
           NEW t, t.w = s.w,
           t.writes = IF a.op = "EvmSetStorage" THEN Append(s.writes, a) ELSE s.writes
    PROVE  Effect(s, a, t)
<1>1. s.w.balance \in [Addresses -> Nat]
  BY DEF ApplyState, World
<1>2. \A z \in Addresses : s.w.balance[z] = s.w.balance[z] + Credit(a, z) - Debit(a, z)
  BY <1>1 DEF Credit, Debit
<1>3. \A z : a # IncrementNonce(z)
  BY DEF IncrementNonce
<1> QED BY <1>2, <1>3 DEF Effect

LEMMA StorageEffect ==
    ASSUME NEW s \in ApplyState, s.fault = "none", NEW a \in Action,
           a.op = "EvmSetStorage", NEW t, t = ApplyAction(s, a)
    PROVE  AppliedOne(s, a, t)
<1>1. t = [s EXCEPT !.writes = Append(s.writes, a)]
  BY DEF ApplyAction
<1>2. Append(s.writes, a) \in Seq(SetStorages)
  <2>1. s.writes \in Seq(SetStorages) /\ a \in SetStorages
    BY DEF ApplyState, SetStorages
  <2> QED BY <2>1
<1>3. t \in ApplyState /\ t.fault = "none" /\ t.w = s.w /\ t.solana = s.solana
      /\ t.writes = Append(s.writes, a)
  BY <1>1, <1>2 DEF ApplyState
<1>4. PoolEffect(s, a, t)
  BY <1>3 DEF PoolEffect, FromPool
<1> QED BY <1>3, <1>4, SameAccounts DEF AppliedOne, FaultEffect

\* The accounts of the token program after an instruction it accepts
LEMMA PerformedAccounts ==
    ASSUME NEW m \in [SolanaKeys -> SolanaAccount], NEW a \in Action,
           a.op \in {"TokenCreate", "TokenTransfer"}, Accepted(m, a)
    PROVE  /\ Performed(m, a) \in [SolanaKeys -> SolanaAccount]
           /\ (a.op = "TokenCreate" => a.key # Pool) /\ (a.op = "TokenTransfer" => a.to # Pool)
              => Performed(m, a)[Pool].amount = IF FromPool(a) THEN m[Pool].amount - a.value
                                                ELSE m[Pool].amount
<1>1. Pool \in SolanaKeys
  BY JournalAssumption
<1>2. CASE a.op = "TokenCreate"
  <2> DEFINE new == [owner |-> "token", authority |-> a.authority, amount |-> 0]
  <2>1. Performed(m, a) = [m EXCEPT ![a.key] = new]
    BY <1>2 DEF Performed
  <2>2. a.key \in SolanaKeys /\ a.authority \in Addresses \cup Wallets
    BY <1>2, ActionTypes
  <2>3. new \in SolanaAccount
    BY <2>2 DEF SolanaAccount
  <2> HIDE DEF new
  <2> QED BY <1>1, <1>2, <2>1, <2>2, <2>3 DEF FromPool
<1>3. CASE a.op = "TokenTransfer"
  <2> DEFINE x == a.from
             y == a.to
             v == a.value
             less == [m[x] EXCEPT !.amount = m[x].amount - v]
             taken == [m EXCEPT ![x] = less]
             more == [taken[y] EXCEPT !.amount = taken[y].amount + v]
             given == [taken EXCEPT ![y] = more]
  <2>1. x \in SolanaKeys /\ y \in SolanaKeys /\ v \in Nat
    BY <1>3, ActionTypes
  <2>2. m[x] \in SolanaAccount /\ m[x].amount >= v
    BY <1>3, <2>1 DEF Accepted
  <2>3. Performed(m, a) = given
    BY <1>3 DEF Performed
  <2>4. less \in SolanaAccount /\ less.amount = m[x].amount - v
    <3>1. m[x].amount - v \in Nat
      BY <2>1, <2>2 DEF SolanaAccount
    <3> QED BY <2>2, <3>1 DEF SolanaAccount
  <2> HIDE DEF less
  <2>5. taken \in [SolanaKeys -> SolanaAccount] /\ taken[x] = less
        /\ \A z \in SolanaKeys : z # x => taken[z] = m[z]
    BY <2>1, <2>4
  <2> HIDE DEF taken
  <2>6. more \in SolanaAccount
    <3>1. taken[y] \in SolanaAccount /\ taken[y].amount + v \in Nat
      BY <2>1, <2>5 DEF SolanaAccount
    <3> QED BY <3>1 DEF SolanaAccount
  <2> HIDE DEF more
  <2>7. given \in [SolanaKeys -> SolanaAccount]
        /\ \A z \in SolanaKeys : z # y => given[z] = taken[z]
    BY <2>1, <2>5, <2>6
  <2> HIDE DEF given
  <2>8. y # Pool => Performed(m, a)[Pool] = taken[Pool]
    BY <1>1, <2>3, <2>7
  <2>9. taken[Pool] = IF x = Pool THEN less ELSE m[Pool]
    BY <1>1, <2>1, <2>5
  <2> QED BY <1>3, <2>3, <2>4, <2>7, <2>8, <2>9 DEF FromPool
<1> QED BY <1>2, <1>3

LEMMA ExternalEffect ==
    ASSUME NEW s \in ApplyState, s.fault = "none", NEW a \in Action,
           a.op \in {"TokenCreate", "TokenTransfer"}, NEW t, t = ApplyAction(s, a)
    PROVE  AppliedOne(s, a, t)
<1>1. CASE a.op = "TokenCreate" /\ a.payer # operator
  <2>1. t = Failed(s, "payer has not signed") /\ "payer has not signed" \in Faults
    BY <1>1 DEF ApplyAction, Faults
  <2> QED BY <2>1, FailedState DEF AppliedOne, FaultEffect
<1>2. CASE ~(a.op = "TokenCreate" /\ a.payer # operator) /\ ~Accepted(s.solana, a)
  <2>1. t = Failed(s, "instruction refused") /\ "instruction refused" \in Faults
    BY <1>2 DEF ApplyAction, Faults
  <2> QED BY <2>1, FailedState DEF AppliedOne, FaultEffect
<1>3. CASE ~(a.op = "TokenCreate" /\ a.payer # operator) /\ Accepted(s.solana, a)
  <2> DEFINE m == Performed(s.solana, a)
  <2>1. t = [s EXCEPT !.solana = m]
    BY <1>3 DEF ApplyAction
  <2>2. s.solana \in [SolanaKeys -> SolanaAccount]
    BY DEF ApplyState
  <2>3. /\ m \in [SolanaKeys -> SolanaAccount]
        /\ (a.op = "TokenCreate" => a.key # Pool) /\ (a.op = "TokenTransfer" => a.to # Pool)
           => m[Pool].amount = IF FromPool(a) THEN s.solana[Pool].amount - a.value
                               ELSE s.solana[Pool].amount
    BY <1>3, <2>2, PerformedAccounts
  <2> HIDE DEF m
  <2>4. t \in ApplyState /\ t.fault = "none" /\ t.w = s.w /\ t.solana = m
        /\ t.writes = s.writes
    BY <2>1, <2>3 DEF ApplyState
  <2>5. Effect(s, a, t)
    BY <2>4, SameAccounts
  <2>6. PoolEffect(s, a, t)
    BY <2>3, <2>4 DEF PoolEffect
  <2> QED BY <2>4, <2>5, <2>6 DEF AppliedOne, FaultEffect
<1> QED BY <1>1, <1>2, <1>3

LEMMA ActionApplied ==
    ASSUME NEW s \in ApplyState, NEW a \in Action
    PROVE  /\ ApplyAction(s, a) \in ApplyState
           /\ s.fault = "none" => AppliedOne(s, a, ApplyAction(s, a))
           /\ s.fault # "none" => ApplyAction(s, a) = s
<1>1. CASE s.fault = "none"
  <2>1. AppliedOne(s, a, ApplyAction(s, a))
    BY <1>1, ActionTypes, TransferEffect, WithdrawEffect, NonceEffect, CodeEffect,
       DestructEffect, StorageEffect, ExternalEffect
  <2> QED BY <1>1, <2>1 DEF AppliedOne
<1>2. CASE s.fault # "none"
  BY <1>2 DEF ApplyAction
<1> QED BY <1>1, <1>2

LEMMA ActionsStay == ApplyActionStays(ApplyState, Action)
BY ActionApplied DEF ApplyActionStays

-----------------------------------------------------------------------------
(* First the entries that are kept are applied, in their order *)

\* What was taken from the pool and is not yet withdrawn
Pending(js) == IF Settled(js) THEN 0 ELSE js[Len(js)].value

\* s is as the contracts saw it after p: every balance, ...
Balances(w, s, p) == \A x \in Addresses : s.w.balance[x] = balance(w, p, x)

\* ... all there is of the addresses that are not in D, the writes put off included
Living(w, s, p, D) ==
    \A x \in Addresses \ D :
        /\ s.w.nonce[x] = nonce(w, p, x) /\ s.w.code[x] = code(w, p, x)
        /\ s.w.storage[x] = w.storage[x]
        /\ \A i \in Indices : storage(w, s.writes, x, i) = storage(w, p, x, i)

WritesOutside(s, D) == \A k \in 1..Len(s.writes) : s.writes[k].address \notin D

\* The pool has what is behind all NEON.
Backed(s, p) == Total(s.w.balance, Addresses) <= s.solana[Pool].amount + Pending(p)

\* Some entry of js overdraws a balance of w.
Short(w, js) ==
    \E n \in 1..Len(js), x \in Addresses : balance(w, SubSeq(js, 1, n), x) < 0

\* No check that the contracts relied on has failed, if the balances are there.
Checked(w, s, p) ==
    s.fault # "already deployed" /\ (s.fault = "insufficient funds" => Short(w, p))

AfterKept(w, D, s, p) ==
    /\ s \in ApplyState /\ Checked(w, s, p)
    /\ s.fault = "none" =>
          Balances(w, s, p) /\ Living(w, s, p, D) /\ WritesOutside(s, D) /\ Backed(s, p)

LEMMA ShortLater ==
    ASSUME NEW w, NEW p \in Seq(Action), NEW e \in Action
    PROVE  /\ Short(w, p) => Short(w, Append(p, e))
           /\ \A x \in Addresses :
                 balance(w, Append(p, e), x) < 0 => Short(w, Append(p, e))
<1> DEFINE q == Append(p, e)
<1>1. Len(p) \in Nat /\ q \in Seq(Action) /\ Len(q) = Len(p) + 1
  BY EntryAppended
<1>2. \A n \in 0..Len(p) : SubSeq(q, 1, n) = SubSeq(p, 1, n)
  <2>1. q = p \o <<e>> /\ IsSeq(p) /\ IsSeq(<<e>>)
    BY AppendOne, OneIsSeq, IsSeqIntro
  <2> HIDE DEF q
  <2> QED BY <2>1, ConcatFacts
<1>3. SubSeq(q, 1, Len(q)) = q
  BY <1>1, PrefixFacts
<1> HIDE DEF q
<1>4. ASSUME Short(w, p) PROVE Short(w, q)
  <2> PICK n \in 1..Len(p), x \in Addresses : balance(w, SubSeq(p, 1, n), x) < 0
    BY <1>4 DEF Short
  <2>1. n \in 0..Len(p) /\ n \in 1..Len(q)
    BY <1>1
  <2>2. balance(w, SubSeq(q, 1, n), x) < 0
    BY <1>2, <2>1
  <2> QED BY <2>1, <2>2 DEF Short
<1>5. ASSUME NEW x \in Addresses, balance(w, q, x) < 0 PROVE Short(w, q)
  <2> PICK n \in 1..Len(q) : n = Len(q)
    BY <1>1
  <2>1. balance(w, SubSeq(q, 1, n), x) < 0
    BY <1>3, <1>5
  <2> QED BY <2>1 DEF Short
<1> QED BY <1>4, <1>5 DEF q

LEMMA BalancesStep ==
    ASSUME NEW w \in World, NEW p \in Seq(Action), NEW e \in Action, NEW s, Balances(w, s, p),
           NEW t, \A x \in Addresses :
              t.w.balance[x] = s.w.balance[x] + Credit(e, x) - Debit(e, x)
    PROVE  Balances(w, t, Append(p, e))
BY BalanceAppend DEF Balances

LEMMA LivingStep ==
    ASSUME NEW w \in World, NEW p \in Seq(Action), NEW e \in Action, NEW D,
           NEW s \in ApplyState, Living(w, s, p, D), e.op # "EvmSelfDestruct",
           NEW u, Fits(u, p, e), NEW t, Effect(s, e, t)
    PROVE  Living(w, t, Append(p, e), D)
<1> DEFINE q == Append(p, e)
<1> SUFFICES ASSUME NEW x \in Addresses \ D
             PROVE  /\ t.w.nonce[x] = nonce(w, q, x) /\ t.w.code[x] = code(w, q, x)
                    /\ t.w.storage[x] = w.storage[x]
                    /\ \A i \in Indices : storage(w, t.writes, x, i) = storage(w, q, x, i)
  BY DEF Living
<1>1. /\ s.w.nonce[x] = nonce(w, p, x) /\ s.w.code[x] = code(w, p, x)
      /\ s.w.storage[x] = w.storage[x]
      /\ \A i \in Indices : storage(w, s.writes, x, i) = storage(w, p, x, i)
  BY DEF Living
<1>2. /\ t.w.nonce[x] = IF e = IncrementNonce(x) THEN s.w.nonce[x] + 1 ELSE s.w.nonce[x]
      /\ t.w.code[x] = IF e.op = "EvmSetCode" /\ e.address = x THEN e.code ELSE s.w.code[x]
      /\ t.w.storage[x] = s.w.storage[x]
      /\ t.writes = IF e.op = "EvmSetStorage" THEN Append(s.writes, e) ELSE s.writes
  BY DEF Effect
<1>3. t.w.nonce[x] = nonce(w, q, x)
  BY <1>1, <1>2, NonceAppend
<1>4. t.w.code[x] = code(w, q, x)
  <2>1. CASE Deploys(p, x)
    <3>1. ~(e.op = "EvmSetCode" /\ e.address = x)
      BY <2>1 DEF Fits
    <3> QED BY <1>1, <1>2, <2>1, <3>1, CodeAppend
  <2>2. CASE ~Deploys(p, x)
    BY <1>1, <1>2, <2>2, CodeAppend
  <2> QED BY <2>1, <2>2
<1>5. ASSUME NEW i \in Indices PROVE storage(w, t.writes, x, i) = storage(w, q, x, i)
  <2>1. storage(w, q, x, i) = IF WritesCell(e, x, i) THEN e.value ELSE storage(w, p, x, i)
    BY StorageAppend
  <2>2. CASE e.op = "EvmSetStorage"
    <3>1. s.writes \in Seq(SetStorages) /\ e \in SetStorages
      BY <2>2 DEF ApplyState, SetStorages
    <3>2. storage(w, Append(s.writes, e), x, i) =
             IF WritesCell(e, x, i) THEN e.value ELSE storage(w, s.writes, x, i)
      BY <3>1, StorageAppend
    <3> QED BY <1>1, <1>2, <2>1, <2>2, <3>2
  <2>3. CASE e.op # "EvmSetStorage"
    BY <1>1, <1>2, <2>1, <2>3 DEF WritesCell
  <2> QED BY <2>2, <2>3
<1> QED BY <1>1, <1>2, <1>3, <1>4, <1>5

\* An entry that is not kept says nothing of the addresses that stay.
LEMMA LivingSkip ==
    ASSUME NEW w \in World, NEW p \in Seq(Action), NEW e \in Action, NEW D,
           NEW s, Living(w, s, p, D),
           e.op \in {"EvmIncrementNonce", "EvmSelfDestruct", "EvmSetStorage", "EvmSetCode"},
           e.op # "EvmSelfDestruct" => e.address \in D
    PROVE  Living(w, s, Append(p, e), D)
<1> DEFINE q == Append(p, e)
<1> SUFFICES ASSUME NEW x \in Addresses \ D
             PROVE  /\ s.w.nonce[x] = nonce(w, q, x) /\ s.w.code[x] = code(w, q, x)
                    /\ s.w.storage[x] = w.storage[x]
                    /\ \A i \in Indices : storage(w, s.writes, x, i) = storage(w, q, x, i)
  BY DEF Living
<1>1. /\ s.w.nonce[x] = nonce(w, p, x) /\ s.w.code[x] = code(w, p, x)
      /\ s.w.storage[x] = w.storage[x]
      /\ \A i \in Indices : storage(w, s.writes, x, i) = storage(w, p, x, i)
  BY DEF Living
<1>2. /\ e # IncrementNonce(x) /\ ~(e.op = "EvmSetCode" /\ e.address = x)
      /\ \A i : ~WritesCell(e, x, i)
  BY DEF IncrementNonce, WritesCell
<1>3. s.w.nonce[x] = nonce(w, q, x)
  BY <1>1, <1>2, NonceAppend
<1>4. s.w.code[x] = code(w, q, x)
  BY <1>1, <1>2, CodeAppend
<1>5. ASSUME NEW i \in Indices PROVE storage(w, s.writes, x, i) = storage(w, q, x, i)
  <2>1. storage(w, q, x, i) = storage(w, p, x, i)
    BY <1>2, StorageAppend
  <2> QED BY <1>1, <2>1
<1> QED BY <1>1, <1>3, <1>4, <1>5

\* What is pending after one entry more
LEMMA PendingAppend ==
    ASSUME NEW w, NEW p \in Seq(Action), NEW e \in Action, Fits(w, p, e)
    PROVE  /\ Pending(Append(p, e)) = IF FromPool(e) THEN e.value ELSE 0
           /\ Pending(p) = IF e.op = "NeonWithdraw" THEN e.value ELSE 0
<1>1. /\ Len(p) \in Nat /\ Len(Append(p, e)) = Len(p) + 1 /\ Append(p, e)[Len(p) + 1] = e
  BY EntryAppended
<1>2. Settled(Append(p, e)) <=> ~FromPool(e)
  BY <1>1 DEF Settled
<1> QED BY <1>1, <1>2 DEF Pending, Fits

\* The sum of all balances after one entry more
LEMMA SupplyStep ==
    ASSUME NEW s \in ApplyState, NEW e \in Action, NEW t, t \in ApplyState, Effect(s, e, t)
    PROVE  /\ Total(s.w.balance, Addresses) \in Int
           /\ Total(t.w.balance, Addresses) = Total(s.w.balance, Addresses) -
                 (IF e.op = "NeonWithdraw" THEN e.value ELSE 0)
<1> DEFINE b == s.w.balance
           c == t.w.balance
<1>1. b \in [Addresses -> Nat] /\ c \in [Addresses -> Nat] /\ IsFiniteSet(Addresses)
  BY GenesisAssumption DEF ApplyState, World
<1>2. \A x \in Addresses : c[x] = b[x] + Credit(e, x) - Debit(e, x)
  BY DEF Effect
<1> HIDE DEF b, c
<1>3. Total(b, Addresses) \in Int
  BY <1>1, TotalType
<1>4. CASE e.op = "NeonTransfer"
  <2> DEFINE x == e.source
             y == e.target
             v == e.value
             d == [b EXCEPT ![x] = b[x] - v]
  <2>1. x \in Addresses /\ y \in Addresses /\ v \in Nat /\ -v \in Int
    BY <1>4, ActionTypes
  <2> HIDE DEF x, y, v
  <2>2. \A z \in Addresses : d[z] \in Int
    BY <1>1, <2>1
  <2>3. d[x] = b[x] + (-v) /\ \A z \in Addresses : z # x => d[z] = b[z]
    BY <1>1, <2>1
  <2>4. c[y] = d[y] + v /\ \A z \in Addresses : z # y => c[z] = d[z]
    BY <1>1, <1>2, <1>4, <2>1, <2>3 DEF Credit, Debit, x, y, v
  <2> HIDE DEF d
  <2>5. \A z \in Addresses : b[z] \in Int
    BY <1>1
  <2>6. Total(d, Addresses) = Total(b, Addresses) + (-v)
    BY <1>1, <2>1, <2>3, <2>5, TotalUpdate
  <2>7. Total(c, Addresses) = Total(d, Addresses) + v
    BY <1>1, <2>1, <2>2, <2>4, TotalUpdate
  <2>8. Total(c, Addresses) = Total(b, Addresses)
    BY <1>3, <2>1, <2>6, <2>7
  <2> QED BY <1>3, <1>4, <2>8 DEF b, c
<1>5. CASE e.op = "NeonWithdraw"
  <2> DEFINE x == e.source
             v == e.value
  <2>1. x \in Addresses /\ v \in Nat /\ -v \in Int
    BY <1>5, ActionTypes
  <2>2. c[x] = b[x] + (-v) /\ \A z \in Addresses : z # x => c[z] = b[z]
    BY <1>1, <1>2, <1>5, <2>1 DEF Credit, Debit
  <2> HIDE DEF x, v
  <2>3. \A z \in Addresses : b[z] \in Int
    BY <1>1
  <2>4. Total(c, Addresses) = Total(b, Addresses) + (-v)
    BY <1>1, <2>1, <2>2, <2>3, TotalUpdate
  <2>5. Total(c, Addresses) = Total(b, Addresses) - v
    BY <1>3, <2>1, <2>4
  <2> QED BY <1>3, <1>5, <2>5 DEF b, c, v
<1>6. CASE e.op \notin {"NeonTransfer", "NeonWithdraw"}
  <2>1. \A z \in Addresses : c[z] = b[z] /\ b[z] \in Int
    BY <1>1, <1>2, <1>6 DEF Credit, Debit
  <2>2. Total(c, Addresses) = Total(b, Addresses)
    BY <1>1, <2>1, TotalSame
  <2> QED BY <1>3, <1>6, <2>2 DEF b, c
<1> QED BY <1>4, <1>5, <1>6

LEMMA BackedStep ==
    ASSUME NEW w, NEW p \in Seq(Action), NEW e \in Action, Fits(w, p, e),
           NEW s \in ApplyState, Backed(s, p),
           NEW t, t \in ApplyState, Effect(s, e, t), PoolEffect(s, e, t)
    PROVE  Backed(t, Append(p, e))
<1> DEFINE a == Total(s.w.balance, Addresses)
           b == Total(t.w.balance, Addresses)
           m == s.solana[Pool].amount
           n == t.solana[Pool].amount
           q == Append(p, e)
<1>1. Pool \in SolanaKeys
  BY JournalAssumption
<1>2. m \in Nat /\ n \in Nat
  BY <1>1 DEF ApplyState, SolanaAccount
<1>3. n = IF FromPool(e) THEN m - e.value ELSE m
  BY DEF PoolEffect, Fits
<1>4. a \in Int /\ b = a - (IF e.op = "NeonWithdraw" THEN e.value ELSE 0)
  BY SupplyStep
<1>5. a <= m + Pending(p)
  BY DEF Backed
<1>6. /\ Pending(q) = IF FromPool(e) THEN e.value ELSE 0
      /\ Pending(p) = IF e.op = "NeonWithdraw" THEN e.value ELSE 0
  BY PendingAppend
<1>7. (FromPool(e) => e.op = "TokenTransfer" /\ e.value \in Nat)
      /\ (e.op = "NeonWithdraw" => e.value \in Nat)
  BY ActionTypes DEF FromPool
<1> HIDE DEF a, b, m, n, q
<1>8. b <= n + Pending(q)
  <2>1. CASE FromPool(e)
    <3>1. e.op # "NeonWithdraw" /\ e.value \in Nat
      BY <1>7, <2>1
    <3> QED BY <1>2, <1>3, <1>4, <1>5, <1>6, <2>1, <3>1
  <2>2. CASE e.op = "NeonWithdraw"
    <3>1. ~FromPool(e) /\ e.value \in Nat
      BY <1>7, <2>2
    <3> QED BY <1>2, <1>3, <1>4, <1>5, <1>6, <2>2, <3>1
  <2>3. CASE ~FromPool(e) /\ e.op # "NeonWithdraw"
    BY <1>2, <1>3, <1>4, <1>5, <1>6, <2>3
  <2> QED BY <2>1, <2>2, <2>3
<1> QED BY <1>8 DEF Backed, a, b, m, n, q

\* Is the entry e kept, when the addresses D are destroyed?
Keeping(e, D) ==
    \/ e.op \in {"NeonTransfer", "NeonWithdraw"} \/ External(e)
    \/ e.op # "EvmSelfDestruct" /\ e.address \notin D

\* The entries fit the accounts u, which may have more than the accounts w.
LEMMA KeptStep ==
    ASSUME NEW w \in World, NEW D, NEW p \in Seq(Action), NEW u, u.code = w.code,
           NEW e \in Action, Fits(u, p, e), NEW s, AfterKept(w, D, s, p), Keeping(e, D)
    PROVE  AfterKept(w, D, ApplyAction(s, e), Append(p, e))
<1> DEFINE t == ApplyAction(s, e)
           q == Append(p, e)
<1>1. s \in ApplyState /\ Checked(w, s, p)
  BY DEF AfterKept
<1>2. CASE s.fault # "none"
  <2>1. t = s
    BY <1>1, <1>2, ActionApplied
  <2>2. Checked(w, s, q)
    BY <1>1, ShortLater DEF Checked
  <2> QED BY <1>1, <1>2, <2>1, <2>2 DEF AfterKept
<1>3. CASE s.fault = "none"
  <2>1. Balances(w, s, p) /\ Living(w, s, p, D) /\ WritesOutside(s, D) /\ Backed(s, p)
    BY <1>3 DEF AfterKept
  <2>2. AppliedOne(s, e, t)
    BY <1>1, <1>3, ActionApplied
  <2>3. t \in ApplyState /\ FaultEffect(s, e, t)
    BY <2>2 DEF AppliedOne
  <2> HIDE DEF t
  <2>4. e.op # "EvmSelfDestruct" /\ (e.op = "EvmSetCode" => e.address \notin D)
        /\ (e.op = "EvmSetStorage" => e.address \notin D)
    BY DEF Keeping, External
  <2>5. ASSUME t.fault = "insufficient funds" PROVE Short(w, q)
    <3> DEFINE x == e.source
    <3>1. e.op \in {"NeonTransfer", "NeonWithdraw"} /\ s.w.balance[x] < e.value
      BY <2>3, <2>5 DEF FaultEffect
    <3>2. x \in Addresses /\ e.value \in Nat
      BY <3>1, ActionTypes
    <3>3. s.w.balance[x] = balance(w, p, x)
      BY <2>1, <3>2 DEF Balances
    <3>4. Credit(e, x) = 0 /\ Debit(e, x) = e.value
      BY <3>1 DEF Fits, Credit, Debit
    <3> HIDE DEF x
    <3>5. balance(w, p, x) \in Int
          /\ balance(w, q, x) = balance(w, p, x) + Credit(e, x) - Debit(e, x)
      BY <3>2, BalanceAppend
    <3> HIDE DEF q
    <3>6. balance(w, q, x) < 0
      BY <3>1, <3>2, <3>3, <3>4, <3>5
    <3> QED BY <3>2, <3>6, ShortLater DEF q
  <2>6. t.fault # "already deployed"
    <3> SUFFICES ASSUME t.fault = "already deployed" PROVE FALSE
      OBVIOUS
    <3>1. e.op = "EvmSetCode" /\ s.w.code[e.address] # NoCode
      BY <2>3 DEF FaultEffect
    <3>2. e.address \in Addresses \ D
      BY <2>4, <3>1, ActionTypes
    <3>3. s.w.code[e.address] = code(w, p, e.address)
      BY <2>1, <3>2 DEF Living
    <3>4. w.code[e.address] = NoCode /\ ~Deploys(p, e.address)
      BY <3>1 DEF Fits
    <3>5. code(w, p, e.address) = w.code[e.address]
      BY <3>2, <3>4, CodeAppend
    <3> QED BY <3>1, <3>3, <3>4, <3>5
  <2>7. ASSUME t.fault = "none"
        PROVE  Balances(w, t, q) /\ Living(w, t, q, D) /\ WritesOutside(t, D) /\ Backed(t, q)
    <3>1. Effect(s, e, t) /\ PoolEffect(s, e, t)
      BY <2>2, <2>7 DEF AppliedOne
    <3>2. Balances(w, t, q)
      BY <2>1, <3>1, BalancesStep DEF Effect
    <3>3. Living(w, t, q, D)
      BY <1>1, <2>1, <2>4, <3>1, LivingStep
    <3>4. WritesOutside(t, D)
      <4>1. CASE e.op = "EvmSetStorage"
        <5>1. t.writes = Append(s.writes, e) /\ e.address \notin D /\ s.writes \in Seq(SetStorages)
              /\ e \in SetStorages
          BY <1>1, <2>4, <3>1, <4>1 DEF Effect, ApplyState, SetStorages
        <5>2. /\ Len(s.writes) \in Nat /\ Len(t.writes) = Len(s.writes) + 1
              /\ \A k \in 1..Len(s.writes) : t.writes[k] = s.writes[k]
              /\ t.writes[Len(s.writes) + 1] = e
          BY <5>1, EntryAppended
        <5> QED BY <2>1, <5>1, <5>2 DEF WritesOutside
      <4>2. CASE e.op # "EvmSetStorage"
        BY <2>1, <2>4, <3>1, <4>2 DEF Effect, WritesOutside
      <4> QED BY <4>1, <4>2
    <3>5. Backed(t, q)
      BY <1>1, <2>1, <2>3, <3>1, BackedStep
    <3> QED BY <3>2, <3>3, <3>4, <3>5
  <2>8. AfterKept(w, D, t, q)
    BY <2>3, <2>5, <2>6, <2>7 DEF AfterKept, Checked
  <2> QED BY <2>8 DEF t
<1> QED BY <1>2, <1>3

LEMMA KeptSkip ==
    ASSUME NEW w \in World, NEW D, NEW p \in Seq(Action),
           NEW u, NEW e \in Action, Fits(u, p, e), NEW s, AfterKept(w, D, s, p), ~Keeping(e, D)
    PROVE  AfterKept(w, D, s, Append(p, e))
<1> DEFINE q == Append(p, e)
<1>1. /\ e.op \in {"EvmIncrementNonce", "EvmSelfDestruct", "EvmSetStorage", "EvmSetCode"}
      /\ e.op # "EvmSelfDestruct" => e.address \in D
  BY ActionTypes DEF Keeping, External
<1>2. s \in ApplyState /\ Checked(w, s, q)
  BY ShortLater DEF AfterKept, Checked
<1>3. ASSUME s.fault = "none"
      PROVE  Balances(w, s, q) /\ Living(w, s, q, D) /\ WritesOutside(s, D) /\ Backed(s, q)
  <2>1. Balances(w, s, p) /\ Living(w, s, p, D) /\ WritesOutside(s, D) /\ Backed(s, p)
    BY <1>3 DEF AfterKept
  <2>2. Balances(w, s, q)
    <3>1. s.w.balance \in [Addresses -> Nat]
      BY <1>2 DEF ApplyState, World
    <3>2. \A x : Credit(e, x) = 0 /\ Debit(e, x) = 0
      BY <1>1 DEF Credit, Debit
    <3>3. \A x \in Addresses : s.w.balance[x] = s.w.balance[x] + Credit(e, x) - Debit(e, x)
      BY <3>1, <3>2
    <3> QED BY <2>1, <3>3, BalancesStep
  <2>3. Living(w, s, q, D)
    BY <1>1, <2>1, LivingSkip
  <2>4. Pending(q) = 0 /\ Pending(p) = 0
    BY <1>1, PendingAppend DEF FromPool
  <2>5. Backed(s, q)
    BY <2>1, <2>4 DEF Backed
  <2> QED BY <2>1, <2>2, <2>3, <2>5
<1> QED BY <1>2, <1>3 DEF AfterKept

\* Appending in front of which something stands
LEMMA AppendAfter ==
    ASSUME NEW E, NEW r \in Seq(E), NEW s \in Seq(E), NEW e \in E
    PROVE  /\ r \o Append(s, e) = Append(r \o s, e) /\ r \o s \in Seq(E)
           /\ r \o << >> = r /\ << >> \o r = r
<1>1. r \o Append(s, e) = Append(r \o s, e) /\ r \o s \in Seq(E)
  OBVIOUS
<1>2. r \o << >> = r /\ << >> \o r = r
  OBVIOUS
<1> QED BY <1>1, <1>2

LEMMA FilteredNothing ==
    ASSUME NEW K
    PROVE  Filtered(<< >>, K) = << >>
<1>1. << >> \in Seq({0}) /\ 0 \in {0}
  OBVIOUS
<1> QED BY <1>1, FilteredAppend

\* Nothing is filtered out of what is wanted as a whole.
LEMMA FilteredAll ==
    ASSUME NEW E, NEW s \in Seq(E), NEW K, \A k \in 1..Len(s) : s[k] \in K
    PROVE  Filtered(s, K) = s
<1> DEFINE p(k) == SubSeq(s, 1, k)
           T == {k \in Nat : k <= Len(s) => Filtered(p(k), K) = p(k)}
<1>1. Len(s) \in Nat /\ p(0) = << >> /\ p(Len(s)) = s
  BY PrefixFacts
<1>2. 0 \in T
  <2> HIDE DEF p
  <2> QED BY <1>1, FilteredNothing
<1>3. ASSUME NEW j \in Nat, j \in T PROVE j + 1 \in T
  <2> SUFFICES ASSUME j + 1 <= Len(s) PROVE Filtered(p(j + 1), K) = p(j + 1)
    OBVIOUS
  <2>1. j + 1 \in 1..Len(s) /\ (j + 1) - 1 = j /\ j \in 0..Len(s)
    BY <1>1
  <2>2. /\ p(j) \in Seq(E) /\ s[j + 1] \in E /\ s[j + 1] \in K
        /\ p(j + 1) = Append(p(j), s[j + 1])
    BY <1>1, <2>1, PrefixFacts
  <2>3. Filtered(p(j), K) = p(j)
    BY <1>3, <2>1
  <2> HIDE DEF p
  <2>4. Filtered(p(j + 1), K) = FilterStep(Filtered(p(j), K), s[j + 1], K)
    BY <2>2, FilteredAppend
  <2> QED BY <2>2, <2>3, <2>4 DEF FilterStep
<1> HIDE DEF T
<1>4. Len(s) \in T
  BY <1>1, <1>2, <1>3, NumberInduction
<1>5. Filtered(p(Len(s)), K) = p(Len(s))
  <2> HIDE DEF p
  <2> QED BY <1>1, <1>4 DEF T
<1> HIDE DEF p
<1> QED BY <1>1, <1>5

\* What is applied of js to base: what is kept, and then the destructions in p
AppliedKept(base, js, p) == AllApplyAction(base, Filtered(p, Kept(js)))

AppliedBoth(base, js, p) ==
    AllApplyAction(base, Filtered(js, Kept(js)) \o Filtered(p, Destructs(js)))

LEMMA KeptEntries ==
    ASSUME NEW js \in Seq(Action), NEW k \in 1..Len(js)
    PROVE  /\ js[k] \in Kept(js) <=> Keeping(js[k], Destroyed(js))
           /\ js[k] \in Destructs(js) <=> js[k].op = "EvmSelfDestruct"
<1>1. js[k] \in Range(js)
  BY DEF Range
<1> QED BY <1>1 DEF Kept, Destructs, Keeping

\* The first phase
LEMMA AfterKeptHolds ==
    ASSUME NEW w \in World, NEW u, u.code = w.code,
           NEW js, Legal(u, js), NEW base \in ApplyState,
           AfterKept(w, Destroyed(js), base, << >>)
    PROVE  AfterKept(w, Destroyed(js), AppliedKept(base, js, js), js)
<1> DEFINE p(k) == SubSeq(js, 1, k)
           D == Destroyed(js)
           K == Kept(js)
           A(k) == AllApplyAction(base, Filtered(p(k), K))
           T == {k \in Nat : k <= Len(js) => AfterKept(w, D, A(k), p(k))}
<1>1. /\ js \in Seq(Action) /\ Len(js) \in Nat /\ p(0) = << >> /\ p(Len(js)) = js
      /\ << >> \in Seq(Action)
  BY PrefixFacts DEF Legal
<1>2. Filtered(<< >>, K) = << >> /\ AllApplyAction(base, << >>) = base
  <2>1. AllApplyAction(base, << >>) = base
    BY ActionsStay, ApplyActionNothing
  <2> QED BY <2>1, FilteredNothing
<1>3. 0 \in T
  <2>1. A(0) = base
    BY <1>1, <1>2
  <2> HIDE DEF A, p
  <2> QED BY <1>1, <2>1
<1>4. ASSUME NEW j \in Nat, j \in T PROVE j + 1 \in T
  <2> SUFFICES ASSUME j + 1 <= Len(js) PROVE AfterKept(w, D, A(j + 1), p(j + 1))
    OBVIOUS
  <2> DEFINE e == js[j + 1]
             f == Filtered(p(j), K)
  <2>1. j + 1 \in 1..Len(js) /\ (j + 1) - 1 = j /\ j \in 0..Len(js)
    BY <1>1
  <2>2. /\ p(j) \in Seq(Action) /\ e \in Action /\ p(j + 1) = Append(p(j), e)
    BY <1>1, <2>1, PrefixFacts
  <2>3. Fits(u, p(j), e)
    <3>1. Fits(u, SubSeq(js, 1, (j + 1) - 1), js[j + 1])
      BY <2>1 DEF Legal
    <3> QED BY <2>1, <3>1
  <2>5. AfterKept(w, D, A(j), p(j))
    BY <1>4, <2>1
  <2>6. e \in K <=> Keeping(e, D)
    BY <1>1, <2>1, KeptEntries
  <2> HIDE DEF p, e, K, D
  <2>7. f \in Seq(Action) /\ Filtered(p(j + 1), K) = FilterStep(f, e, K)
    BY <2>2, FilteredAppend
  <2> HIDE DEF f
  <2>8. A(j) = AllApplyAction(base, f) /\ A(j + 1) = AllApplyAction(base, FilterStep(f, e, K))
    BY <2>7 DEF f
  <2> HIDE DEF A
  <2>9. CASE Keeping(e, D)
    <3>1. FilterStep(f, e, K) = Append(f, e)
      BY <2>6, <2>9 DEF FilterStep
    <3>2. AllApplyAction(base, Append(f, e)) = ApplyAction(AllApplyAction(base, f), e)
      BY <2>2, <2>7, ActionsStay, ApplyActionAppend
    <3>3. A(j + 1) = ApplyAction(A(j), e)
      BY <2>8, <3>1, <3>2
    <3>4. AfterKept(w, D, ApplyAction(A(j), e), Append(p(j), e))
      BY <2>2, <2>3, <2>5, <2>9, KeptStep
    <3> QED BY <2>2, <3>3, <3>4
  <2>10. CASE ~Keeping(e, D)
    <3>1. A(j + 1) = A(j)
      BY <2>6, <2>8, <2>10 DEF FilterStep
    <3>2. AfterKept(w, D, A(j), Append(p(j), e))
      BY <2>2, <2>3, <2>5, <2>10, KeptSkip
    <3> QED BY <2>2, <3>1, <3>2
  <2> QED BY <2>9, <2>10
<1> HIDE DEF T
<1>5. Len(js) \in T
  BY <1>1, <1>3, <1>4, NumberInduction
<1>6. AfterKept(w, D, A(Len(js)), p(Len(js)))
  <2> HIDE DEF A, p, D
  <2> QED BY <1>1, <1>5 DEF T
<1>7. A(Len(js)) = AppliedKept(base, js, js)
  BY <1>1 DEF AppliedKept
<1> HIDE DEF A, p
<1> QED BY <1>1, <1>6, <1>7

-----------------------------------------------------------------------------
(* Then the destructions *)

Gone(s, x) ==
    /\ s.w.nonce[x] = 0 /\ s.w.code[x] = NoCode
    /\ s.w.storage[x] = [i \in Indices |-> Zero]

\* What p destroys is gone.
GoneAfter(s, p) == \A j \in 1..Len(p) : p[j].op = "EvmSelfDestruct" => Gone(s, p[j].address)

AfterBoth(w, js, s, p) ==
    /\ AfterKept(w, Destroyed(js), s, js)
    /\ s.fault = "none" => GoneAfter(s, p)

LEMMA DestroyedIn ==
    ASSUME NEW js \in Seq(Action), NEW x
    PROVE  x \in Destroyed(js) <=>
              \E j \in 1..Len(js) : js[j].op = "EvmSelfDestruct" /\ js[j].address = x
BY DEF Destroyed

LEMMA DestroyStep ==
    ASSUME NEW w \in World, NEW js \in Seq(Action), NEW s, NEW p \in Seq(Action),
           AfterBoth(w, js, s, p),
           NEW e \in Action, e.op = "EvmSelfDestruct", e.address \in Destroyed(js)
    PROVE  AfterBoth(w, js, ApplyAction(s, e), Append(p, e))
<1> DEFINE t == ApplyAction(s, e)
           q == Append(p, e)
           D == Destroyed(js)
           x == e.address
<1>1. s \in ApplyState /\ AfterKept(w, D, s, js)
  BY DEF AfterBoth, AfterKept
<1>2. CASE s.fault # "none"
  <2>1. t = s
    BY <1>1, <1>2, ActionApplied
  <2> QED BY <1>1, <1>2, <2>1 DEF AfterBoth
<1>3. CASE s.fault = "none"
  <2>1. /\ Balances(w, s, js) /\ Living(w, s, js, D) /\ WritesOutside(s, D) /\ Backed(s, js)
        /\ GoneAfter(s, p)
    BY <1>3 DEF AfterKept, AfterBoth
  <2>2. AppliedOne(s, e, t)
    BY <1>1, <1>3, ActionApplied
  <2> HIDE DEF t
  <2>3. t \in ApplyState /\ Checked(w, t, js)
    BY <2>2 DEF AppliedOne, FaultEffect, Checked
  <2>4. ASSUME t.fault = "none"
        PROVE  /\ Balances(w, t, js) /\ Living(w, t, js, D) /\ WritesOutside(t, D)
               /\ Backed(t, js) /\ GoneAfter(t, q)
    <3>1. Effect(s, e, t) /\ PoolEffect(s, e, t)
      BY <2>2, <2>4 DEF AppliedOne
    <3>2. Balances(w, t, js)
      <4>1. s.w.balance \in [Addresses -> Nat]
        BY <1>1 DEF ApplyState, World
      <4>2. \A z : Credit(e, z) = 0 /\ Debit(e, z) = 0
        BY DEF Credit, Debit
      <4>3. \A z \in Addresses : t.w.balance[z] = s.w.balance[z]
        BY <3>1, <4>1, <4>2 DEF Effect
      <4> QED BY <2>1, <4>3 DEF Balances
    <3>3. t.writes = s.writes
      <4> DEFINE K == {b \in Range(s.writes) : b.address # x}
      <4>1. s.writes \in Seq(SetStorages)
        BY <1>1 DEF ApplyState
      <4>2. \A k \in 1..Len(s.writes) : s.writes[k] \in K
        <5>1. \A k \in 1..Len(s.writes) : s.writes[k] \in Range(s.writes)
          BY <4>1 DEF Range
        <5> QED BY <2>1, <5>1 DEF WritesOutside
      <4>3. t.writes = Filtered(s.writes, K)
        BY <3>1 DEF Effect
      <4> HIDE DEF K
      <4> QED BY <4>1, <4>2, <4>3, FilteredAll
    <3>4. \A z \in Addresses : x # z =>
             /\ t.w.nonce[z] = s.w.nonce[z] /\ t.w.code[z] = s.w.code[z]
             /\ t.w.storage[z] = s.w.storage[z]
      BY <3>1 DEF Effect, IncrementNonce
    <3>5. Living(w, t, js, D)
      BY <2>1, <3>3, <3>4 DEF Living
    <3>6. WritesOutside(t, D)
      BY <2>1, <3>3 DEF WritesOutside
    <3>7. Backed(t, js)
      <4>1. Total(t.w.balance, Addresses) = Total(s.w.balance, Addresses)
        <5>1. /\ Total(s.w.balance, Addresses) \in Int
              /\ Total(t.w.balance, Addresses) = Total(s.w.balance, Addresses) - 0
          BY <1>1, <2>3, <3>1, SupplyStep
        <5> QED BY <5>1
      <4>2. t.solana[Pool].amount = s.solana[Pool].amount
        BY <3>1 DEF PoolEffect, FromPool
      <4> QED BY <2>1, <4>1, <4>2 DEF Backed
    <3>8. x \in Addresses /\ Gone(t, x)
      <4>1. x \in Addresses
        BY ActionTypes
      <4> QED BY <3>1, <4>1 DEF Effect, Gone
    <3>9. GoneAfter(t, q)
      <4>1. /\ Len(p) \in Nat /\ Len(q) = Len(p) + 1 /\ q[Len(p) + 1] = e
            /\ \A j \in 1..Len(p) : q[j] = p[j] /\ p[j] \in Action
        BY EntryAppended
      <4> HIDE DEF q, x
      <4> SUFFICES ASSUME NEW j \in 1..Len(q), q[j].op = "EvmSelfDestruct"
                   PROVE  Gone(t, q[j].address)
        BY DEF GoneAfter
      <4>2. CASE j = Len(p) + 1
        BY <3>8, <4>1, <4>2 DEF x
      <4>3. CASE j # Len(p) + 1
        <5>1. j \in 1..Len(p)
          BY <4>1, <4>3
        <5>2. Gone(s, p[j].address) /\ p[j].address \in Addresses
          BY <2>1, <4>1, <5>1, ActionTypes DEF GoneAfter
        <5>3. CASE p[j].address = x
          BY <3>8, <4>1, <5>1, <5>3
        <5>4. CASE p[j].address # x
          BY <3>4, <4>1, <5>1, <5>2, <5>4 DEF Gone
        <5> QED BY <5>3, <5>4
      <4> QED BY <4>2, <4>3
    <3> QED BY <3>2, <3>5, <3>6, <3>7, <3>9
  <2>5. AfterBoth(w, js, t, q)
    BY <2>3, <2>4 DEF AfterKept, AfterBoth
  <2> QED BY <2>5 DEF t
<1> QED BY <1>2, <1>3

\* Both phases: the whole of what rearrange_actions makes of the journal
LEMMA AfterBothHolds ==
    ASSUME NEW w \in World, NEW u, u.code = w.code,
           NEW js, Legal(u, js), NEW base \in ApplyState,
           AfterKept(w, Destroyed(js), base, << >>)
    PROVE  AfterBoth(w, js, AllApplyAction(base, rearranged(js)), js)
<1> DEFINE p(k) == SubSeq(js, 1, k)
           F == Filtered(js, Kept(js))
           K == Destructs(js)
           A(k) == AllApplyAction(base, F \o Filtered(p(k), K))
           T == {k \in Nat : k <= Len(js) => AfterBoth(w, js, A(k), p(k))}
<1>1. /\ js \in Seq(Action) /\ Len(js) \in Nat /\ p(0) = << >> /\ p(Len(js)) = js
      /\ << >> \in Seq(Action)
  BY PrefixFacts DEF Legal
<1>2. F \in Seq(Action)
  BY <1>1, FilteredIn
<1>3. AfterKept(w, Destroyed(js), AllApplyAction(base, F), js)
  BY AfterKeptHolds DEF AppliedKept
<1>4. 0 \in T
  <2>1. A(0) = AllApplyAction(base, F)
    <3>1. F \o << >> = F
      BY <1>2
    <3> QED BY <1>1, <3>1, FilteredNothing
  <2>2. GoneAfter(A(0), << >>)
    BY DEF GoneAfter
  <2> HIDE DEF A, p, F
  <2> QED BY <1>1, <1>3, <2>1, <2>2 DEF AfterBoth
<1>5. ASSUME NEW j \in Nat, j \in T PROVE j + 1 \in T
  <2> SUFFICES ASSUME j + 1 <= Len(js) PROVE AfterBoth(w, js, A(j + 1), p(j + 1))
    OBVIOUS
  <2> DEFINE e == js[j + 1]
             f == Filtered(p(j), K)
  <2>1. j + 1 \in 1..Len(js) /\ (j + 1) - 1 = j /\ j \in 0..Len(js)
    BY <1>1
  <2>2. /\ p(j) \in Seq(Action) /\ e \in Action /\ p(j + 1) = Append(p(j), e)
    BY <1>1, <2>1, PrefixFacts
  <2>3. AfterBoth(w, js, A(j), p(j))
    BY <1>5, <2>1
  <2>4. e \in K <=> e.op = "EvmSelfDestruct"
    BY <1>1, <2>1, KeptEntries
  <2>5. e.op = "EvmSelfDestruct" => e.address \in Destroyed(js)
    BY <1>1, <2>1, DestroyedIn
  <2> HIDE DEF p, e, K, F
  <2>6. f \in Seq(Action) /\ Filtered(p(j + 1), K) = FilterStep(f, e, K)
    BY <2>2, FilteredAppend
  <2> HIDE DEF f
  <2>7. A(j) = AllApplyAction(base, F \o f) /\ A(j + 1) = AllApplyAction(base, F \o FilterStep(f, e, K))
    BY <2>6 DEF f
  <2> HIDE DEF A
  <2>8. CASE e.op = "EvmSelfDestruct"
    <3> DEFINE g == F \o f
    <3>1. FilterStep(f, e, K) = Append(f, e) /\ e \in Action /\ f \in Seq(Action)
      BY <2>2, <2>4, <2>6, <2>8 DEF FilterStep
    <3>2. F \o Append(f, e) = Append(g, e) /\ g \in Seq(Action)
      BY <1>2, <3>1, AppendAfter
    <3> HIDE DEF g
    <3>3. A(j + 1) = ApplyAction(A(j), e)
      <4>1. AllApplyAction(base, Append(g, e)) = ApplyAction(AllApplyAction(base, g), e)
        BY <3>1, <3>2, ActionsStay, ApplyActionAppend
      <4>2. A(j + 1) = AllApplyAction(base, Append(g, e))
        BY <2>7, <3>1, <3>2
      <4>3. A(j) = AllApplyAction(base, g)
        BY <2>7 DEF g
      <4> QED BY <4>1, <4>2, <4>3
    <3>4. AfterBoth(w, js, ApplyAction(A(j), e), Append(p(j), e))
      BY <1>1, <2>2, <2>3, <2>5, <2>8, DestroyStep
    <3> QED BY <2>2, <3>3, <3>4
  <2>9. CASE e.op # "EvmSelfDestruct"
    <3>1. A(j + 1) = A(j)
      BY <2>4, <2>7, <2>9 DEF FilterStep
    <3>2. ASSUME GoneAfter(A(j), p(j)) PROVE GoneAfter(A(j), Append(p(j), e))
      <4>1. /\ Len(p(j)) \in Nat /\ Len(Append(p(j), e)) = Len(p(j)) + 1
            /\ Append(p(j), e)[Len(p(j)) + 1] = e
            /\ \A i \in 1..Len(p(j)) : Append(p(j), e)[i] = p(j)[i]
        BY <2>2, EntryAppended
      <4> QED BY <2>9, <3>2, <4>1 DEF GoneAfter
    <3>3. AfterBoth(w, js, A(j), Append(p(j), e))
      BY <2>3, <3>2 DEF AfterBoth
    <3> QED BY <2>2, <3>1, <3>3
  <2> QED BY <2>8, <2>9
<1> HIDE DEF T
<1>6. Len(js) \in T
  BY <1>1, <1>4, <1>5, NumberInduction
<1>7. AfterBoth(w, js, A(Len(js)), p(Len(js)))
  <2> HIDE DEF A, p
  <2> QED BY <1>1, <1>6 DEF T
<1>8. A(Len(js)) = AllApplyAction(base, rearranged(js))
  BY <1>1 DEF rearranged
<1> HIDE DEF A, p
<1> QED BY <1>1, <1>7, <1>8

-----------------------------------------------------------------------------
(* Last the writes to storage that were put off *)

\* t is s with the writes q done.
AfterWrites(s, t, q) ==
    /\ t \in ApplyState /\ t.fault \in {s.fault, "contract expected"}
    /\ t.fault = "none" =>
          /\ s.fault = "none" /\ t.solana = s.solana
          /\ t.w.nonce = s.w.nonce /\ t.w.balance = s.w.balance /\ t.w.code = s.w.code
          /\ \A x \in Addresses : \A i \in Indices :
                t.w.storage[x][i] = storage(s.w, q, x, i)

LEMMA StorageApplied ==
    ASSUME NEW s \in ApplyState, NEW a \in SetStorages
    PROVE  LET t == ApplyStorage(s, a) IN
           /\ t \in ApplyState /\ t.fault \in {s.fault, "contract expected"}
           /\ t.fault = "none" =>
                 /\ s.fault = "none" /\ t.solana = s.solana
                 /\ t.w.nonce = s.w.nonce /\ t.w.balance = s.w.balance /\ t.w.code = s.w.code
                 /\ \A x \in Addresses : \A i \in Indices :
                       t.w.storage[x][i] = IF WritesCell(a, x, i) THEN a.value
                                           ELSE s.w.storage[x][i]
<1> DEFINE t == ApplyStorage(s, a)
           x == a.address
           y == a.index
           v == a.value
           row == [s.w.storage[x] EXCEPT ![y] = v]
           st == [s.w.storage EXCEPT ![x] = row]
           w == [s.w EXCEPT !.storage = st]
<1>1. x \in Addresses /\ y \in Indices /\ v \in Cells /\ a.op = "EvmSetStorage"
  BY ActionTypes DEF SetStorages
<1>2. s.w \in World /\ s.w.storage \in [Addresses -> [Indices -> Cells]]
  BY DEF ApplyState, World
<1>3. CASE s.fault # "none"
  <2>1. t = s
    BY <1>3 DEF ApplyStorage
  <2> QED BY <1>3, <2>1
<1>4. CASE s.fault = "none" /\ s.w.code[x] = NoCode
  <2>1. t = Failed(s, "contract expected") /\ "contract expected" \in Faults
    BY <1>4 DEF ApplyStorage, Faults
  <2> QED BY <2>1, FailedState
<1>5. CASE s.fault = "none" /\ s.w.code[x] # NoCode
  <2>1. t = [s EXCEPT !.w = w]
    BY <1>5 DEF ApplyStorage
  <2>2. row \in [Indices -> Cells] /\ \A i \in Indices : row[i] = IF y = i THEN v ELSE s.w.storage[x][i]
    BY <1>1, <1>2
  <2> HIDE DEF row
  <2>3. st \in [Addresses -> [Indices -> Cells]]
        /\ \A z \in Addresses : st[z] = IF x = z THEN row ELSE s.w.storage[z]
    BY <1>1, <1>2, <2>2
  <2>4. \A z \in Addresses : \A i \in Indices :
           st[z][i] = IF WritesCell(a, z, i) THEN v ELSE s.w.storage[z][i]
    BY <1>1, <2>2, <2>3 DEF WritesCell
  <2> HIDE DEF st
  <2>5. /\ w \in World /\ w.nonce = s.w.nonce /\ w.balance = s.w.balance /\ w.code = s.w.code
        /\ w.storage = st
    BY <1>2, <2>3 DEF World
  <2> HIDE DEF w
  <2>6. /\ t \in ApplyState /\ t.w = w /\ t.solana = s.solana /\ t.fault = s.fault
    BY <2>1, <2>5, AccountsState
  <2> QED BY <1>5, <2>4, <2>5, <2>6
<1> QED BY <1>3, <1>4, <1>5

LEMMA WritesStay == ApplyStorageStays(ApplyState, SetStorages)
BY StorageApplied DEF ApplyStorageStays

LEMMA AfterWritesHolds ==
    ASSUME NEW s \in ApplyState, NEW ws \in Seq(SetStorages)
    PROVE  AfterWrites(s, AllApplyStorage(s, ws), ws)
<1> DEFINE p(k) == SubSeq(ws, 1, k)
           A(k) == AllApplyStorage(s, p(k))
           T == {k \in Nat : k <= Len(ws) => AfterWrites(s, A(k), p(k))}
<1>2. Len(ws) \in Nat /\ p(0) = << >> /\ p(Len(ws)) = ws
  BY PrefixFacts
<1>3. 0 \in T
  <2>1. AllApplyStorage(s, << >>) = s
    BY WritesStay, ApplyStorageNothing
  <2>2. A(0) = s
    BY <1>2, <2>1
  <2> HIDE DEF A, p
  <2>3. AfterWrites(s, s, << >>)
    <3>1. ASSUME NEW x, NEW i PROVE storage(s.w, << >>, x, i) = s.w.storage[x][i]
      BY StorageNothing
    <3> QED BY <3>1 DEF AfterWrites
  <2> QED BY <1>2, <2>2, <2>3
<1>4. ASSUME NEW j \in Nat, j \in T PROVE j + 1 \in T
  <2> SUFFICES ASSUME j + 1 <= Len(ws) PROVE AfterWrites(s, A(j + 1), p(j + 1))
    OBVIOUS
  <2> DEFINE e == ws[j + 1]
             t == A(j)
             u == ApplyStorage(t, e)
  <2>1. j + 1 \in 1..Len(ws) /\ (j + 1) - 1 = j /\ j \in 0..Len(ws)
    BY <1>2
  <2>2. p(j) \in Seq(SetStorages) /\ e \in SetStorages /\ p(j + 1) = Append(p(j), e)
    BY <2>1, PrefixFacts
  <2>3. AfterWrites(s, t, p(j))
    BY <1>4, <2>1
  <2> HIDE DEF p, e
  <2>4. A(j + 1) = u
    <3>1. p(j) \in Seq(SetStorages) /\ e \in SetStorages
      BY <2>2
    <3>2. AllApplyStorage(s, Append(p(j), e)) = ApplyStorage(AllApplyStorage(s, p(j)), e)
      BY <3>1, WritesStay, ApplyStorageAppend
    <3> QED BY <2>2, <3>2
  <2>5. t \in ApplyState
    BY <2>3 DEF AfterWrites
  <2> HIDE DEF A, t
  <2>6. /\ u \in ApplyState /\ u.fault \in {t.fault, "contract expected"}
        /\ u.fault = "none" =>
              /\ t.fault = "none" /\ u.solana = t.solana
              /\ u.w.nonce = t.w.nonce /\ u.w.balance = t.w.balance /\ u.w.code = t.w.code
              /\ \A x \in Addresses : \A i \in Indices :
                    u.w.storage[x][i] = IF WritesCell(e, x, i) THEN e.value
                                        ELSE t.w.storage[x][i]
    BY <2>2, <2>5, StorageApplied
  <2> HIDE DEF u
  <2>7. ASSUME NEW x, NEW i
        PROVE  storage(s.w, Append(p(j), e), x, i) =
                  IF WritesCell(e, x, i) THEN e.value ELSE storage(s.w, p(j), x, i)
    BY <2>2, StorageAppend
  <2>8. u.fault \in {s.fault, "contract expected"}
    BY <2>3, <2>6 DEF AfterWrites
  <2>9. ASSUME u.fault = "none"
        PROVE  /\ s.fault = "none" /\ u.solana = s.solana
               /\ u.w.nonce = s.w.nonce /\ u.w.balance = s.w.balance /\ u.w.code = s.w.code
               /\ \A x \in Addresses : \A i \in Indices :
                     u.w.storage[x][i] = storage(s.w, Append(p(j), e), x, i)
    <3>1. /\ t.fault = "none" /\ u.solana = t.solana
          /\ u.w.nonce = t.w.nonce /\ u.w.balance = t.w.balance /\ u.w.code = t.w.code
      BY <2>6, <2>9
    <3>2. /\ s.fault = "none" /\ t.solana = s.solana
          /\ t.w.nonce = s.w.nonce /\ t.w.balance = s.w.balance /\ t.w.code = s.w.code
          /\ \A x \in Addresses : \A i \in Indices :
                t.w.storage[x][i] = storage(s.w, p(j), x, i)
      BY <2>3, <3>1 DEF AfterWrites
    <3>3. ASSUME NEW x \in Addresses, NEW i \in Indices
          PROVE  u.w.storage[x][i] = storage(s.w, Append(p(j), e), x, i)
      <4>1. u.w.storage[x][i] = IF WritesCell(e, x, i) THEN e.value ELSE t.w.storage[x][i]
        BY <2>6, <2>9
      <4> QED BY <2>7, <3>2, <4>1
    <3> QED BY <3>1, <3>2, <3>3
  <2>10. AfterWrites(s, u, Append(p(j), e))
    BY <2>6, <2>8, <2>9 DEF AfterWrites
  <2> QED BY <2>2, <2>4, <2>10
<1> HIDE DEF T
<1>5. Len(ws) \in T
  BY <1>2, <1>3, <1>4, NumberInduction
<1>6. AfterWrites(s, A(Len(ws)), p(Len(ws)))
  <2> HIDE DEF A, p
  <2> QED BY <1>2, <1>5 DEF T
<1>7. A(Len(ws)) = AllApplyStorage(s, ws)
  BY <1>2
<1> HIDE DEF A, p
<1> QED BY <1>2, <1>6, <1>7

\* Storage that no entry of js writes
LEMMA StorageKept ==
    ASSUME NEW w, NEW js, NEW x, NEW i, \A k \in 1..Len(js) : ~WritesCell(js[k], x, i)
    PROVE  storage(w, js, x, i) = w.storage[x][i]
BY DEF storage, SelectLastInSeq

\* Storage depends on the accounts only by what they have in the cell.
LEMMA StorageSame ==
    ASSUME NEW w, NEW u, NEW js, NEW x, NEW i, w.storage[x][i] = u.storage[x][i]
    PROVE  storage(w, js, x, i) = storage(u, js, x, i)
BY DEF storage

-----------------------------------------------------------------------------
(* The journal applied *)

\* The accounts v are what the contracts saw of w with the journal js.
SeenIn(w, js, v) ==
    \A x \in Addresses :
        /\ v.balance[x] = balance(w, js, x)
        /\ x \notin Destroyed(js) =>
              /\ v.nonce[x] = nonce(w, js, x) /\ v.code[x] = code(w, js, x)
              /\ \A i \in Indices : v.storage[x][i] = storage(w, js, x, i)
        /\ x \in Destroyed(js) =>
              /\ v.nonce[x] = 0 /\ v.code[x] = NoCode
              /\ \A i \in Indices : v.storage[x][i] = Zero

\* The accounts m of the token program back the NEON of the accounts w.
PoolBacks(w, m) == Total(w.balance, Addresses) <= m[Pool].amount

\* What apply_state_change starts with
Prepared(js) ==
    [w |-> [world EXCEPT !.exists = @ \cup Targets(rearranged(js))],
     writes |-> <<>>, solana |-> solana, fault |-> "none"]

LEMMA PreparedState ==
    ASSUME world \in World, solana \in [SolanaKeys -> SolanaAccount],
           NEW js, js \in Seq(Action)
    PROVE  LET s == Prepared(js) IN
           /\ s \in ApplyState /\ s.fault = "none" /\ s.writes = << >> /\ s.solana = solana
           /\ s.w.nonce = world.nonce /\ s.w.balance = world.balance
           /\ s.w.code = world.code /\ s.w.storage = world.storage
<1> DEFINE order == rearranged(js)
           K == Filtered(js, Kept(js))
           D == Filtered(js, Destructs(js))
           e == world.exists \cup Targets(order)
           w == [world EXCEPT !.exists = e]
           s == Prepared(js)
<1>1. order \in Seq(Action)
  <2>1. K \in Seq(Action) /\ D \in Seq(Action)
    BY FilteredIn
  <2>2. order = K \o D
    BY DEF rearranged
  <2> HIDE DEF K, D, order
  <2> QED BY <2>1, <2>2
<1> HIDE DEF order
<1>2. \A i \in DOMAIN order : order[i] \in Action
  BY <1>1
<1>3. Targets(order) \subseteq Addresses
  BY <1>2, ActionTypes DEF Targets
<1>4. e \in SUBSET Addresses
  BY <1>3 DEF World
<1>5. s = [w |-> w, writes |-> << >>, solana |-> solana, fault |-> "none"]
  BY DEF Prepared, order
<1> HIDE DEF e
<1>6. /\ w \in World /\ w.nonce = world.nonce /\ w.balance = world.balance
      /\ w.code = world.code /\ w.storage = world.storage
  BY <1>4 DEF World
<1> HIDE DEF w, s
<1>7. "none" \in Faults /\ << >> \in Seq(SetStorages)
  BY DEF Faults
<1>8. s \in ApplyState
  BY <1>5, <1>6, <1>7 DEF ApplyState
<1>9. s.w = w /\ s.writes = << >> /\ s.solana = solana /\ s.fault = "none"
  BY <1>5
<1> QED BY <1>6, <1>8, <1>9 DEF s

LEMMA PreparedHolds ==
    ASSUME world \in World, solana \in [SolanaKeys -> SolanaAccount],
           PoolBacks(world, solana),
           NEW js, js \in Seq(Action)
    PROVE  AfterKept(world, Destroyed(js), Prepared(js), << >>)
<1> DEFINE s == Prepared(js)
<1>1. /\ s \in ApplyState /\ s.fault = "none" /\ s.writes = << >> /\ s.solana = solana
      /\ s.w.nonce = world.nonce /\ s.w.balance = world.balance
      /\ s.w.code = world.code /\ s.w.storage = world.storage
  BY PreparedState
<1> HIDE DEF s
<1>2. Balances(world, s, << >>)
  <2>1. ASSUME NEW x \in Addresses PROVE s.w.balance[x] = balance(world, << >>, x)
    <3>1. << >> \in Seq(Action) /\ IncrementNonce(x) \in Action
      BY DEF Action, IncrementNonce
    <3> QED BY <1>1, <3>1, BalanceAppend
  <2> QED BY <2>1 DEF Balances
<1>3. Living(world, s, << >>, Destroyed(js))
  <2>1. ASSUME NEW x \in Addresses
        PROVE  s.w.nonce[x] = nonce(world, << >>, x) /\ s.w.code[x] = code(world, << >>, x)
    <3>1. << >> \in Seq(Action) /\ IncrementNonce(x) \in Action
      BY DEF Action, IncrementNonce
    <3>2. ~Deploys(<< >>, x)
      BY DEF Deploys
    <3>3. code(world, << >>, x) = world.code[x]
      BY <3>1, <3>2, CodeAppend
    <3>4. nonce(world, << >>, x) = world.nonce[x]
      BY <3>1, NonceAppend
    <3> QED BY <1>1, <3>3, <3>4
  <2> QED BY <1>1, <2>1 DEF Living
<1>4. WritesOutside(s, Destroyed(js))
  BY <1>1 DEF WritesOutside
<1>5. Backed(s, << >>)
  <2>1. Pending(<< >>) = 0
    BY LegalNone DEF Pending
  <2>2. Total(world.balance, Addresses) <= solana[Pool].amount
    BY DEF PoolBacks
  <2>3. Pool \in SolanaKeys /\ solana[Pool].amount \in Nat
    BY JournalAssumption DEF SolanaAccount
  <2>4. Total(world.balance, Addresses) <= solana[Pool].amount + 0
    BY <2>2, <2>3
  <2> QED BY <1>1, <2>1, <2>4 DEF Backed
<1>6. Checked(world, s, << >>)
  BY <1>1 DEF Checked
<1> QED BY <1>1, <1>2, <1>3, <1>4, <1>5, <1>6 DEF AfterKept, s

LEMMA AppliedIs ==
    ASSUME world \in World, solana \in [SolanaKeys -> SolanaAccount],
           PoolBacks(world, solana),
           NEW u, u.code = world.code, NEW js, Legal(u, js), Settled(js)
    PROVE  LET done == Applied(js) IN
           /\ done \in ApplyState /\ Checked(world, done, js)
           /\ done.fault = "none" =>
                 /\ SeenIn(world, js, done.w)
                 /\ PoolBacks(done.w, done.solana)
<1> DEFINE s == AllApplyAction(Prepared(js), rearranged(js))
           t == AllApplyStorage(s, s.writes)
           D == Destroyed(js)
<1>1. Applied(js) = t
  BY DEF Applied, AllApplyAction, AllApplyStorage, Prepared
<1>2. js \in Seq(Action)
  BY DEF Legal
<1>3. AfterBoth(world, js, s, js)
  <2>1. Prepared(js) \in ApplyState /\ AfterKept(world, D, Prepared(js), << >>)
    BY <1>2, PreparedState, PreparedHolds
  <2> QED BY <2>1, AfterBothHolds
<1> HIDE DEF s
<1>4. s \in ApplyState /\ Checked(world, s, js) /\ s.writes \in Seq(SetStorages)
  BY <1>3 DEF AfterBoth, AfterKept, ApplyState
<1>5. AfterWrites(s, t, s.writes)
  BY <1>4, AfterWritesHolds
<1> HIDE DEF t
<1>6. t \in ApplyState /\ Checked(world, t, js)
  BY <1>4, <1>5 DEF AfterWrites, Checked
<1>7. ASSUME t.fault = "none"
      PROVE  SeenIn(world, js, t.w) /\ PoolBacks(t.w, t.solana)
  <2>1. /\ t.solana = s.solana
        /\ t.w.nonce = s.w.nonce /\ t.w.balance = s.w.balance /\ t.w.code = s.w.code
        /\ \A x \in Addresses : \A i \in Indices :
              t.w.storage[x][i] = storage(s.w, s.writes, x, i)
        /\ s.fault = "none"
    BY <1>5, <1>7 DEF AfterWrites
  <2>2. /\ Balances(world, s, js) /\ Living(world, s, js, D) /\ WritesOutside(s, D)
        /\ Backed(s, js) /\ GoneAfter(s, js)
    BY <1>3, <2>1 DEF AfterBoth, AfterKept
  <2>3. Total(t.w.balance, Addresses) <= t.solana[Pool].amount
    <3>1. Pool \in SolanaKeys /\ s.solana[Pool].amount \in Nat
      BY <1>4, JournalAssumption DEF ApplyState, SolanaAccount
    <3>2. Pending(js) = 0
      BY DEF Pending
    <3>3. Total(s.w.balance, Addresses) <= s.solana[Pool].amount + 0
      BY <2>2, <3>2 DEF Backed
    <3>4. Total(s.w.balance, Addresses) \in Int
      <4>1. s.w.balance \in [Addresses -> Nat] /\ IsFiniteSet(Addresses)
        BY <1>4, GenesisAssumption DEF ApplyState, World
      <4> QED BY <4>1, TotalType
    <3>5. Total(s.w.balance, Addresses) <= s.solana[Pool].amount
      BY <3>1, <3>3, <3>4
    <3> QED BY <2>1, <3>5
  <2>4. ASSUME NEW x \in Addresses, x \notin D
        PROVE  /\ t.w.nonce[x] = nonce(world, js, x) /\ t.w.code[x] = code(world, js, x)
               /\ \A i \in Indices : t.w.storage[x][i] = storage(world, js, x, i)
    <3>1. /\ s.w.nonce[x] = nonce(world, js, x) /\ s.w.code[x] = code(world, js, x)
          /\ s.w.storage[x] = world.storage[x]
          /\ \A i \in Indices : storage(world, s.writes, x, i) = storage(world, js, x, i)
      BY <2>2, <2>4 DEF Living
    <3>2. ASSUME NEW i \in Indices PROVE t.w.storage[x][i] = storage(world, js, x, i)
      <4>1. storage(s.w, s.writes, x, i) = storage(world, s.writes, x, i)
        <5>1. s.w.storage[x][i] = world.storage[x][i]
          BY <3>1
        <5> QED BY <5>1, StorageSame
      <4> QED BY <2>1, <3>1, <4>1
    <3> QED BY <2>1, <3>1, <3>2
  <2>5. ASSUME NEW x \in Addresses, x \in D
        PROVE  /\ t.w.nonce[x] = 0 /\ t.w.code[x] = NoCode
               /\ \A i \in Indices : t.w.storage[x][i] = Zero
    <3>1. Gone(s, x)
      BY <1>2, <2>2, <2>5, DestroyedIn DEF GoneAfter
    <3>2. ASSUME NEW i \in Indices PROVE t.w.storage[x][i] = Zero
      <4>1. \A k \in 1..Len(s.writes) : ~WritesCell(s.writes[k], x, i)
        BY <2>2, <2>5 DEF WritesOutside, WritesCell
      <4>2. storage(s.w, s.writes, x, i) = s.w.storage[x][i]
        BY <4>1, StorageKept
      <4>3. s.w.storage[x][i] = Zero
        BY <3>1 DEF Gone
      <4> QED BY <2>1, <4>2, <4>3
    <3> QED BY <2>1, <3>1, <3>2 DEF Gone
  <2>6. \A x \in Addresses : t.w.balance[x] = balance(world, js, x)
    BY <2>1, <2>2 DEF Balances
  <2> HIDE DEF D
  <2>7. SeenIn(world, js, t.w)
    BY <2>4, <2>5, <2>6 DEF SeenIn, D
  <2> QED BY <2>3, <2>7 DEF PoolBacks
<1> QED BY <1>1, <1>6, <1>7

-----------------------------------------------------------------------------
(* The inductive invariant *)

Statuses == {"none", "return", "stop", "suicide", "revert"}

CacheOK == DOMAIN cache \subseteq SolanaKeys /\ \A k \in DOMAIN cache : cache[k] \in SolanaAccount

\* The types of what the machine's own invariants say nothing about
OutsideOK ==
    /\ world \in World /\ is_eof \in BOOLEAN /\ exit \in Statuses /\ trxs \in 0..MaxTrxs
    /\ solana \in [SolanaKeys -> SolanaAccount] /\ CacheOK
    /\ paid \in [Addresses -> Nat]

\* Only what is applied at the end fails.
FailsAtTheEnd == fault # "none" => exit # "none" /\ actions # <<>>

\* The inductive invariant
LedgerInv ==
    /\ JournalInv /\ MachineInv /\ OutsideOK /\ operator \in Operators
    /\ Clean(world) /\ PoolBacks(world, solana)
    /\ FailsAtTheEnd /\ JournalApplicable

LEMMA TypeParts ==
    /\ TypeOK => OutsideOK
    /\ JournalInv /\ MachineInv /\ OutsideOK => TypeOK
BY DEF TypeOK, OutsideOK, CacheOK, JournalInv, Shape, MachineInv, Machine, Legal, Statuses

LEMMA TypePartsNext ==
    JournalInv' /\ MachineInv' /\ OutsideOK' => TypeOK'
BY DEF TypeOK, OutsideOK, CacheOK, JournalInv, Shape, MachineInv, Machine, Legal, Statuses

\* The accounts that are read are in the cache with the value they have there
\* or, if they were not, in fact.
LEMMA CacheTyped ==
    ASSUME CacheOK, solana \in [SolanaKeys -> SolanaAccount], actions \in Seq(Action),
           NEW k \in SolanaKeys, cache' = CacheWith(actions, k)
    PROVE  CacheOK'
<1> DEFINE keys == IF k \in Touched(actions) THEN Touched(actions) ELSE {k}
<1>1. Touched(actions) \subseteq SolanaKeys
  <2>1. \A i \in DOMAIN actions : actions[i] \in Action
    OBVIOUS
  <2>2. ASSUME NEW a \in Action, External(a) PROVE Metas(a) \subseteq SolanaKeys
    BY <2>2, ActionTypes DEF External, Metas
  <2> QED BY <2>1, <2>2 DEF Touched
<1>2. keys \subseteq SolanaKeys
  BY <1>1
<1>3. cache' = CachedToo(keys)
  BY DEF CacheWith
<1> HIDE DEF keys
<1> QED BY <1>2, <1>3 DEF CachedToo, CacheOK

\* What an opcode does outside the journal and the frames
LEMMA OpcodeOutside ==
    ASSUME Opcode
    PROVE  /\ UNCHANGED <<world, is_eof, fault, paid, trxs, solana, operator>>
           /\ exit' = exit \/ exit' \in Statuses
           /\ cache' = cache \/ \E k \in SolanaKeys : cache' = CacheWith(actions, k)
           /\ Running
<1> DEFINE Goal ==
             /\ UNCHANGED <<world, is_eof, fault, paid, trxs, solana, operator>>
             /\ exit' = exit \/ exit' \in Statuses
             /\ cache' = cache \/ \E k \in SolanaKeys : cache' = CacheWith(actions, k)
<1>0. Running
  BY DEF Opcode, Sstore, Call, StaticCall, DelegateCall, SelfDestruct, CallWithdraw,
     CallInitializeAccount, CallGetAccount, CallTokenTransfer, Create, Return, Stop,
     Revert, Retf, CanStep
<1>1. ASSUME NEW js, Step(js), UNCHANGED cache PROVE Goal
  BY <1>1 DEF Step, outside
<1>2. ASSUME NEW js, Step(js), NEW k \in SolanaKeys, cache' = CacheWith(actions, k) PROVE Goal
  BY <1>2 DEF Step, outside
<1>3. ASSUME NEW f, NEW js, NEW more, Enter(f, js, more) PROVE Goal
  BY <1>3 DEF Enter, outside
<1>4. ASSUME NEW js, NEW status \in Statuses, Leave(js, status) PROVE Goal
  <2>1. exit' \in Statuses
    BY <1>4 DEF Leave, Statuses
  <2> QED BY <1>4, <2>1 DEF Leave, outside
<1>5. Wallets \subseteq SolanaKeys /\ DOMAIN derived \subseteq SolanaKeys /\ Others \subseteq SolanaKeys
  BY JournalAssumption
<1> HIDE DEF Goal
<1>6. ASSUME NEW i \in Indices, NEW v \in Cells, Sstore(i, v) PROVE Goal
  BY <1>1, <1>6 DEF Sstore
<1>7. ASSUME NEW x \in Addresses, NEW v \in Values, Call(x, v) PROVE Goal
  BY <1>3, <1>7 DEF Call
<1>8. ASSUME NEW x \in Addresses, StaticCall(x) \/ DelegateCall(x) PROVE Goal
  BY <1>3, <1>8 DEF StaticCall, DelegateCall
<1>9. ASSUME NEW x \in Addresses, SelfDestruct(x) PROVE Goal
  BY <1>4, <1>9 DEF SelfDestruct, Statuses
<1>10. ASSUME NEW k \in Wallets, NEW v \in Values, CallWithdraw(k, v) PROVE Goal
  BY <1>2, <1>5, <1>10 DEF CallWithdraw
<1>11. ASSUME NEW k \in DOMAIN derived, CallInitializeAccount(k) PROVE Goal
  BY <1>2, <1>5, <1>11 DEF CallInitializeAccount
<1>12. ASSUME NEW k \in Others, CallGetAccount(k) PROVE Goal
  BY <1>2, <1>5, <1>12 DEF CallGetAccount
<1>13. ASSUME NEW j \in DOMAIN derived, NEW k \in Wallets, NEW v \in Values,
              CallTokenTransfer(j, k, v)
       PROVE  Goal
  BY <1>1, <1>13 DEF CallTokenTransfer
<1>14. ASSUME NEW x \in Creatable, NEW v \in Values, NEW eof \in BOOLEAN, Create(x, v, eof)
       PROVE  Goal
  BY <1>1, <1>3, <1>14 DEF Create
<1>15. ASSUME NEW c \in Codes \cup {NoCode}, Return(c) PROVE Goal
  BY <1>4, <1>15 DEF Return, Statuses
<1>16. ASSUME Stop \/ Revert PROVE Goal
  BY <1>4, <1>16 DEF Stop, Revert, Statuses
<1>17. ASSUME Retf PROVE Goal
  BY <1>17 DEF Retf, outside, Goal, Statuses
<1>18. Goal
  BY <1>6, <1>7, <1>8, <1>9, <1>10, <1>11, <1>12, <1>13, <1>14, <1>15, <1>16, <1>17 DEF Opcode
<1> QED BY <1>0, <1>18 DEF Goal

\* What was seen at the end has storage only where there is a nonce or code.
LEMMA SeenClean ==
    ASSUME NEW w \in World, Clean(w),
           NEW u \in World, u.nonce = w.nonce, u.code = w.code,
           NEW js, Legal(u, js), NEW v, SeenIn(w, js, v)
    PROVE  Clean(v)
<1> SUFFICES ASSUME NEW x \in Addresses, v.nonce[x] = 0, v.code[x] = NoCode, NEW i \in Indices
             PROVE  v.storage[x][i] = Zero
  BY DEF Clean
<1>1. CASE x \in Destroyed(js)
  BY <1>1 DEF SeenIn
<1>2. CASE x \notin Destroyed(js)
  <2>1. /\ nonce(w, js, x) = 0 /\ code(w, js, x) = NoCode
        /\ v.storage[x][i] = storage(w, js, x, i)
    BY <1>2 DEF SeenIn
  <2>2. ~Used(u, js, x)
    <3>1. nonce(u, js, x) = 0 /\ code(u, js, x) = NoCode
      BY <2>1 DEF nonce, code
    <3> QED BY <3>1, LegalUsed
  <2>3. storage(w, js, x, i) = w.storage[x][i]
    BY <2>2, LegalUnwritten
  <2>4. w.nonce[x] = 0 /\ w.code[x] = NoCode
    BY <2>2 DEF Used
  <2> QED BY <2>1, <2>3, <2>4 DEF Clean
<1> QED BY <1>1, <1>2

LEMMA LedgerFacts ==
    ASSUME LedgerInv
    PROVE  /\ Ready /\ TypeOK /\ actions \in Seq(Action) /\ CacheOK
           /\ world \in World /\ solana \in [SolanaKeys -> SolanaAccount]
           /\ paid \in [Addresses -> Nat] /\ Lent \in World
           /\ Lent.nonce = world.nonce /\ Lent.code = world.code
           /\ Legal(Lent, actions) /\ Settled(actions)
<1>1. /\ Ready /\ TypeOK /\ actions \in Seq(Action) /\ CacheOK
      /\ world \in World /\ solana \in [SolanaKeys -> SolanaAccount]
      /\ paid \in [Addresses -> Nat]
      /\ Legal(Lent, actions) /\ Settled(actions)
  BY TypeParts DEF LedgerInv, Ready, OutsideOK, MachineInv, Machine, Legal
<1> QED BY <1>1, LentReads

\* With an empty journal and no frames
LEMMA IdleMachine ==
    ASSUME actions' = <<>>, stack' = <<>>, frames' = <<>>
    PROVE  MachineInv'
<1>1. Machine(Lent', <<>>, <<>>, <<>>)
  BY LegalNone DEF Machine, Entitled
<1> QED BY <1>1 DEF MachineInv

LEMMA StartLedger == ASSUME LedgerInv, Start PROVE LedgerInv'
<1>1. JournalInv' /\ MachineInv'
  BY LedgerFacts, StartKeeps, StartMachine
<1>2. PICK f, js : Started(f, js) /\ f \in Frame
  <2>1. \A x \in Addresses, w \in World : CallFrame(x, FALSE, w.code[x]) \in Frame
    BY DEF CallFrame, Frame
  <2>2. \A x \in Addresses, eof \in BOOLEAN : CreateFrame(x, eof) \in Frame
    BY DEF CreateFrame, Frame
  <2>3. Creatable \subseteq Addresses
    BY JournalAssumption
  <2>4. world \in World
    BY LedgerFacts
  <2> QED BY <2>1, <2>2, <2>3, <2>4 DEF Start, StartCall, StartCreate
<1>3. /\ UNCHANGED <<world, fault, paid, solana, operator>> /\ exit' = "none"
      /\ is_eof' = f.eof /\ trxs < MaxTrxs /\ trxs' = trxs + 1 /\ cache' = << >>
  BY <1>2 DEF Started, outside
<1>4. OutsideOK'
  <2>1. is_eof' \in BOOLEAN
    BY <1>2, <1>3 DEF Frame
  <2>2. trxs' \in 0..MaxTrxs
    BY <1>3, GenesisAssumption DEF LedgerInv, OutsideOK
  <2>3. CacheOK'
    <3>1. DOMAIN cache' = {}
      BY <1>3
    <3> QED BY <3>1 DEF CacheOK
  <2> QED BY <1>3, <2>1, <2>2, <2>3 DEF OutsideOK, LedgerInv, Statuses
<1>5. Clean(world') /\ PoolBacks(world', solana') /\ operator' \in Operators
  BY <1>3 DEF LedgerInv
<1>6. fault' = "none"
  BY <1>2, <1>3 DEF LedgerInv, FailsAtTheEnd, Started
<1> QED BY <1>1, <1>4, <1>5, <1>6 DEF LedgerInv, FailsAtTheEnd, JournalApplicable

LEMMA OpcodeLedger == ASSUME LedgerInv, Opcode PROVE LedgerInv'
<1>1. JournalInv' /\ MachineInv'
  BY LedgerFacts, OpcodeKeeps, OpcodeMachine DEF Ready
<1>2. /\ UNCHANGED <<world, is_eof, fault, paid, trxs, solana, operator>> /\ Running
      /\ exit' = exit \/ exit' \in Statuses
      /\ cache' = cache \/ \E k \in SolanaKeys : cache' = CacheWith(actions, k)
  BY OpcodeOutside
<1>3. CacheOK'
  <2>1. CASE cache' = cache
    BY <2>1, LedgerFacts DEF CacheOK
  <2>2. CASE \E k \in SolanaKeys : cache' = CacheWith(actions, k)
    BY <2>2, LedgerFacts, CacheTyped
  <2> QED BY <1>2, <2>1, <2>2
<1>4. OutsideOK'
  BY <1>2, <1>3 DEF OutsideOK, LedgerInv
<1>5. Clean(world') /\ PoolBacks(world', solana') /\ operator' \in Operators
  BY <1>2 DEF LedgerInv
<1>6. fault' = "none"
  BY <1>2 DEF LedgerInv, FailsAtTheEnd, Running
<1> QED BY <1>1, <1>4, <1>5, <1>6 DEF LedgerInv, FailsAtTheEnd, JournalApplicable

\* The gas of an iteration moves from one balance to another, or stays.
LEMMA GasMoves ==
    ASSUME NEW b \in [Addresses -> Nat], Origin \in Addresses,
           NEW e \in Addresses, NEW g \in Nat, b[Origin] >= g
    PROVE  /\ GasPaid(b, e, g) \in [Addresses -> Nat]
           /\ Total(GasPaid(b, e, g), Addresses) = Total(b, Addresses)
           /\ \A x \in Addresses :
                 GasPaid(b, e, g)[x] = b[x] + (IF x = e THEN g ELSE 0)
                                           - (IF x = Origin THEN g ELSE 0)
<1> DEFINE o == Origin
           d == [b EXCEPT ![o] = b[o] - g]
           c == [d EXCEPT ![e] = d[e] + g]
<1>1. GasPaid(b, e, g) = c
  BY DEF GasPaid, Moved
<1>2. o \in Addresses /\ b[o] >= g /\ -g \in Int /\ IsFiniteSet(Addresses)
  BY GenesisAssumption
<1> HIDE DEF o
<1>3. d \in [Addresses -> Nat]
  BY <1>2
<1>4. d[o] = b[o] + (-g) /\ \A z \in Addresses : z # o => d[z] = b[z]
  BY <1>2
<1> HIDE DEF d
<1>5. c \in [Addresses -> Nat]
  BY <1>3
<1>6. c[e] = d[e] + g /\ \A z \in Addresses : z # e => c[z] = d[z]
  BY <1>3
<1> HIDE DEF c
<1>7. \A z \in Addresses : b[z] \in Int /\ d[z] \in Int
  BY <1>3
<1>8. Total(d, Addresses) = Total(b, Addresses) + (-g)
  BY <1>2, <1>4, <1>7, TotalUpdate
<1>9. Total(c, Addresses) = Total(d, Addresses) + g
  BY <1>2, <1>6, <1>7, TotalUpdate
<1>10. Total(b, Addresses) \in Int
  BY <1>2, <1>7, TotalType
<1>11. Total(c, Addresses) = Total(b, Addresses)
  BY <1>8, <1>9, <1>10
<1>12. \A x \in Addresses :
          c[x] = b[x] + (IF x = e THEN g ELSE 0) - (IF x = o THEN g ELSE 0)
  BY <1>3, <1>4, <1>6, <1>7
<1> QED BY <1>1, <1>5, <1>11, <1>12 DEF o

LEMMA OriginKnown ==
    ASSUME LedgerInv, actions # <<>>
    PROVE  Origin \in Addresses
<1>1. Len(actions) > 0
  BY LedgerFacts
<1>2. PICK o \in Origins : actions[1] = IncrementNonce(o)
  BY <1>1 DEF LedgerInv, JournalInv, Shape
<1> QED BY <1>2, JournalAssumption DEF Origin, IncrementNonce

\* The accounts w after the gas
LEMMA GasTaken ==
    ASSUME NEW w \in World, Origin \in Addresses,
           NEW e \in Addresses, NEW g \in Nat, w.balance[Origin] >= g
    PROVE  LET v == [w EXCEPT !.balance = GasPaid(@, e, g)] IN
           /\ v \in World /\ v.balance = GasPaid(w.balance, e, g)
           /\ v.nonce = w.nonce /\ v.code = w.code /\ v.storage = w.storage
           /\ \A m : PoolBacks(w, m) => PoolBacks(v, m)
           /\ Clean(w) => Clean(v)
<1> DEFINE b == GasPaid(w.balance, e, g)
           v == [w EXCEPT !.balance = b]
<1>1. b \in [Addresses -> Nat] /\ Total(b, Addresses) = Total(w.balance, Addresses)
  BY GasMoves DEF World
<1> HIDE DEF b
<1>2. /\ v \in World /\ v.balance = b
      /\ v.nonce = w.nonce /\ v.code = w.code /\ v.storage = w.storage
  BY <1>1 DEF World
<1> HIDE DEF v
<1>3. (\A m : PoolBacks(w, m) => PoolBacks(v, m)) /\ (Clean(w) => Clean(v))
  BY <1>1, <1>2 DEF PoolBacks, Clean
<1> QED BY <1>2, <1>3 DEF b, v

\* What failed for want of funds failed for want of the gas that was taken.
LEMMA ShortOfGas ==
    ASSUME LedgerInv, Short(world, actions)
    PROVE  \E x \in Addresses : paid[x] > 0 /\ Overdrawn(x)
<1> PICK n \in 1..Len(actions), x \in Addresses :
            balance(world, SubSeq(actions, 1, n), x) < 0
  BY DEF Short
<1> DEFINE p == SubSeq(actions, 1, n)
<1>1. actions \in Seq(Action) /\ n \in DOMAIN actions /\ n \in 0..Len(actions)
  BY LedgerFacts
<1>2. Legal(Lent, p)
  BY <1>1, LedgerFacts, LegalCut
<1>3. p \in Seq(Action)
  BY <1>2 DEF Legal
<1>4. Overdrawn(x)
  BY <1>1 DEF Overdrawn
<1>5. balance(world, p, x) < 0
  OBVIOUS
<1> HIDE DEF p
<1>6. balance(Lent, p, x) \in Nat
  BY <1>2, LedgerFacts, LegalCovered
<1>7. balance(Lent, p, x) = balance(world, p, x) + paid[x] /\ balance(world, p, x) \in Int
  BY <1>3, LedgerFacts, LentBalance
<1>8. paid[x] \in Nat
  BY LedgerFacts
<1>9. paid[x] > 0
  BY <1>5, <1>6, <1>7, <1>8
<1> QED BY <1>4, <1>9

\* What is left of a failure while nothing of the transaction changes
LEMMA StaysApplicable ==
    ASSUME UNCHANGED <<world, actions, paid, fault, exit>>
    PROVE  /\ JournalApplicable => JournalApplicable'
           /\ FailsAtTheEnd => FailsAtTheEnd'
BY DEF JournalApplicable, FailsAtTheEnd, Overdrawn

\* The end of the last iteration: the journal is applied and the gas taken.
LEMMA ChargedIs ==
    ASSUME LedgerInv, actions # <<>>, NEW e \in Collectors, NEW g \in GasCosts
    PROVE  LET raw  == Applied(actions)
               done == GasCharged(raw, e, g) IN
           /\ Checked(world, done, actions)
           /\ done.fault = "none" =>
                 /\ raw \in ApplyState /\ SeenIn(world, actions, raw.w)
                 /\ done.w \in World /\ done.solana \in [SolanaKeys -> SolanaAccount]
                 /\ Clean(done.w) /\ PoolBacks(done.w, done.solana)
                 /\ done.w.balance = GasPaid(raw.w.balance, e, g)
                 /\ done.w.nonce = raw.w.nonce /\ done.w.code = raw.w.code
                 /\ done.w.storage = raw.w.storage
<1> DEFINE raw == Applied(actions)
           done == GasCharged(raw, e, g)
           v == [raw.w EXCEPT !.balance = GasPaid(@, e, g)]
<1>1. Origin \in Addresses /\ e \in Addresses /\ g \in Nat
  BY OriginKnown, JournalAssumption
<1>2. /\ raw \in ApplyState /\ Checked(world, raw, actions)
      /\ raw.fault = "none" =>
            /\ SeenIn(world, actions, raw.w)
            /\ PoolBacks(raw.w, raw.solana)
  BY LedgerFacts, AppliedIs DEF LedgerInv
<1>3. raw.fault = "none" => Clean(raw.w)
  BY <1>2, LedgerFacts, SeenClean DEF LedgerInv
<1> HIDE DEF raw
<1>4. raw.w \in World /\ raw.w.balance \in [Addresses -> Nat]
      /\ raw.solana \in [SolanaKeys -> SolanaAccount]
  BY <1>2 DEF ApplyState, World
<1>5. CASE raw.fault # "none"
  <2>1. done = raw
    BY <1>5 DEF GasCharged
  <2> QED BY <1>2, <1>5, <2>1 DEF raw
<1>6. CASE raw.fault = "none" /\ raw.w.balance[Origin] < g
  <2>1. done = Failed(raw, "gas not covered")
    BY <1>6 DEF GasCharged
  <2>2. done.fault = "gas not covered"
    <3>1. "gas not covered" \in Faults
      BY DEF Faults
    <3> QED BY <1>2, <2>1, <3>1, FailedState
  <2> QED BY <2>2 DEF Checked, raw
<1>7. CASE raw.fault = "none" /\ ~(raw.w.balance[Origin] < g)
  <2>1. done = [raw EXCEPT !.w = v]
    BY <1>7 DEF GasCharged
  <2>2. raw.w.balance[Origin] >= g
    <3>1. raw.w.balance[Origin] \in Nat
      BY <1>1, <1>4
    <3> QED BY <1>1, <1>7, <3>1
  <2>3. /\ v \in World /\ v.balance = GasPaid(raw.w.balance, e, g)
        /\ v.nonce = raw.w.nonce /\ v.code = raw.w.code /\ v.storage = raw.w.storage
        /\ PoolBacks(raw.w, raw.solana) => PoolBacks(v, raw.solana)
        /\ Clean(raw.w) => Clean(v)
    BY <1>1, <1>4, <2>2, GasTaken
  <2> HIDE DEF v
  <2>4. /\ done.w = v /\ done.solana = raw.solana /\ done.fault = raw.fault
    BY <1>2, <2>1, <2>3, AccountsState
  <2> HIDE DEF done
  <2>5. Checked(world, done, actions)
    BY <1>7, <2>4 DEF Checked
  <2> QED BY <1>2, <1>3, <1>4, <1>7, <2>3, <2>4, <2>5 DEF done, raw
<1> QED BY <1>5, <1>6, <1>7

LEMMA ApplyLedger ==
    ASSUME LedgerInv, NEW e \in Collectors, NEW g \in GasCosts, Apply(e, g)
    PROVE  LedgerInv'
<1> DEFINE done == GasCharged(Applied(actions), e, g)
<1>1. JournalInv'
  BY ApplyKeeps DEF LedgerInv
<1>2. /\ Checked(world, done, actions)
      /\ done.fault = "none" =>
            /\ done.w \in World /\ done.solana \in [SolanaKeys -> SolanaAccount]
            /\ Clean(done.w) /\ PoolBacks(done.w, done.solana)
  BY ChargedIs DEF Apply
<1> HIDE DEF done
<1>3. CASE UNCHANGED <<world, machine, solana, cache>> /\ fault' \in {"snapshots left", done.fault}
  <2>1. UNCHANGED <<world, actions, stack, frames, is_eof, exit, paid, solana, cache, trxs,
                    operator>>
    BY <1>3 DEF Apply, machine
  <2>2. MachineInv' /\ OutsideOK' /\ Clean(world') /\ PoolBacks(world', solana') /\ operator' \in Operators
    BY <2>1, NothingChanges DEF LedgerInv, OutsideOK, CacheOK
  <2>3. JournalApplicable'
    <3>1. fault' # "already deployed"
      BY <1>2, <1>3 DEF Checked
    <3>2. ASSUME fault' = "insufficient funds"
          PROVE  \E x \in Addresses : paid[x] > 0 /\ Overdrawn(x)
      BY <1>2, <1>3, <3>2, ShortOfGas DEF Checked
    <3>3. ASSUME NEW x \in Addresses, paid[x] > 0, Overdrawn(x)
          PROVE  paid'[x] > 0 /\ Overdrawn(x)'
      BY <2>1, <3>3 DEF Overdrawn
    <3> QED BY <3>1, <3>2, <3>3 DEF JournalApplicable
  <2>4. FailsAtTheEnd'
    BY <2>1 DEF FailsAtTheEnd, Apply
  <2> QED BY <1>1, <2>2, <2>3, <2>4 DEF LedgerInv
<1>4. CASE /\ done.fault = "none" /\ world' = done.w /\ solana' = done.solana /\ Idle
           /\ fault' = fault
  <2>1. MachineInv'
    BY <1>4, IdleMachine DEF Idle
  <2>2. world' \in World /\ solana' \in [SolanaKeys -> SolanaAccount]
    BY <1>2, <1>4
  <2>3. CacheOK'
    <3>1. cache' = << >>
      BY <1>4 DEF Idle
    <3>2. DOMAIN cache' = {}
      BY <3>1
    <3> QED BY <3>2 DEF CacheOK
  <2>4. /\ trxs' = trxs /\ operator' = operator /\ is_eof' = FALSE /\ exit' = "none"
        /\ paid' \in [Addresses -> Nat] /\ fault' = "none"
    BY <1>4 DEF Apply, Idle
  <2>5. OutsideOK'
    BY <2>2, <2>3, <2>4 DEF OutsideOK, LedgerInv, Statuses
  <2>6. Clean(world') /\ PoolBacks(world', solana')
    BY <1>2, <1>4
  <2>7. JournalApplicable' /\ FailsAtTheEnd' /\ operator' \in Operators
    BY <2>4 DEF LedgerInv, JournalApplicable, FailsAtTheEnd
  <2> QED BY <1>1, <2>1, <2>5, <2>6, <2>7 DEF LedgerInv
<1> QED BY <1>3, <1>4 DEF Apply, done

LEMMA CancelLedger == ASSUME LedgerInv, Cancel PROVE LedgerInv'
<1>1. JournalInv' /\ MachineInv'
  BY ApplyKeeps, IdleMachine DEF LedgerInv, Cancel, Idle
<1>2. PICK o \in Origins : actions[1] = IncrementNonce(o)
  <2>1. actions # <<>> /\ actions \in Seq(Action)
    BY LedgerFacts DEF Cancel
  <2>2. Len(actions) > 0
    BY <2>1
  <2> QED BY <2>2 DEF LedgerInv, JournalInv, Shape
<1> DEFINE n == [world.nonce EXCEPT ![o] = world.nonce[o] + 1]
           w == [world EXCEPT !.nonce = n]
<1>3. o \in Addresses /\ world \in World /\ world.nonce \in [Addresses -> Nat]
  BY JournalAssumption, LedgerFacts DEF World
<1>4. world' = w
  <2>1. actions[1].address = o
    BY <1>2 DEF IncrementNonce
  <2> QED BY <2>1 DEF Cancel
<1>5. n \in [Addresses -> Nat] /\ n[o] # 0 /\ \A x \in Addresses : x # o => n[x] = world.nonce[x]
  BY <1>3
<1> HIDE DEF n
<1>6. /\ w \in World /\ w.nonce = n /\ w.code = world.code /\ w.storage = world.storage
      /\ w.balance = world.balance
  BY <1>3, <1>5 DEF World
<1> HIDE DEF w
<1>7. Clean(w)
  BY <1>5, <1>6 DEF LedgerInv, Clean
<1>8. PoolBacks(world', solana')
  BY <1>4, <1>6 DEF LedgerInv, PoolBacks, Cancel, outside
<1>9. /\ fault' = "none" /\ UNCHANGED <<trxs, solana, operator>>
      /\ is_eof' = FALSE /\ exit' = "none" /\ cache' = << >>
      /\ paid' \in [Addresses -> Nat]
  BY DEF Cancel, outside, Idle
<1>10. OutsideOK'
  <2>1. CacheOK'
    <3>1. DOMAIN cache' = {}
      BY <1>9
    <3> QED BY <3>1 DEF CacheOK
  <2> QED BY <1>4, <1>6, <1>9, <2>1 DEF OutsideOK, LedgerInv, Statuses
<1>11. JournalApplicable' /\ FailsAtTheEnd'
  BY <1>9 DEF JournalApplicable, FailsAtTheEnd
<1> QED BY <1>1, <1>4, <1>7, <1>8, <1>9, <1>10, <1>11 DEF LedgerInv

\* The accounts u have all that the accounts w have, and balances no lower.
Richer(u, w) ==
    /\ u.nonce = w.nonce /\ u.code = w.code
    /\ \A x \in Addresses : u.balance[x] >= w.balance[x]

LEMMA MachineRicher ==
    ASSUME NEW u \in World, NEW w \in World, Richer(u, w),
           NEW js, NEW ss, NEW fs, Machine(w, js, ss, fs)
    PROVE  Machine(u, js, ss, fs)
<1>1. \A q, x : Used(u, q, x) <=> Used(w, q, x)
  BY DEF Richer, Used
<1>2. ASSUME NEW q \in Seq(Action), NEW x \in Addresses, NEW v \in Int,
             balance(w, q, x) >= v
      PROVE  balance(u, q, x) >= v
  <2>1. Credits(q, x) \in Int /\ Debits(q, x) \in Int
    <3>1. /\ Credits(q, x) = ValueSum(q, CreditsIn(q, x))
          /\ Debits(q, x) = ValueSum(q, DebitsIn(q, x))
      BY DEF Credits, Debits, ValueSum, CreditsIn, DebitsIn
    <3> QED BY <3>1, TransfersIn, ValueSumType
  <2>2. w.balance[x] \in Int /\ u.balance[x] \in Int /\ u.balance[x] >= w.balance[x]
    BY DEF World, Richer
  <2> QED BY <1>2, <2>1, <2>2 DEF balance
<1>3. ASSUME NEW q \in Seq(Action), NEW a \in Action, Fits(w, q, a)
      PROVE  Fits(u, q, a)
  <2>1. ASSUME a.op \in {"NeonTransfer", "NeonWithdraw"}
        PROVE  balance(u, q, a.source) >= a.value
    <3>1. a.source \in Addresses /\ a.value \in Int
      BY <2>1, ActionTypes
    <3>2. balance(w, q, a.source) >= a.value
      BY <1>3, <2>1 DEF Fits
    <3> QED BY <1>2, <3>1, <3>2
  <2>2. u.code = w.code
    BY DEF Richer
  <2> QED BY <1>1, <1>3, <2>1, <2>2 DEF Fits
<1>4. Legal(u, js)
  <2>1. js \in Seq(Action) /\ \A k \in 1..Len(js) : Fits(w, SubSeq(js, 1, k - 1), js[k])
    BY DEF Machine, Legal
  <2>2. ASSUME NEW k \in 1..Len(js) PROVE Fits(u, SubSeq(js, 1, k - 1), js[k])
    <3>1. k - 1 \in 0..Len(js) /\ js[k] \in Action
      BY <2>1
    <3>2. SubSeq(js, 1, k - 1) \in Seq(Action)
      BY <2>1, <3>1, PrefixFacts
    <3> QED BY <1>3, <2>1, <3>1, <3>2
  <2> QED BY <2>1, <2>2 DEF Legal
<1>5. Entitled(u, js, ss, fs)
  BY <1>1 DEF Machine, Entitled, Creating
<1> QED BY <1>4, <1>5 DEF Machine

LEMMA NextIterationLedger ==
    ASSUME LedgerInv, NEW o \in Operators, NEW e \in Collectors, NEW g \in GasCosts,
           NextIteration(o, e, g)
    PROVE  LedgerInv'
<1>1. JournalInv'
  BY LedgerFacts, IterationKeeps DEF LedgerInv
<1>2. is_eof' \in BOOLEAN
  <2>1. Running => Top \in Frame
    BY LedgerFacts, RunningFacts
  <2> QED BY <2>1 DEF NextIteration, LedgerInv, OutsideOK, Frame
<1>3. /\ operator' = o /\ fault' = "none"
      /\ UNCHANGED <<actions, stack, frames, exit, entered, trxs, cache, solana>>
      /\ world' = [world EXCEPT !.balance = GasPaid(@, e, g)]
      /\ paid' = IF e = Origin THEN paid ELSE [paid EXCEPT ![Origin] = @ + g]
  BY DEF NextIteration
<1>4. /\ Origin \in Addresses /\ e \in Addresses /\ g \in Nat
      /\ world.balance[Origin] >= g
  BY OriginKnown, JournalAssumption DEF NextIteration
<1>5. /\ world' \in World /\ world'.balance = GasPaid(world.balance, e, g)
      /\ world'.nonce = world.nonce /\ world'.code = world.code
      /\ PoolBacks(world', solana) /\ Clean(world')
  BY <1>3, <1>4, LedgerFacts, GasTaken DEF LedgerInv
<1>6. paid' \in [Addresses -> Nat]
  BY <1>3, <1>4, LedgerFacts
<1>7. Richer(Lent', Lent) /\ Lent' \in World
  <2>1. /\ Lent' \in World
        /\ Lent'.nonce = world'.nonce /\ Lent'.code = world'.code
        /\ \A x \in Addresses : Lent'.balance[x] = world'.balance[x] + paid'[x]
    <3>1. Lent' = LentTo(world', paid')
      BY DEF Lent
    <3> QED BY <1>5, <1>6, <3>1, LentTypes
  <2>2. \A x \in Addresses : Lent.balance[x] = world.balance[x] + paid[x]
    BY LedgerFacts, LentReads
  <2>3. ASSUME NEW x \in Addresses PROVE Lent'.balance[x] >= Lent.balance[x]
    <3>1. world'.balance[x] = world.balance[x] + (IF x = e THEN g ELSE 0)
                                               - (IF x = Origin THEN g ELSE 0)
      <4>1. world.balance \in [Addresses -> Nat]
        BY LedgerFacts DEF World
      <4> QED BY <1>4, <1>5, <4>1, GasMoves
    <3>2. paid'[x] = paid[x] + (IF x = Origin /\ e # Origin THEN g ELSE 0)
      BY <1>3, <1>4, LedgerFacts
    <3>3. world.balance[x] \in Nat /\ paid[x] \in Nat
      BY LedgerFacts DEF World
    <3>4. /\ Lent'.balance[x] = world'.balance[x] + paid'[x]
          /\ Lent.balance[x] = world.balance[x] + paid[x]
      BY <2>1, <2>2
    <3> HIDE DEF Lent
    <3> QED BY <1>4, <3>1, <3>2, <3>3, <3>4
  <2> QED BY <1>5, <2>1, <2>3, LedgerFacts DEF Richer
<1>8. MachineInv'
  <2>1. Machine(Lent', actions, stack, frames)
    BY <1>7, LedgerFacts, MachineRicher DEF LedgerInv, MachineInv
  <2> QED BY <1>3, <2>1 DEF MachineInv
<1>9. OutsideOK'
  BY <1>2, <1>3, <1>5, <1>6 DEF LedgerInv, OutsideOK, CacheOK
<1>10. PoolBacks(world', solana') /\ JournalApplicable' /\ FailsAtTheEnd'
  BY <1>3, <1>5 DEF JournalApplicable, FailsAtTheEnd
<1> QED BY <1>1, <1>3, <1>5, <1>8, <1>9, <1>10 DEF LedgerInv

LEMMA OthersLedger ==
    ASSUME LedgerInv, NEW k \in Others, OthersToggle(k) PROVE LedgerInv'
<1> DEFINE other == IF solana[k].owner = "token" THEN "system" ELSE "token"
           new == [solana[k] EXCEPT !.owner = other]
<1>1. JournalInv' /\ MachineInv'
  BY OthersKeep, NothingChanges DEF LedgerInv, OthersToggle, machine
<1>2. k \in SolanaKeys /\ k # Pool /\ Pool \in SolanaKeys
  BY JournalAssumption
<1>3. solana \in [SolanaKeys -> SolanaAccount] /\ solana' = [solana EXCEPT ![k] = new]
  BY LedgerFacts DEF OthersToggle
<1>4. new \in SolanaAccount
  <2>1. other \in {"system", "token"} /\ solana[k] \in SolanaAccount
    BY <1>2, <1>3
  <2> HIDE DEF other
  <2> QED BY <2>1 DEF SolanaAccount
<1> HIDE DEF new
<1>5. solana' \in [SolanaKeys -> SolanaAccount] /\ solana'[Pool] = solana[Pool]
  BY <1>2, <1>3, <1>4
<1>6. UNCHANGED <<world, actions, paid, is_eof, exit, trxs, cache, fault, operator>>
  BY DEF OthersToggle, machine
<1>7. OutsideOK'
  BY <1>5, <1>6 DEF LedgerInv, OutsideOK, CacheOK
<1>8. /\ Clean(world') /\ PoolBacks(world', solana') /\ operator' \in Operators
      /\ JournalApplicable' /\ FailsAtTheEnd'
  BY <1>5, <1>6, StaysApplicable DEF LedgerInv, PoolBacks
<1> QED BY <1>1, <1>7, <1>8 DEF LedgerInv

-----------------------------------------------------------------------------
(* Theorems *)

LEMMA InitLedger == ASSUME Init PROVE LedgerInv
<1>1. JournalInv
  BY IdleKeeps DEF Init, JournalInv
<1>2. MachineInv
  <2>1. Machine(Lent, <<>>, <<>>, <<>>)
    BY LegalNone DEF Machine, Entitled
  <2> QED BY <2>1 DEF MachineInv, Init
<1>3. OutsideOK
  <2>1. CacheOK
    <3>1. DOMAIN cache = {}
      BY DEF Init
    <3> QED BY <3>1 DEF CacheOK
  <2>2. trxs \in 0..MaxTrxs
    BY GenesisAssumption DEF Init
  <2> QED BY <2>1, <2>2, GenesisAssumption DEF Init, OutsideOK, Statuses
<1>4. Clean(world)
  BY GenesisAssumption DEF Init, Clean
<1>5. PoolBacks(world, solana)
  BY GenesisAssumption DEF Init, PoolBacks, Total
<1>6. operator \in Operators /\ JournalApplicable /\ FailsAtTheEnd
  BY DEF Init, JournalApplicable, FailsAtTheEnd
<1> QED BY <1>1, <1>2, <1>3, <1>4, <1>5, <1>6 DEF LedgerInv

(***************************************************************************)
(* Every entry of the journal is covered by what was there before it and   *)
(* the gas that iterations took meanwhile; the frames that run have an     *)
(* address in use and those that create one are alone with it; unused      *)
(* addresses are clean; the pool backs all NEON; snapshots belong to       *)
(* frames, whose views of the accounts can be had back.  This is the       *)
(* invariant that the checks of the opcodes keep up, in any order of       *)
(* calls, creations, reverts, iterations and transactions.                 *)
(***************************************************************************)
THEOREM LedgerInvariance == Spec => []LedgerInv
<1>1. Init => LedgerInv
  BY InitLedger
<1>2. LedgerInv /\ [Next]_vars => LedgerInv'
  <2> SUFFICES ASSUME LedgerInv, [Next]_vars PROVE LedgerInv'
    OBVIOUS
  <2>1. CASE UNCHANGED vars
    <3>1. UNCHANGED <<world, actions, stack, frames, is_eof, exit, fault, entered, paid,
                      trxs, solana, cache, operator>>
      BY <2>1 DEF vars
    <3>2. JournalInv' /\ MachineInv' /\ OutsideOK'
      BY <3>1, NothingChanges DEF LedgerInv, JournalInv, OutsideOK, CacheOK
    <3> QED BY <3>1, <3>2, StaysApplicable DEF LedgerInv
  <2>2. CASE Next
    BY <2>2, StartLedger, OpcodeLedger, ApplyLedger, CancelLedger, NextIterationLedger,
       OthersLedger DEF Next
  <2> QED BY <2>1, <2>2
<1> QED BY <1>1, <1>2, PTL DEF Spec

(***************************************************************************)
(* The journal holds entries of the types apply_state_change expects, the  *)
(* accounts nonces and balances that are natural numbers.                  *)
(***************************************************************************)
THEOREM TypesKept == Spec => []TypeOK
<1>1. LedgerInv => TypeOK
  BY LedgerFacts
<1> QED BY <1>1, LedgerInvariance, PTL

(***************************************************************************)
(* Snapshots and frames stay paired and in order, in spite of the gas that *)
(* changes the accounts below them.                                        *)
(***************************************************************************)
THEOREM SnapshotsAlwaysNested == Spec => []SnapshotsNested
<1>1. LedgerInv => SnapshotsNested
  BY JournalNests DEF LedgerInv
<1> QED BY <1>1, LedgerInvariance, PTL

(***************************************************************************)
(* No frame under a static call writes anything, at whatever depth and     *)
(* through whatever calls, delegate calls included.                        *)
(***************************************************************************)
THEOREM StaticCallsPure == Spec => []StaticPure
<1>1. LedgerInv => StaticPure
  BY JournalIsPure DEF LedgerInv
<1> QED BY <1>1, LedgerInvariance, PTL

(***************************************************************************)
(* opcode_revert and every error give back all that contracts could read   *)
(* when the frame was entered; of balances, what the journal made of them. *)
(***************************************************************************)
THEOREM FailuresUndone == Spec => FailureUndone
<1>1. LedgerInv /\ [Next]_vars => [Revert => View(world, actions)' = Last(entered)]_vars
  BY RevertUndoes DEF LedgerInv
<1> QED BY <1>1, LedgerInvariance, PTL DEF Spec, FailureUndone

(***************************************************************************)
(* The journal overdraws no balance by more than the gas that the          *)
(* transaction's iterations took from it: ExecutorState::balance can fail  *)
(* of the origin only, and only for that.                                  *)
(***************************************************************************)
THEOREM BalancesStayCovered == Spec => []BalancesCovered
<1>1. ASSUME LedgerInv PROVE BalancesCovered
  <2>1. ASSUME NEW x \in Addresses PROVE balance(world, actions, x) + paid[x] >= 0
    <3>1. balance(Lent, actions, x) \in Nat
      BY <1>1, LedgerFacts, LegalCovered
    <3>2. balance(Lent, actions, x) = balance(world, actions, x) + paid[x]
      BY <1>1, LedgerFacts, LentBalance
    <3> QED BY <3>1, <3>2
  <2> QED BY <2>1 DEF BalancesCovered
<1> QED BY <1>1, LedgerInvariance, PTL

(***************************************************************************)
(* A contract that opcode_create or a transaction creates finds its        *)
(* storage empty, whatever was there before.                               *)
(***************************************************************************)
THEOREM CreationsOnCleanStorage == Spec => []CreatedOnCleanStorage
<1>1. ASSUME LedgerInv PROVE CreatedOnCleanStorage
  <2>1. /\ Shape(world, actions, stack, frames, entered) /\ actions \in Seq(Action)
        /\ Machine(Lent, actions, stack, frames) /\ Clean(world) /\ world \in World
        /\ Lent.nonce = world.nonce /\ Lent.code = world.code
    BY <1>1, LedgerFacts DEF LedgerInv, JournalInv, MachineInv
  <2>2. /\ Len(stack) \in Nat /\ Len(frames) = Len(stack) /\ frames \in Seq(Frame)
        /\ DOMAIN frames = 1..Len(frames)
        /\ \A d \in 1..Len(stack) : stack[d] \in 0..Len(actions)
    BY <2>1, Ends
  <2> SUFFICES ASSUME NEW d \in 1..Len(frames), frames[d].reason = "Create",
                      NEW i \in Indices
               PROVE  entered[d].storage[frames[d].contract][i] = Zero
    BY <2>2 DEF CreatedOnCleanStorage
  <2> DEFINE x == frames[d].contract
             p == SubSeq(actions, 1, stack[d])
  <2>3. x \in Addresses
    <3>1. frames[d] \in Frame
      BY <2>2
    <3> QED BY <3>1 DEF Frame
  <2>4. ~Used(Lent, p, x)
    BY <2>1, <2>2 DEF Machine, Entitled, Creating
  <2>5. Legal(Lent, p)
    BY <2>1, <2>2, LegalCut DEF Machine
  <2>6. entered[d] = View(world, p)
    BY <2>1, <2>2 DEF Shape
  <2> HIDE DEF p, x
  <2>7. storage(world, p, x, i) = world.storage[x][i]
    BY <2>4, <2>5, LegalUnwritten
  <2>8. world.storage[x][i] = Zero
    BY <2>1, <2>3, <2>4 DEF Used, Clean
  <2>9. View(world, p).storage[x][i] = storage(world, p, x, i)
    BY <2>3 DEF View
  <2> QED BY <2>6, <2>7, <2>8, <2>9 DEF x
<1> QED BY <1>1, LedgerInvariance, PTL

(***************************************************************************)
(* apply_state_change meets no address with code, and no short balance but *)
(* where the gas of earlier iterations is missing: the checks of the       *)
(* opcodes were enough for all else.                                       *)
(***************************************************************************)
THEOREM JournalsApplicable == Spec => []JournalApplicable
<1>1. LedgerInv => JournalApplicable
  BY DEF LedgerInv
<1> QED BY <1>1, LedgerInvariance, PTL

(***************************************************************************)
(* The pool holds a token for every NEON, through withdrawals that are     *)
(* reverted, cancelled, or made before a contract destroys itself.         *)
(***************************************************************************)
THEOREM AllNeonBacked == Spec => []NeonBacked
<1>1. LedgerInv => NeonBacked
  BY DEF LedgerInv, PoolBacks, Total, NeonBacked
<1> QED BY <1>1, LedgerInvariance, PTL

(***************************************************************************)
(* rearrange_actions and apply_state_change write to the accounts what     *)
(* reads of the journal returned, for a journal of any length; only the    *)
(* gas of the last iteration is moved after that.                          *)
(***************************************************************************)
THEOREM AppliedWasSeen == Spec => AppliedAsViewed
<1> DEFINE seen == View(world, actions)
           left == [x \in Addresses |-> balance(world, actions, x)]
           Same(x) ==
              /\ x \notin Destroyed(actions) =>
                    /\ world'.nonce[x] = seen.nonce[x]
                    /\ world'.code[x] = seen.code[x]
                    /\ world'.storage[x] = seen.storage[x]
              /\ x \in Destroyed(actions) =>
                    /\ world'.nonce[x] = 0
                    /\ world'.code[x] = NoCode
                    /\ world'.storage[x] = [i \in Indices |-> Zero]
           Written == \A e \in Collectors, g \in GasCosts :
              Apply(e, g) /\ fault' = "none" =>
                 /\ world'.balance = GasPaid(left, e, g)
                 /\ \A x \in Addresses : Same(x)
<1>1. ASSUME LedgerInv, NEW e \in Collectors, NEW g \in GasCosts, Apply(e, g),
             fault' = "none"
      PROVE  world'.balance = GasPaid(left, e, g) /\ \A x \in Addresses : Same(x)
  <2> DEFINE raw == Applied(actions)
             done == GasCharged(raw, e, g)
  <2>1. /\ done.fault = "none" =>
              /\ raw \in ApplyState /\ SeenIn(world, actions, raw.w)
              /\ done.w.balance = GasPaid(raw.w.balance, e, g)
              /\ done.w.nonce = raw.w.nonce /\ done.w.code = raw.w.code
              /\ done.w.storage = raw.w.storage
        /\ actions # <<>>
    BY <1>1, ChargedIs DEF Apply
  <2>2. done.fault = "none" /\ world' = done.w
    BY <1>1 DEF Apply
  <2> HIDE DEF done, raw
  <2>3. /\ SeenIn(world, actions, raw.w) /\ raw.w \in World
        /\ world'.balance = GasPaid(raw.w.balance, e, g)
        /\ world'.nonce = raw.w.nonce /\ world'.code = raw.w.code
        /\ world'.storage = raw.w.storage
    BY <2>1, <2>2 DEF ApplyState
  <2>4. raw.w.balance = left
    <3>1. raw.w.balance \in [Addresses -> Nat]
      BY <2>3 DEF World
    <3>2. \A x \in Addresses : raw.w.balance[x] = balance(world, actions, x)
      BY <2>3 DEF SeenIn
    <3> QED BY <3>1, <3>2
  <2> HIDE DEF left
  <2>5. ASSUME NEW x \in Addresses PROVE Same(x)
    <3>1. world'.storage[x] \in [Indices -> Cells]
      BY <2>3 DEF World
    <3>2. /\ seen.nonce[x] = nonce(world, actions, x)
          /\ seen.code[x] = code(world, actions, x)
          /\ seen.storage[x] = [i \in Indices |-> storage(world, actions, x, i)]
      BY DEF View
    <3> HIDE DEF seen
    <3>3. ASSUME x \notin Destroyed(actions) PROVE world'.storage[x] = seen.storage[x]
      <4>1. \A i \in Indices : world'.storage[x][i] = storage(world, actions, x, i)
        BY <2>3, <3>3 DEF SeenIn
      <4> QED BY <3>1, <3>2, <4>1
    <3>4. ASSUME x \in Destroyed(actions) PROVE world'.storage[x] = [i \in Indices |-> Zero]
      <4>1. \A i \in Indices : world'.storage[x][i] = Zero
        BY <2>3, <3>4 DEF SeenIn
      <4> QED BY <3>1, <4>1
    <3> QED BY <2>3, <3>2, <3>3, <3>4 DEF SeenIn
  <2> QED BY <2>3, <2>4, <2>5
<1>2. LedgerInv => Written
  BY <1>1
<1>3. LedgerInv /\ [Next]_vars => [Written]_vars
  BY <1>2
<1> QED BY <1>3, LedgerInvariance, PTL DEF Spec, AppliedAsViewed
=============================================================================
