-------------------------- MODULE EvmJournalProofs --------------------------
(***************************************************************************)
(* Proofs about EvmJournal for any addresses, codes, values and depth:     *)
(* the snapshots are nested, nothing is written under a static call, and a *)
(* frame that fails leaves no trace.                                       *)
(***************************************************************************)
EXTENDS EvmJournal, SequenceTheorems, TLAPS

IsSeq(s) == s \in Seq(Range(s))

\* A journal js with the snapshots ss, frames fs and views vs over w.
Shape(w, js, ss, fs, vs) ==
    /\ IsSeq(js) /\ IsSeq(vs)
    /\ ss \in Seq(Nat) /\ fs \in Seq(Frame)
    /\ Len(ss) = Len(fs) /\ Len(vs) = Len(fs)
    /\ \A d \in 1..Len(ss) : ss[d] \in 1..Len(js)
    /\ \A d, e \in 1..Len(ss) : d <= e => ss[d] <= ss[e]
    /\ Len(ss) > 0 => ss[1] = 1
    /\ Len(js) > 0 => \E o \in Origins : js[1] = IncrementNonce(o)
    /\ \A d \in 1..Len(ss) : vs[d] = View(w, SubSeq(js, 1, ss[d]))

\* Static frames are calls, stay static below, and have written nothing.
Pure(js, ss, fs) ==
    /\ \A d \in 1..Len(fs) :
          fs[d].is_static => fs[d].reason = "Call" /\ Len(js) = ss[d]
    /\ \A d, e \in 1..Len(fs) : d <= e /\ fs[d].is_static => fs[e].is_static

\* The inductive invariant
JournalInv ==
    /\ Shape(world, actions, stack, frames, entered)
    /\ Pure(actions, stack, frames)
-----------------------------------------------------------------------------
(* Sequences *)

LEMMA IsSeqIntro ==
    ASSUME NEW S, NEW s \in Seq(S)
    PROVE  IsSeq(s)
BY RangeOfSeq, SeqOfRange DEF IsSeq

LEMMA ConcatFacts ==
    ASSUME NEW s, NEW t, IsSeq(s), IsSeq(t)
    PROVE  /\ IsSeq(s \o t)
           /\ Len(s) \in Nat /\ Len(t) \in Nat
           /\ Len(s \o t) = Len(s) + Len(t)
           /\ \A i \in 1..Len(s) : (s \o t)[i] = s[i]
           /\ \A n \in 0..Len(s) : SubSeq(s \o t, 1, n) = SubSeq(s, 1, n)
           /\ SubSeq(s \o t, 1, Len(s)) = s
<1> DEFINE S == Range(s) \cup Range(t)
<1>1. s \in Seq(S) /\ t \in Seq(S)
  BY SeqMonotonic DEF IsSeq
<1>2. s \o t \in Seq(S) /\ Len(s) \in Nat /\ Len(t) \in Nat
  BY <1>1
<1>3. Len(s \o t) = Len(s) + Len(t) /\ \A i \in 1..Len(s) : (s \o t)[i] = s[i]
  BY <1>1
<1>4. \A n \in 0..Len(s) : SubSeq(s \o t, 1, n) = SubSeq(s, 1, n)
  BY <1>1, SubSeqOfConcat1
<1>5. SubSeq(s, 1, Len(s)) = s
  BY <1>1, SubSeqFull
<1>6. SubSeq(s \o t, 1, Len(s)) = s
  BY <1>2, <1>4, <1>5
<1>7. IsSeq(s \o t)
  BY <1>2, IsSeqIntro
<1> QED
  BY <1>2, <1>3, <1>4, <1>6, <1>7

LEMMA CutFacts ==
    ASSUME NEW s, IsSeq(s), NEW n \in 0..Len(s)
    PROVE  /\ IsSeq(SubSeq(s, 1, n))
           /\ Len(SubSeq(s, 1, n)) = n
           /\ \A i \in 1..n : SubSeq(s, 1, n)[i] = s[i]
           /\ \A k \in 0..n : SubSeq(SubSeq(s, 1, n), 1, k) = SubSeq(s, 1, k)
<1>1. s \in Seq(Range(s)) /\ Len(s) \in Nat
  BY DEF IsSeq
<1>2. SubSeq(s, 1, n) \in Seq(Range(s)) /\ Len(SubSeq(s, 1, n)) = n
      /\ \A i \in 1..n : SubSeq(s, 1, n)[i] = s[i]
  BY <1>1, SubSeqProperties
<1>3. \A k \in 0..n : SubSeq(SubSeq(s, 1, n), 1, k) = SubSeq(s, 1, k)
  <2> TAKE k \in 0..n
  <2> DEFINE l == SubSeq(SubSeq(s, 1, n), 1, k)
             r == SubSeq(s, 1, k)
  <2>1. l \in Seq(Range(s)) /\ Len(l) = k /\ \A i \in 1..k : l[i] = SubSeq(s, 1, n)[i]
    BY <1>2, SubSeqProperties
  <2>2. r \in Seq(Range(s)) /\ Len(r) = k /\ \A i \in 1..k : r[i] = s[i]
    BY <1>1, SubSeqProperties
  <2> HIDE DEF l, r
  <2>3. l = r
    BY <1>2, <2>1, <2>2, SeqEqual
  <2> QED BY <2>3 DEF l, r
<1> QED
  BY <1>2, <1>3, IsSeqIntro

LEMMA TransferIsSeq ==
    ASSUME NEW x, NEW y, NEW v
    PROVE  IsSeq(Transfer(x, y, v))
<1> DEFINE t == [op |-> "NeonTransfer", source |-> x, target |-> y, value |-> v]
<1>1. <<t>> \in Seq({t}) /\ << >> \in Seq({t})
  OBVIOUS
<1> QED
  BY <1>1, IsSeqIntro DEF Transfer

LEMMA OneIsSeq ==
    ASSUME NEW e
    PROVE  IsSeq(<<e>>) /\ Len(<<e>>) = 1 /\ <<e>>[1] = e
<1>1. <<e>> \in Seq({e})
  OBVIOUS
<1> QED
  BY <1>1, IsSeqIntro

LEMMA AppendOne ==
    ASSUME NEW s, NEW e, IsSeq(s)
    PROVE  Append(s, e) = s \o <<e>>
BY AppendIsConcat, SeqMonotonic DEF IsSeq

LEMMA Regroup ==
    ASSUME NEW r, NEW s, NEW t, IsSeq(r), IsSeq(s), IsSeq(t)
    PROVE  r \o s \o t = r \o (s \o t)
<1> DEFINE S == Range(r) \cup Range(s) \cup Range(t)
<1>1. r \in Seq(S) /\ s \in Seq(S) /\ t \in Seq(S)
  BY SeqMonotonic DEF IsSeq
<1> HIDE DEF S
<1> QED
  BY <1>1, ConcatAssociative

LEMMA EmptyIsSeq == IsSeq(<< >>)
<1>1. << >> \in Seq({})
  OBVIOUS
<1> QED
  BY <1>1, IsSeqIntro
-----------------------------------------------------------------------------
(* What the operations on the journal and the frames keep *)

\* Entries are added.
LEMMA Extended ==
    ASSUME NEW w, NEW js, NEW ss, NEW fs, NEW vs, NEW more,
           Shape(w, js, ss, fs, vs), IsSeq(more)
    PROVE  Len(js) > 0 => Shape(w, js \o more, ss, fs, vs)
<1> SUFFICES ASSUME Len(js) > 0
             PROVE  Shape(w, js \o more, ss, fs, vs)
  OBVIOUS
<1>1. IsSeq(js \o more) /\ Len(js) \in Nat /\ Len(js \o more) >= Len(js)
      /\ (js \o more)[1] = js[1]
  BY ConcatFacts DEF Shape
<1>2. \A d \in 1..Len(ss) : ss[d] \in 1..Len(js \o more)
  BY <1>1 DEF Shape
<1>3. \A d \in 1..Len(ss) : vs[d] = View(w, SubSeq(js \o more, 1, ss[d]))
  <2> TAKE d \in 1..Len(ss)
  <2>1. ss[d] \in 0..Len(js)
    BY <1>1 DEF Shape
  <2>2. SubSeq(js \o more, 1, ss[d]) = SubSeq(js, 1, ss[d])
    BY <2>1, ConcatFacts DEF Shape
  <2> QED BY <2>2 DEF Shape
<1> QED
  BY <1>1, <1>2, <1>3 DEF Shape

\* A frame is entered: its snapshot is all of the journal.
LEMMA Entered ==
    ASSUME NEW w, NEW js, NEW ss, NEW fs, NEW vs, NEW f \in Frame,
           Shape(w, js, ss, fs, vs), Len(js) > 0,
           Len(ss) = 0 => Len(js) = 1
    PROVE  Shape(w, js, Append(ss, Len(js)), Append(fs, f), Append(vs, View(w, js)))
<1> DEFINE s2 == Append(ss, Len(js))
           f2 == Append(fs, f)
           v2 == Append(vs, View(w, js))
<1>1. js \in Seq(Range(js)) /\ Len(js) \in Nat /\ SubSeq(js, 1, Len(js)) = js
  BY SubSeqFull DEF Shape, IsSeq
<1>2. ss \in Seq(Nat) /\ fs \in Seq(Frame) /\ Len(ss) \in Nat
  BY DEF Shape
<1>3. /\ s2 \in Seq(Nat) /\ f2 \in Seq(Frame)
      /\ Len(s2) = Len(ss) + 1 /\ Len(f2) = Len(fs) + 1
      /\ \A d \in 1..Len(ss) : s2[d] = ss[d]
      /\ s2[Len(ss) + 1] = Len(js)
  BY <1>1, <1>2
<1>4. /\ IsSeq(v2) /\ Len(v2) = Len(vs) + 1
      /\ \A d \in 1..Len(vs) : v2[d] = vs[d]
      /\ v2[Len(vs) + 1] = View(w, js)
  <2> DEFINE V == Range(vs) \cup {View(w, js)}
  <2>1. vs \in Seq(V) /\ View(w, js) \in V
    BY SeqMonotonic DEF Shape, IsSeq
  <2> HIDE DEF V
  <2>2. v2 \in Seq(V) /\ Len(v2) = Len(vs) + 1
        /\ (\A d \in 1..Len(vs) : v2[d] = vs[d])
        /\ v2[Len(vs) + 1] = View(w, js)
    BY <2>1, AppendProperties
  <2> QED BY <2>2, IsSeqIntro
<1> HIDE DEF s2, f2, v2
<1>5. \A d \in 1..Len(s2) : s2[d] \in 1..Len(js)
  <2> TAKE d \in 1..Len(s2)
  <2>1. CASE d = Len(ss) + 1
    BY <2>1, <1>1, <1>3
  <2>2. CASE d # Len(ss) + 1
    <3>1. d \in 1..Len(ss)
      BY <2>2, <1>2, <1>3
    <3> QED BY <3>1, <1>3 DEF Shape
  <2> QED BY <2>1, <2>2
<1>6. \A d, e \in 1..Len(s2) : d <= e => s2[d] <= s2[e]
  <2> SUFFICES ASSUME NEW d \in 1..Len(s2), NEW e \in 1..Len(s2), d <= e
               PROVE  s2[d] <= s2[e]
    OBVIOUS
  <2>1. CASE e = Len(ss) + 1
    BY <2>1, <1>1, <1>3, <1>5
  <2>2. CASE e # Len(ss) + 1
    <3>1. d \in 1..Len(ss) /\ e \in 1..Len(ss)
      BY <2>2, <1>2, <1>3
    <3> QED BY <3>1, <1>3 DEF Shape
  <2> QED BY <2>1, <2>2
<1>7. s2[1] = 1
  BY <1>1, <1>2, <1>3 DEF Shape
<1>8. \A d \in 1..Len(s2) : v2[d] = View(w, SubSeq(js, 1, s2[d]))
  <2> TAKE d \in 1..Len(s2)
  <2>1. CASE d = Len(ss) + 1
    BY <2>1, <1>1, <1>3, <1>4 DEF Shape
  <2>2. CASE d # Len(ss) + 1
    <3>1. d \in 1..Len(ss)
      BY <2>2, <1>2, <1>3
    <3> QED BY <3>1, <1>3, <1>4 DEF Shape
  <2> QED BY <2>1, <2>2
<1>9. Shape(w, js, s2, f2, v2)
  BY <1>3, <1>4, <1>5, <1>6, <1>7, <1>8 DEF Shape
<1> QED BY <1>9 DEF s2, f2, v2

\* The last frame is left.
LEMMA Left ==
    ASSUME NEW w, NEW js, NEW ss, NEW fs, NEW vs,
           Shape(w, js, ss, fs, vs), Len(ss) > 0
    PROVE  Shape(w, js, Front(ss), Front(fs), Front(vs))
<1> DEFINE n == Len(ss) - 1
<1>1. ss \in Seq(Nat) /\ fs \in Seq(Frame) /\ Len(ss) \in Nat /\ n \in Nat
      /\ Len(fs) = Len(ss) /\ Len(vs) = Len(ss) /\ IsSeq(vs)
  BY DEF Shape
<1>2. /\ Front(ss) \in Seq(Nat) /\ Len(Front(ss)) = n
      /\ \A d \in 1..n : Front(ss)[d] = ss[d]
  BY <1>1, SubSeqProperties DEF Front
<1>3. Front(fs) \in Seq(Frame) /\ Len(Front(fs)) = n
  BY <1>1, SubSeqProperties DEF Front
<1>4. /\ IsSeq(Front(vs)) /\ Len(Front(vs)) = n
      /\ \A d \in 1..n : Front(vs)[d] = vs[d]
  BY <1>1, CutFacts DEF Front
<1>5. \A d \in 1..n : d \in 1..Len(ss)
  BY <1>1
<1> HIDE DEF n
<1>6. \A d \in 1..n : Front(ss)[d] \in 1..Len(js)
  BY <1>2, <1>5 DEF Shape
<1>7. \A d, e \in 1..n : d <= e => Front(ss)[d] <= Front(ss)[e]
  BY <1>2, <1>5 DEF Shape
<1>8. n > 0 => Front(ss)[1] = 1
  BY <1>1, <1>2, <1>5 DEF Shape
<1>9. \A d \in 1..n : Front(vs)[d] = View(w, SubSeq(js, 1, Front(ss)[d]))
  BY <1>2, <1>4, <1>5 DEF Shape
<1> QED
  BY <1>2, <1>3, <1>4, <1>6, <1>7, <1>8, <1>9 DEF Shape

\* The journal is cut back to the last snapshot.
LEMMA CutBack ==
    ASSUME NEW w, NEW js, NEW ss, NEW fs, NEW vs,
           Shape(w, js, ss, fs, vs), Len(ss) > 0
    PROVE  Shape(w, SubSeq(js, 1, Last(ss)), ss, fs, vs)
<1> DEFINE n == Last(ss)
           j2 == SubSeq(js, 1, n)
<1>1. Len(ss) \in Nat /\ n \in 1..Len(js) /\ Len(js) \in Nat
      /\ \A d \in 1..Len(ss) : ss[d] \in 1..n
  BY DEF Shape, Last, IsSeq
<1>2. IsSeq(j2) /\ Len(j2) = n /\ j2[1] = js[1]
  BY <1>1, CutFacts DEF Shape
<1>3. \A d \in 1..Len(ss) : SubSeq(j2, 1, ss[d]) = SubSeq(js, 1, ss[d])
  BY <1>1, CutFacts DEF Shape
<1> HIDE DEF j2, n
<1>4. \A d \in 1..Len(ss) : vs[d] = View(w, SubSeq(j2, 1, ss[d]))
  BY <1>3 DEF Shape
<1>5. \A d \in 1..Len(ss) : ss[d] \in 1..Len(j2)
  BY <1>1, <1>2
<1>6. \E o \in Origins : j2[1] = IncrementNonce(o)
  BY <1>1, <1>2 DEF Shape
<1>7. Shape(w, j2, ss, fs, vs)
  BY <1>2, <1>4, <1>5, <1>6 DEF Shape
<1> QED BY <1>7 DEF j2, n
-----------------------------------------------------------------------------
(* Static frames *)

\* If the running frame is not static, none is: the journal may change.
LEMMA NotStatic ==
    ASSUME NEW js, NEW ss, NEW fs, NEW j2, Pure(js, ss, fs),
           Len(fs) \in Nat \ {0}, ~Last(fs).is_static
    PROVE  Pure(j2, ss, fs)
BY DEF Pure, Last

LEMMA PureEntered ==
    ASSUME NEW js, NEW ss, NEW fs, NEW f \in Frame, Pure(js, ss, fs),
           ss \in Seq(Nat), fs \in Seq(Frame), Len(ss) = Len(fs), Len(js) \in Nat,
           Len(fs) > 0, f.is_static => f.reason = "Call",
           Last(fs).is_static => f.is_static
    PROVE  Pure(js, Append(ss, Len(js)), Append(fs, f))
<1> DEFINE s2 == Append(ss, Len(js))
           f2 == Append(fs, f)
           n == Len(fs)
<1>1. /\ n \in Nat /\ Len(f2) = n + 1
      /\ \A d \in 1..n : f2[d] = fs[d] /\ s2[d] = ss[d]
      /\ f2[n + 1] = f /\ s2[n + 1] = Len(js)
  OBVIOUS
<1> HIDE DEF s2, f2
<1>2. ASSUME NEW d \in 1..(n + 1), f2[d].is_static
      PROVE  f2[d].reason = "Call" /\ Len(js) = s2[d] /\ f.is_static
  <2>1. CASE d = n + 1
    BY <2>1, <1>1, <1>2
  <2>2. CASE d # n + 1
    <3>1. d \in 1..n /\ n \in 1..n
      BY <2>2, <1>1
    <3>2. fs[d].is_static
      BY <3>1, <1>1, <1>2
    <3>3. fs[n].is_static
      BY <3>1, <3>2 DEF Pure
    <3> QED BY <3>1, <3>2, <3>3, <1>1 DEF Pure, Last
  <2> QED BY <2>1, <2>2
<1>3. ASSUME NEW d \in 1..(n + 1), NEW e \in 1..(n + 1), d <= e, f2[d].is_static
      PROVE  f2[e].is_static
  <2>1. CASE e = n + 1
    BY <2>1, <1>1, <1>2, <1>3
  <2>2. CASE e # n + 1
    <3>1. d \in 1..n /\ e \in 1..n
      BY <2>2, <1>1, <1>3
    <3> QED BY <3>1, <1>1, <1>3 DEF Pure
  <2> QED BY <2>1, <2>2
<1>4. Pure(js, s2, f2)
  BY <1>1, <1>2, <1>3 DEF Pure
<1> QED BY <1>4 DEF s2, f2

LEMMA PureLeft ==
    ASSUME NEW js, NEW ss, NEW fs, Pure(js, ss, fs),
           ss \in Seq(Nat), fs \in Seq(Frame), Len(ss) = Len(fs), Len(fs) > 0
    PROVE  Pure(js, Front(ss), Front(fs))
<1> DEFINE n == Len(fs) - 1
<1>1. n \in Nat /\ Len(Front(fs)) = n
      /\ \A d \in 1..n : d \in 1..Len(fs) /\ Front(fs)[d] = fs[d] /\ Front(ss)[d] = ss[d]
  BY SubSeqProperties DEF Front
<1> HIDE DEF n
<1> QED
  BY <1>1 DEF Pure

LEMMA PureCut ==
    ASSUME NEW w, NEW js, NEW ss, NEW fs, NEW vs,
           Shape(w, js, ss, fs, vs), Pure(js, ss, fs), Len(ss) > 0
    PROVE  Pure(SubSeq(js, 1, Last(ss)), ss, fs)
<1>1. Len(fs) \in Nat \ {0} /\ Len(ss) = Len(fs)
  BY DEF Shape
<1>2. CASE ~Last(fs).is_static
  BY <1>1, <1>2, NotStatic
<1>3. CASE Last(fs).is_static
  <2>1. Last(ss) = Len(js)
    BY <1>1, <1>3 DEF Pure, Last
  <2>2. SubSeq(js, 1, Last(ss)) = js
    BY <2>1, SubSeqFull DEF Shape, IsSeq
  <2> QED BY <2>2
<1> QED BY <1>2, <1>3
-----------------------------------------------------------------------------
(* The steps of the machine *)

\* While the machine runs there are frames, snapshots and a journal.
LEMMA WhileRunning ==
    ASSUME JournalInv, Running
    PROVE  /\ Len(frames) \in Nat \ {0} /\ Len(stack) = Len(frames)
           /\ Len(actions) \in Nat \ {0} /\ IsSeq(actions)
           /\ stack \in Seq(Nat) /\ frames \in Seq(Frame)
           /\ Top \in Frame
<1>1. frames \in Seq(Frame) /\ frames # <<>> /\ stack \in Seq(Nat)
      /\ Len(stack) = Len(frames) /\ IsSeq(actions)
  BY DEF JournalInv, Shape, Running
<1>2. Len(frames) \in Nat \ {0}
  BY <1>1, EmptySeq
<1>3. Len(actions) \in Nat /\ stack[1] \in 1..Len(actions)
  BY <1>1, <1>2 DEF JournalInv, Shape, IsSeq
<1>4. Top \in Frame
  BY <1>1, <1>2, ElementOfSeq DEF Top, Last
<1> QED BY <1>1, <1>2, <1>3, <1>4

\* An opcode of a frame that is not static adds entries to the journal.
LEMMA StepKeeps ==
    ASSUME JournalInv, Running, ~Top.is_static, NEW more, IsSeq(more),
           Step(actions \o more)
    PROVE  JournalInv'
<1>1. /\ actions' = actions \o more /\ world' = world /\ stack' = stack
      /\ frames' = frames /\ entered' = entered
  BY DEF Step
<1>2. Shape(world, actions \o more, stack, frames, entered)
  BY WhileRunning, Extended DEF JournalInv
<1>3. Pure(actions \o more, stack, frames)
  BY WhileRunning, NotStatic DEF JournalInv, Top
<1> QED BY <1>1, <1>2, <1>3 DEF JournalInv

\* An opcode that adds nothing keeps the invariant in any frame.
LEMMA StepNowhere ==
    ASSUME JournalInv, Step(actions)
    PROVE  JournalInv'
BY DEF Step, JournalInv

\* What a withdrawal adds after the transfer is a sequence.
LEMMA WithdrawalIsSeq ==
    ASSUME NEW k, NEW v
    PROVE  IsSeq(Withdrawal(k, v))
<1> DEFINE t == IF ExternalAccount(actions, k).owner = "token" THEN <<>>
                ELSE <<TokenCreate(k, operator, k)>>
           u == <<TokenTransfer(Pool, k, Deposit, v)>>
           w == <<Withdraw(NeonToken, v)>>
<1>1. IsSeq(t) /\ IsSeq(u) /\ IsSeq(w)
  BY OneIsSeq, EmptyIsSeq
<1>2. Withdrawal(k, v) = t \o u \o w
  BY DEF Withdrawal
<1> HIDE DEF t, u, w
<1>3. IsSeq(t \o u)
  BY <1>1, ConcatFacts
<1>4. IsSeq(t \o u \o w)
  BY <1>1, <1>3, ConcatFacts
<1> QED BY <1>2, <1>4

\* A frame is entered, with entries before and after its snapshot.
LEMMA EnterKeeps ==
    ASSUME JournalInv, Running, NEW f \in Frame, NEW first, NEW more,
           IsSeq(first), IsSeq(more),
           f.is_static => f.reason = "Call",
           Top.is_static => f.is_static /\ actions \o first = actions,
           f.is_static => actions \o first \o more = actions \o first,
           Enter(f, actions \o first, more)
    PROVE  JournalInv'
<1> DEFINE js == actions \o first
           s2 == Append(stack, Len(js))
           f2 == Append(frames, f)
           v2 == Append(entered, View(world, js))
<1>1. /\ actions' = js \o more /\ stack' = s2 /\ frames' = f2
      /\ entered' = v2 /\ world' = world
  BY DEF Enter
<1>2. IsSeq(js) /\ Len(js) \in Nat \ {0}
  BY WhileRunning, ConcatFacts
<1>3. Shape(world, js, stack, frames, entered)
  BY WhileRunning, Extended DEF JournalInv
<1>4. Pure(js, stack, frames)
  <2>1. CASE Top.is_static
    BY <2>1 DEF JournalInv
  <2>2. CASE ~Top.is_static
    BY <2>2, WhileRunning, NotStatic DEF JournalInv, Top
  <2> QED BY <2>1, <2>2
<1> HIDE DEF js
<1>5. Shape(world, js, s2, f2, v2)
  BY <1>2, <1>3, WhileRunning, Entered
<1>6. Pure(js, s2, f2)
  BY <1>2, <1>4, WhileRunning, PureEntered DEF Top
<1>7. Len(f2) \in Nat \ {0} /\ Last(f2) = f
  BY WhileRunning DEF Last
<1> HIDE DEF s2, f2, v2
<1>8. Shape(world, js \o more, s2, f2, v2)
  BY <1>2, <1>5, Extended
<1>9. Pure(js \o more, s2, f2)
  <2>1. CASE f.is_static
    BY <2>1, <1>6 DEF js
  <2>2. CASE ~f.is_static
    BY <2>2, <1>6, <1>7, NotStatic
  <2> QED BY <2>1, <2>2
<1> QED BY <1>1, <1>8, <1>9 DEF JournalInv

\* A frame is left with the journal js, which kept the invariant so far.
LEMMA LeaveKeeps ==
    ASSUME JournalInv, Running, NEW js, NEW status,
           Shape(world, js, stack, frames, entered), Pure(js, stack, frames),
           Leave(js, status)
    PROVE  JournalInv'
<1>1. /\ actions' = js /\ stack' = Front(stack) /\ frames' = Front(frames)
      /\ entered' = Front(entered) /\ world' = world
  BY DEF Leave
<1>2. Shape(world, js, Front(stack), Front(frames), Front(entered))
  BY WhileRunning, Left
<1>3. Pure(js, Front(stack), Front(frames))
  BY WhileRunning, PureLeft
<1> QED BY <1>1, <1>2, <1>3 DEF JournalInv

\* A frame is left with entries added.
LEMMA ExitKeeps ==
    ASSUME JournalInv, Running, ~Top.is_static, NEW more, NEW status,
           IsSeq(more), Leave(actions \o more, status)
    PROVE  JournalInv'
<1>1. Shape(world, actions \o more, stack, frames, entered)
  BY WhileRunning, Extended DEF JournalInv
<1>2. Pure(actions \o more, stack, frames)
  BY WhileRunning, NotStatic DEF JournalInv, Top
<1> QED BY <1>1, <1>2, LeaveKeeps

\* Between transactions there is nothing to keep.
LEMMA IdleKeeps ==
    ASSUME NEW w, NEW js, NEW ss, NEW fs, NEW vs,
           js = <<>>, ss = <<>>, fs = <<>>, vs = <<>>
    PROVE  Shape(w, js, ss, fs, vs) /\ Pure(js, ss, fs)
BY EmptyIsSeq DEF Shape, Pure

\* A machine starts with the nonce of an origin and a snapshot after it.
LEMMA StartedKeeps ==
    ASSUME NEW f \in Frame, ~f.is_static, NEW o \in Origins, NEW more, IsSeq(more),
           Started(f, <<IncrementNonce(o)>> \o more)
    PROVE  JournalInv'
<1> DEFINE one == <<IncrementNonce(o)>>
           v == View(world, one)
<1>1. IsSeq(one) /\ Len(one) = 1 /\ one[1] = IncrementNonce(o)
  BY OneIsSeq
<1>2. (one \o more)[1] = IncrementNonce(o)
  BY <1>1, ConcatFacts
<1>3. /\ actions' = one \o more /\ stack' = <<1>> /\ frames' = <<f>>
      /\ entered' = <<v>> /\ world' = world
  BY <1>2 DEF Started
<1> HIDE DEF one, v
<1>4. Shape(world, one, <<>>, <<>>, <<>>) /\ Pure(one, <<>>, <<>>)
  BY <1>1, EmptyIsSeq DEF Shape, Pure
<1>5. Shape(world, one, Append(<<>>, Len(one)), Append(<<>>, f), Append(<<>>, View(world, one)))
  <2>1. Len(one) > 0
    BY <1>1
  <2> QED BY ONLY <1>1, <1>4, <2>1, Entered, f \in Frame
<1>6. Shape(world, one, <<1>>, <<f>>, <<v>>)
  <2>1. Append(<<>>, Len(one)) = <<1>> /\ Append(<<>>, f) = <<f>>
        /\ Append(<<>>, View(world, one)) = <<v>>
    BY <1>1 DEF v
  <2> QED BY <1>5, <2>1
<1>7. Shape(world, one \o more, <<1>>, <<f>>, <<v>>)
  BY <1>1, <1>6, Extended
<1>8. Pure(one \o more, <<1>>, <<f>>)
  BY DEF Pure
<1> QED BY <1>3, <1>7, <1>8 DEF JournalInv

LEMMA EntriesAreSeqs ==
    ASSUME NEW e, NEW x, NEW y, NEW v
    PROVE  /\ IsSeq(<<e>> \o Transfer(x, y, v))
           /\ IsSeq(Transfer(x, y, v) \o <<e>>)
BY OneIsSeq, TransferIsSeq, ConcatFacts

LEMMA FrameTypes ==
    ASSUME NEW x \in Addresses, NEW b \in BOOLEAN, NEW c
    PROVE  /\ CallFrame(x, b, c) \in Frame
           /\ CallFrame(x, b, c).is_static = b /\ CallFrame(x, b, c).reason = "Call"
           /\ CreateFrame(x, b) \in Frame /\ CreateFrame(x, b).is_static = FALSE
BY DEF CallFrame, CreateFrame, Frame

LEMMA NothingAdded ==
    ASSUME NEW s, IsSeq(s)
    PROVE  s \o <<>> = s
BY DEF IsSeq

\* A call, in whatever mode: it enters a frame without entries before it.
LEMMA CallKeeps ==
    ASSUME JournalInv, Running, NEW x \in Addresses, NEW b \in BOOLEAN, NEW c,
           NEW more, IsSeq(more), Top.is_static => b, b => more = <<>>,
           Enter(CallFrame(x, b, c), actions, more)
    PROVE  JournalInv'
<1> DEFINE f == CallFrame(x, b, c)
<1>1. f \in Frame /\ f.is_static = b /\ f.reason = "Call"
  BY FrameTypes
<1> HIDE DEF f
<1>2. actions \o <<>> = actions /\ IsSeq(<<>>)
  BY WhileRunning, NothingAdded, EmptyIsSeq
<1>3. Enter(f, actions \o <<>>, more)
  BY <1>2 DEF f
<1>4. f.is_static => actions \o <<>> \o more = actions \o <<>>
  BY <1>1, <1>2
<1> QED BY <1>1, <1>2, <1>3, <1>4, EnterKeeps

\* Every step keeps the invariant.
LEMMA StartKeeps == ASSUME Start PROVE JournalInv'
<1> PICK o \in Origins, v \in Values :
        \/ \E x \in Addresses : StartCall(o, x, v)
        \/ \E x \in Creatable, eof \in BOOLEAN : StartCreate(o, x, v, eof)
  BY DEF Start
<1>1. ASSUME NEW x \in Addresses, StartCall(o, x, v) PROVE JournalInv'
  <2>1. Started(CallFrame(x, FALSE, world.code[x]), <<IncrementNonce(o)>> \o Transfer(o, x, v))
    BY <1>1 DEF StartCall
  <2> QED BY <2>1, FrameTypes, TransferIsSeq, StartedKeeps
<1>2. ASSUME NEW x \in Creatable, NEW eof \in BOOLEAN, StartCreate(o, x, v, eof)
      PROVE  JournalInv'
  <2>1. x \in Addresses
    BY JournalAssumption
  <2> DEFINE more == <<IncrementNonce(x)>> \o Transfer(o, x, v)
  <2>2. IsSeq(more)
    BY EntriesAreSeqs
  <2>3. <<IncrementNonce(o), IncrementNonce(x)>> \o Transfer(o, x, v)
        = <<IncrementNonce(o)>> \o more
    <3> DEFINE a == IncrementNonce(o)
               b == IncrementNonce(x)
               t == Transfer(o, x, v)
               S == Range(t) \cup {a, b}
    <3>1. t \in Seq(S)
      BY TransferIsSeq, SeqMonotonic DEF IsSeq
    <3>2. <<a>> \in Seq(S) /\ <<b>> \in Seq(S) /\ <<a, b>> = <<a>> \o <<b>>
      OBVIOUS
    <3> HIDE DEF a, b, t, S
    <3>3. (<<a>> \o <<b>>) \o t = <<a>> \o (<<b>> \o t)
      BY <3>1, <3>2, ConcatAssociative
    <3> QED BY <3>2, <3>3 DEF a, b, t
  <2> HIDE DEF more
  <2>4. Started(CreateFrame(x, eof), <<IncrementNonce(o)>> \o more)
    BY <1>2, <2>3 DEF StartCreate
  <2>5. CreateFrame(x, eof) \in Frame /\ ~CreateFrame(x, eof).is_static
    BY <2>1, FrameTypes
  <2> QED BY <2>2, <2>4, <2>5, StartedKeeps
<1> QED BY <1>1, <1>2

LEMMA OpcodeKeeps == ASSUME JournalInv, Opcode PROVE JournalInv'
<1>1. ASSUME NEW i \in Indices, NEW v \in Cells, Sstore(i, v) PROVE JournalInv'
  <2>1. Running /\ ~Top.is_static
    BY <1>1 DEF Sstore, CanStep
  <2>2. Step(actions \o <<SetStorage(Top.contract, i, v)>>)
    BY <1>1, <2>1, WhileRunning, AppendOne DEF Sstore
  <2> QED BY <2>1, <2>2, OneIsSeq, StepKeeps
<1>2. ASSUME NEW x \in Addresses, NEW v \in Values, Call(x, v) PROVE JournalInv'
  <2>1. Running /\ Top.is_static \in BOOLEAN
    BY <1>2, WhileRunning DEF Call, CanStep, Frame
  <2>2. Top.is_static => Transfer(Top.contract, x, v) = <<>>
    BY <1>2 DEF Call, Transfer
  <2>3. Enter(CallFrame(x, Top.is_static, code(world, actions, x)),
              actions, Transfer(Top.contract, x, v))
    BY <1>2 DEF Call
  <2> QED BY <2>1, <2>2, <2>3, TransferIsSeq, CallKeeps
<1>3. ASSUME NEW x \in Addresses, StaticCall(x) PROVE JournalInv'
  <2>1. Running /\ Enter(CallFrame(x, TRUE, code(world, actions, x)), actions, <<>>)
    BY <1>3 DEF StaticCall, CanStep
  <2> QED BY <2>1, EmptyIsSeq, CallKeeps
<1>4. ASSUME NEW x \in Addresses, DelegateCall(x) PROVE JournalInv'
  <2>1. Running /\ Enter(CallFrame(Top.contract, Top.is_static, code(world, actions, x)),
                         actions, <<>>)
    BY <1>4 DEF DelegateCall, CanStep
  <2>2. Top.contract \in Addresses /\ Top.is_static \in BOOLEAN
    BY <2>1, WhileRunning DEF Frame
  <2> QED BY <2>1, <2>2, EmptyIsSeq, CallKeeps
<1>5. ASSUME NEW x \in Addresses, SelfDestruct(x) PROVE JournalInv'
  <2> DEFINE t == Transfer(Top.contract, x, balance(world, actions, Top.contract))
             e == Destruct(Top.contract)
  <2>1. Running /\ ~Top.is_static /\ Leave(actions \o t \o <<e>>, "suicide")
    BY <1>5 DEF SelfDestruct, CanStep
  <2>2. IsSeq(t) /\ IsSeq(<<e>>) /\ IsSeq(t \o <<e>>)
    BY TransferIsSeq, OneIsSeq, EntriesAreSeqs
  <2> HIDE DEF t, e
  <2>3. actions \o t \o <<e>> = actions \o (t \o <<e>>)
    <3>1. IsSeq(actions)
      BY <2>1, WhileRunning
    <3> QED BY ONLY <3>1, <2>2, Regroup
  <2> QED BY <2>1, <2>2, <2>3, ExitKeeps
<1>6. ASSUME NEW k \in Wallets, NEW v \in Values, CallWithdraw(k, v) PROVE JournalInv'
  <2> DEFINE more == Transfer(Top.contract, NeonToken, v) \o Withdrawal(k, v)
  <2>1. Running /\ ~Top.is_static /\ (Step(actions \o more) \/ Step(actions))
    BY <1>6 DEF CallWithdraw, CanStep
  <2>2. IsSeq(more)
    BY TransferIsSeq, WithdrawalIsSeq, ConcatFacts
  <2> HIDE DEF more
  <2> QED BY <2>1, <2>2, StepKeeps, StepNowhere
<1>12. ASSUME NEW k, CallInitializeAccount(k) PROVE JournalInv'
  <2>1. Running /\ ~Top.is_static
        /\ (Step(actions \o <<TokenCreate(k, operator, Top.contract)>>) \/ Step(actions))
    BY <1>12 DEF CallInitializeAccount, CanStep
  <2> QED BY <2>1, OneIsSeq, StepKeeps, StepNowhere
<1>13. ASSUME NEW j, NEW k, NEW v, CallTokenTransfer(j, k, v) PROVE JournalInv'
  <2>1. Running /\ ~Top.is_static
        /\ Step(actions \o <<TokenTransfer(j, k, Top.contract, v)>>)
    BY <1>13 DEF CallTokenTransfer, CanStep
  <2> QED BY <2>1, OneIsSeq, StepKeeps
<1>14. ASSUME NEW k, CallGetAccount(k) PROVE JournalInv'
  BY <1>14, StepNowhere DEF CallGetAccount
<1>7. ASSUME NEW x \in Creatable, NEW v \in Values, NEW eof \in BOOLEAN, Create(x, v, eof)
      PROVE  JournalInv'
  <2> DEFINE e == IncrementNonce(Top.contract)
             more == <<IncrementNonce(x)>> \o Transfer(Top.contract, x, v)
             f == CreateFrame(x, eof)
  <2>1. Running /\ ~Top.is_static
    BY <1>7 DEF Create, CanStep
  <2>2. Append(actions, e) = actions \o <<e>> /\ IsSeq(<<e>>)
    BY <2>1, WhileRunning, AppendOne, OneIsSeq
  <2>3. Enter(f, Append(actions, e), more) \/ Step(Append(actions, e))
    BY <1>7 DEF Create
  <2>4. IsSeq(more) /\ f \in Frame /\ ~f.is_static
    BY JournalAssumption, EntriesAreSeqs, FrameTypes
  <2> HIDE DEF e, more, f
  <2>5. CASE Enter(f, Append(actions, e), more)
    BY <2>1, <2>2, <2>4, <2>5, EnterKeeps
  <2>6. CASE Step(Append(actions, e))
    BY <2>1, <2>2, <2>6, StepKeeps
  <2> QED BY <2>3, <2>5, <2>6
<1>8. ASSUME NEW c \in Codes \cup {NoCode}, Return(c) PROVE JournalInv'
  <2>1. Running
    BY <1>8 DEF Return
  <2>2. CASE Top.reason = "Create"
    <3>1. ~Top.is_static
      BY <2>1, <2>2, WhileRunning DEF JournalInv, Pure, Top, Last
    <3>2. Leave(actions \o <<SetCode(Top.contract, c)>>, "return")
      BY <1>8, <2>1, <2>2, WhileRunning, AppendOne DEF Return
    <3> QED BY <2>1, <3>1, <3>2, OneIsSeq, ExitKeeps
  <2>3. CASE Top.reason # "Create"
    <3>1. Leave(actions, "return")
      BY <1>8, <2>3 DEF Return
    <3> QED BY <2>1, <3>1, LeaveKeeps DEF JournalInv
  <2> QED BY <2>2, <2>3
<1>9. ASSUME Stop PROVE JournalInv'
  <2>1. Running /\ Leave(actions, "stop")
    BY <1>9 DEF Stop
  <2> QED BY <2>1, LeaveKeeps DEF JournalInv
<1>10. ASSUME Revert PROVE JournalInv'
  <2> DEFINE js == SubSeq(actions, 1, Last(stack))
  <2>1. Running /\ Leave(js, "revert")
    BY <1>10 DEF Revert
  <2>2. Len(stack) > 0
    BY <2>1, WhileRunning
  <2>3. Shape(world, js, stack, frames, entered) /\ Pure(js, stack, frames)
    BY <2>2, CutBack, PureCut DEF JournalInv
  <2> HIDE DEF js
  <2> QED BY <2>1, <2>3, LeaveKeeps
<1>11. ASSUME Retf PROVE JournalInv'
  BY <1>11 DEF Retf, JournalInv
<1> QED
  BY <1>1, <1>2, <1>3, <1>4, <1>5, <1>6, <1>7, <1>8, <1>9, <1>10, <1>11,
     <1>12, <1>13, <1>14 DEF Opcode

LEMMA ApplyKeeps ==
    ASSUME JournalInv, (\E e \in Collectors, g \in GasCosts : Apply(e, g)) \/ Cancel
    PROVE  JournalInv'
<1>1. \/ UNCHANGED <<world, actions, stack, frames, entered>>
      \/ actions' = <<>> /\ stack' = <<>> /\ frames' = <<>> /\ entered' = <<>>
  BY DEF Apply, Cancel, Idle, machine
<1>2. CASE UNCHANGED <<world, actions, stack, frames, entered>>
  BY <1>2 DEF JournalInv
<1>3. CASE actions' = <<>> /\ stack' = <<>> /\ frames' = <<>> /\ entered' = <<>>
  BY <1>3, IdleKeeps DEF JournalInv
<1> QED BY <1>1, <1>2, <1>3

\* Others leave the journal and the frames alone.
LEMMA OthersKeep ==
    ASSUME JournalInv, NEW k, OthersToggle(k)
    PROVE  JournalInv'
BY DEF OthersToggle, machine, JournalInv

\* What balances are is no part of a view.
LEMMA ViewApart ==
    ASSUME NEW w \in World, NEW b, NEW js
    PROVE  View([w EXCEPT !.balance = b], js) = View(w, js)
BY DEF World, View, nonce, code, storage

\* The gas of an iteration changes no view.
LEMMA IterationKeeps ==
    ASSUME JournalInv, world \in World, NEW o, NEW e, NEW g, NextIteration(o, e, g)
    PROVE  JournalInv'
<1>1. /\ UNCHANGED <<actions, stack, frames, entered>>
      /\ world' = [world EXCEPT !.balance = GasPaid(@, e, g)]
  BY DEF NextIteration
<1>2. \A js : View(world', js) = View(world, js)
  BY <1>1, ViewApart
<1>3. Shape(world', actions, stack, frames, entered)
  BY <1>2 DEF JournalInv, Shape
<1> QED BY <1>1, <1>3 DEF JournalInv

(***************************************************************************)
(* The snapshots ExecutorState keeps are those of the frames, in order,    *)
(* and each frame's view of the accounts can be had back by truncating the *)
(* journal to its snapshot.  This is the invariant the rest follows from.  *)
(***************************************************************************)
LEMMA JournalStep ==
    ASSUME JournalInv, world \in World, [Next]_vars
    PROVE  JournalInv'
<1>1. CASE UNCHANGED vars
  BY <1>1 DEF vars, JournalInv
<1>2. CASE Next
  BY <1>2, StartKeeps, OpcodeKeeps, ApplyKeeps, OthersKeep, IterationKeeps DEF Next
<1> QED BY <1>1, <1>2

LEMMA JournalStart == Init => JournalInv
BY IdleKeeps DEF Init, JournalInv

LEMMA JournalNests == ASSUME JournalInv PROVE SnapshotsNested
<1> SUFFICES ASSUME Running
             PROVE  /\ Len(stack) = Len(frames)
                    /\ \A d \in 2..Len(stack) : stack[d - 1] <= stack[d]
                    /\ Last(stack) <= Len(actions)
                    /\ stack[1] = 1
                    /\ actions[1].op = "EvmIncrementNonce"
                    /\ actions[1].address \in Origins
  BY DEF SnapshotsNested
<1>1. Len(stack) = Len(frames) /\ Len(stack) \in Nat \ {0}
      /\ Len(actions) \in Nat \ {0} /\ stack \in Seq(Nat)
  BY WhileRunning
<1>2. ASSUME NEW d \in 2..Len(stack) PROVE stack[d - 1] <= stack[d]
  <2>1. d - 1 \in 1..Len(stack) /\ d \in 1..Len(stack) /\ d - 1 <= d
    BY <1>1
  <2> QED BY <2>1 DEF JournalInv, Shape
<1>3. Last(stack) <= Len(actions) /\ stack[1] = 1
  BY <1>1 DEF JournalInv, Shape, Last
<1>4. actions[1].op = "EvmIncrementNonce" /\ actions[1].address \in Origins
  <2> PICK o \in Origins : actions[1] = IncrementNonce(o)
    BY <1>1 DEF JournalInv, Shape
  <2> QED BY DEF IncrementNonce
<1> QED BY <1>1, <1>2, <1>3, <1>4

LEMMA JournalIsPure == ASSUME JournalInv PROVE StaticPure
<1>1. DOMAIN frames = 1..Len(frames)
  BY DEF JournalInv, Shape
<1> QED BY <1>1 DEF JournalInv, Pure, StaticPure

LEMMA RevertUndoes ==
    ASSUME JournalInv, Revert
    PROVE  View(world, actions)' = Last(entered)
<1>1. Running /\ actions' = SubSeq(actions, 1, Last(stack)) /\ world' = world
  BY DEF Revert, Leave
<1>2. Len(stack) \in 1..Len(stack) /\ Len(entered) = Len(stack)
  BY <1>1, WhileRunning DEF JournalInv, Shape
<1>3. Last(entered) = View(world, SubSeq(actions, 1, Last(stack)))
  BY <1>2 DEF JournalInv, Shape, Last
<1> QED BY <1>1, <1>3
=============================================================================
