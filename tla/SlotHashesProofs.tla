-------------------------- MODULE SlotHashesProofs --------------------------
(***************************************************************************)
(* find_slot_hash reads inside the sysvar and finds every listed slot but  *)
(* the last one, for every length of the sysvar and every window.          *)
(***************************************************************************)
EXTENDS SlotHashes, SequenceTheorems, TLAPS

\* The sysvar: slots before the current one, the most recent first
SysvarInv ==
    /\ slot \in Nat /\ block_number \in Nat /\ value \in Nat
    /\ block_number <= slot
    /\ slot_hashes \in Seq(Nat) /\ Len(slot_hashes) > 0
    /\ Descending(slot_hashes)
    /\ \A i \in 1..Len(slot_hashes) : slot_hashes[i] < slot

\* The search: what is left of `left` is more recent than the value, what is
\* from `right` on is older, the last entry apart
SearchInv ==
    Searching =>
        /\ value < slot
        /\ left \in Nat /\ right \in Nat /\ left <= right
        /\ right < Len(slot_hashes) /\ size = right - left
        /\ \A i \in 1..left : slot_hashes[i] > value
        /\ \A i \in (right + 1)..(Len(slot_hashes) - 1) : slot_hashes[i] < value

FakeInv == answer = "fake" => value < slot /\ FoundIfListed

LoopInv == SysvarInv /\ SearchInv /\ FakeInv

LEMMA MidInRange ==
    ASSUME NEW l \in Nat, NEW r \in Nat, l < r
    PROVE  l + (r - l) \div 2 \in l..(r - 1)
OBVIOUS

LEMMA InitLoopInv == ASSUME Init PROVE LoopInv
<1>1. <<0>> \in Seq(Nat) /\ Len(<<0>>) = 1
  OBVIOUS
<1> QED
  BY <1>1 DEF Init, LoopInv, SysvarInv, SearchInv, FakeInv, Searching, Descending

LEMMA NextSlotKeeps ==
    ASSUME LoopInv, NEW skipped \in BOOLEAN, NextSlot(skipped)
    PROVE  LoopInv'
<1> DEFINE listed == <<slot>> \o slot_hashes
           n == IF Len(listed) > MAX_ENTRIES THEN MAX_ENTRIES ELSE Len(listed)
           cut == SubSeq(listed, 1, n)
<1>1. /\ slot \in Nat /\ slot' = slot + 1 /\ block_number' = block_number
      /\ slot_hashes \in Seq(Nat) /\ Len(slot_hashes) \in Nat \ {0}
      /\ value \in Nat /\ block_number \in Nat /\ block_number <= slot
      /\ value' = value /\ answer' = answer /\ ~Searching /\ ~Searching'
  BY DEF LoopInv, SysvarInv, NextSlot, search, Searching
<1>2. CASE skipped
  <2>1. slot_hashes' = slot_hashes
    BY <1>2 DEF NextSlot
  <2>2. SysvarInv'
    BY <1>1, <2>1 DEF LoopInv, SysvarInv, Descending
  <2>3. SearchInv' /\ FakeInv'
    BY <1>1, <2>1 DEF LoopInv, SearchInv, FakeInv, FoundIfListed
  <2> QED BY <2>2, <2>3 DEF LoopInv
<1>3. CASE ~skipped
  <2>1. /\ listed \in Seq(Nat) /\ Len(listed) = Len(slot_hashes) + 1
        /\ listed[1] = slot
        /\ \A i \in 2..Len(listed) : listed[i] = slot_hashes[i - 1]
    BY <1>1
  <2> HIDE DEF listed
  <2>2. n \in 1..Len(listed)
    BY <1>1, <2>1, SlotHashesAssumption
  <2> HIDE DEF n
  <2>3. cut \in Seq(Nat) /\ Len(cut) = n /\ \A i \in 1..n : cut[i] = listed[i]
    BY <2>1, <2>2, SubSeqProperties
  <2>4. slot_hashes' = cut
    BY <1>3 DEF NextSlot, cut, n, listed
  <2> HIDE DEF cut
  <2>5. Descending(listed) /\ \A i \in 1..Len(listed) : listed[i] < slot + 1
    <3>1. \A i \in 2..Len(listed) : i - 1 \in 1..Len(slot_hashes) /\ listed[i] < slot
      BY <1>1, <2>1 DEF LoopInv, SysvarInv
    <3>2. ASSUME NEW i \in 1..Len(listed), NEW j \in 1..Len(listed), i < j
          PROVE  listed[j] < listed[i]
      <4>1. CASE i = 1
        BY <4>1, <3>1, <3>2, <2>1
      <4>2. CASE i # 1
        <5>1. i - 1 \in 1..Len(slot_hashes) /\ j - 1 \in 1..Len(slot_hashes)
              /\ i \in 2..Len(listed) /\ j \in 2..Len(listed) /\ i - 1 < j - 1
          BY <4>2, <3>2, <2>1, <1>1
        <5>2. slot_hashes[j - 1] < slot_hashes[i - 1]
          BY <5>1 DEF LoopInv, SysvarInv, Descending
        <5> QED BY <5>1, <5>2, <2>1
      <4> QED BY <4>1, <4>2
    <3>3. ASSUME NEW i \in 1..Len(listed) PROVE listed[i] < slot + 1
      <4>1. listed[i] \in Nat
        BY <2>1
      <4>2. CASE i = 1
        BY <4>2, <2>1, <1>1
      <4>3. CASE i # 1
        BY <4>1, <4>3, <3>1, <1>1
      <4> QED BY <4>2, <4>3
    <3> QED BY <3>2, <3>3 DEF Descending
  <2>6. SysvarInv'
    <3>1. \A i \in 1..n : i \in 1..Len(listed)
      BY <1>1, <2>1, <2>2
    <3>2. Descending(cut) /\ \A i \in 1..n : cut[i] < slot + 1
      BY <2>3, <2>5, <3>1 DEF Descending
    <3>3. Len(cut) > 0
      BY <1>1, <2>1, <2>2, <2>3
    <3> QED BY <1>1, <2>3, <2>4, <3>2, <3>3 DEF SysvarInv, Descending
  <2>7. ASSUME answer = "fake" PROVE (value < slot)' /\ FoundIfListed'
    <3>1. value < slot /\ value \in Nat
          /\ \A i \in 1..(Len(slot_hashes) - 1) : slot_hashes[i] # value
      BY <2>7 DEF LoopInv, FakeInv, FoundIfListed, SysvarInv
    <3>2. ASSUME NEW i \in 1..(n - 1) PROVE cut[i] # value
      <4>1. i \in 1..n /\ i \in 1..(Len(listed) - 1)
        BY <2>1, <2>2, <1>1
      <4>2. CASE i = 1
        BY <4>1, <4>2, <3>1, <2>1, <2>3, <1>1
      <4>3. CASE i # 1
        <5>1. i - 1 \in 1..(Len(slot_hashes) - 1) /\ i \in 2..Len(listed)
          BY <4>1, <4>3, <2>1, <1>1
        <5> QED BY <5>1, <4>1, <3>1, <2>1, <2>3
      <4> QED BY <4>2, <4>3
    <3> QED BY <1>1, <2>3, <2>4, <3>1, <3>2 DEF FoundIfListed
  <2> QED BY <1>1, <2>6, <2>7 DEF LoopInv, SearchInv, FakeInv
<1> QED BY <1>2, <1>3

LEMMA BlockHashKeeps ==
    ASSUME LoopInv, NEW number \in 0..MaxSlot, BlockHash(number)
    PROVE  LoopInv'
<1>1. SysvarInv'
  BY SlotHashesAssumption DEF LoopInv, SysvarInv, BlockHash, SearchFrom
<1>2. CASE InRange(number)
  <2>1. /\ value' = number /\ left' = 0 /\ right' = Len(slot_hashes) - 1
        /\ size' = Len(slot_hashes) - 1 /\ answer' = "search"
        /\ slot' = slot /\ slot_hashes' = slot_hashes
    BY <1>2 DEF BlockHash, SearchFrom
  <2>2. number < slot /\ Len(slot_hashes) \in Nat \ {0}
    BY <1>2 DEF InRange, LoopInv, SysvarInv
  <2> QED BY <1>1, <2>1, <2>2 DEF LoopInv, SearchInv, FakeInv
<1>3. CASE ~InRange(number)
  BY <1>1, <1>3 DEF BlockHash, LoopInv, SearchInv, FakeInv, Searching
<1> QED BY <1>2, <1>3

LEMMA SearchStepKeeps ==
    ASSUME LoopInv, SearchStep
    PROVE  LoopInv'
<1>1. /\ Searching /\ left < right /\ left \in Nat /\ right \in Nat
      /\ size = right - left /\ right < Len(slot_hashes) /\ value \in Nat
      /\ slot_hashes \in Seq(Nat) /\ Len(slot_hashes) \in Nat
      /\ UNCHANGED <<slot, slot_hashes, block_number, value>>
      /\ size' = right' - left'
  BY DEF SearchStep, NewSize, LoopInv, SysvarInv, SearchInv
<1>2. mid \in left..(right - 1) /\ mid \in Nat
  BY <1>1, MidInRange DEF mid
<1>3. SysvarInv'
  BY <1>1 DEF LoopInv, SysvarInv, Descending
<1>4. slot_hashes[mid + 1] \in Nat /\ mid + 1 \in 1..Len(slot_hashes)
  BY <1>1, <1>2
<1>5. CASE value < SlotAt(mid)
  <2>1. left' = mid + 1 /\ right' = right /\ answer' = answer
    BY <1>1, <1>4, <1>5 DEF SearchStep, UpperHalf, SlotAt
  <2>2. ASSUME NEW i \in 1..(mid + 1) PROVE slot_hashes[i] > value
    <3>1. i \in 1..Len(slot_hashes) /\ slot_hashes[i] \in Nat
      BY <1>1, <1>2
    <3>2. i < mid + 1 => slot_hashes[mid + 1] < slot_hashes[i]
      BY <3>1, <1>4 DEF LoopInv, SysvarInv, Descending
    <3> QED BY <3>1, <3>2, <1>1, <1>2, <1>4, <1>5 DEF SlotAt
  <2>3. SearchInv'
    BY <1>1, <1>2, <2>1, <2>2 DEF LoopInv, SearchInv, Searching
  <2> QED BY <1>1, <1>3, <2>1, <2>3 DEF LoopInv, FakeInv, Searching
<1>6. CASE value > SlotAt(mid)
  <2>1. left' = left /\ right' = mid /\ answer' = answer
    BY <1>1, <1>4, <1>6 DEF SearchStep, LowerHalf, SlotAt
  <2>2. ASSUME NEW i \in (mid + 1)..(Len(slot_hashes) - 1) PROVE slot_hashes[i] < value
    <3>1. i \in 1..Len(slot_hashes) /\ slot_hashes[i] \in Nat
      BY <1>1, <1>2
    <3>2. mid + 1 < i => slot_hashes[i] < slot_hashes[mid + 1]
      BY <3>1, <1>4 DEF LoopInv, SysvarInv, Descending
    <3> QED BY <3>1, <3>2, <1>1, <1>2, <1>4, <1>6 DEF SlotAt
  <2>3. SearchInv'
    BY <1>1, <1>2, <2>1, <2>2 DEF LoopInv, SearchInv, Searching
  <2> QED BY <1>1, <1>3, <2>1, <2>3 DEF LoopInv, FakeInv, Searching
<1>7. CASE value = SlotAt(mid)
  <2>1. answer' = "hash"
    BY <1>1, <1>4, <1>7 DEF SearchStep, SlotAt
  <2> QED BY <1>3, <2>1 DEF LoopInv, SearchInv, FakeInv, Searching
<1> QED BY <1>1, <1>4, <1>5, <1>6, <1>7 DEF SlotAt

LEMMA NotFoundKeeps ==
    ASSUME LoopInv, NotFound
    PROVE  LoopInv'
<1>1. /\ Searching /\ left \in Nat /\ left = right /\ value \in Nat /\ value < slot
      /\ slot_hashes \in Seq(Nat) /\ Len(slot_hashes) \in Nat
      /\ answer' = "fake" /\ UNCHANGED <<slot, slot_hashes, block_number, value>>
  BY DEF NotFound, LoopInv, SysvarInv, SearchInv
<1>2. ASSUME NEW i \in 1..(Len(slot_hashes) - 1) PROVE slot_hashes[i] # value
  <2>1. slot_hashes[i] \in Nat /\ (i \in 1..left \/ i \in (right + 1)..(Len(slot_hashes) - 1))
    BY <1>1
  <2> QED BY <1>1, <2>1 DEF LoopInv, SearchInv
<1>3. SysvarInv'
  BY <1>1 DEF LoopInv, SysvarInv, Descending
<1> QED
  BY <1>1, <1>2, <1>3 DEF LoopInv, SearchInv, FakeInv, FoundIfListed, Searching

(***************************************************************************)
(* The invariant of find_slot_hash's loop.                                 *)
(***************************************************************************)
THEOREM LoopInvariance == Spec => []LoopInv
<1>1. Init => LoopInv
  BY InitLoopInv
<1>2. LoopInv /\ [Next]_vars => LoopInv'
  <2> SUFFICES ASSUME LoopInv, [Next]_vars PROVE LoopInv'
    OBVIOUS
  <2>1. CASE UNCHANGED vars
    BY <2>1 DEF vars, search, LoopInv, SysvarInv, SearchInv, FakeInv, Descending,
                FoundIfListed, Searching
  <2>2. CASE NewTransaction
    BY <2>2 DEF NewTransaction, search, LoopInv, SysvarInv, SearchInv, FakeInv,
                Descending, FoundIfListed, Searching
  <2> QED BY <2>1, <2>2, NextSlotKeeps, BlockHashKeeps, SearchStepKeeps, NotFoundKeeps DEF Next
<1> QED BY <1>1, <1>2, PTL DEF Spec

(***************************************************************************)
(* Every slot that is listed before the last entry is found.               *)
(***************************************************************************)
THEOREM ListedSlotsFound == Spec => []FoundIfListed
<1>1. LoopInv => FoundIfListed
  BY DEF LoopInv, FakeInv, FoundIfListed
<1> QED BY <1>1, LoopInvariance, PTL

(***************************************************************************)
(* The loop reads inside the sysvar's data.                                *)
(***************************************************************************)
THEOREM AllReadsInBounds == Spec => []ReadsInBounds
<1>1. ASSUME LoopInv PROVE ReadsInBounds
  <2> SUFFICES ASSUME Searching, left < right PROVE mid + 1 \in DOMAIN slot_hashes
    BY DEF ReadsInBounds
  <2>1. left \in Nat /\ right \in Nat /\ size = right - left
        /\ right < Len(slot_hashes) /\ slot_hashes \in Seq(Nat)
    BY <1>1 DEF LoopInv, SysvarInv, SearchInv
  <2>2. mid \in left..(right - 1)
    BY <2>1, MidInRange DEF mid
  <2> QED BY <2>1, <2>2
<1> QED BY <1>1, LoopInvariance, PTL
=============================================================================
