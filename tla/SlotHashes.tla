----------------------------- MODULE SlotHashes -----------------------------
(***************************************************************************)
(* BLOCKHASH: the range check of ExecutorState::block_hash and the binary  *)
(* search of find_slot_hash over the slot hashes sysvar, which lists the   *)
(* slots that have a hash, the most recent first.  The block number is     *)
(* read once per transaction; the sysvar moves on with every slot.         *)
(***************************************************************************)
EXTENDS Integers, Sequences

CONSTANTS
    WINDOW,       \* 256, the number of blocks BLOCKHASH goes back
    MAX_ENTRIES,  \* the sysvar's length, 512
    MaxSlot       \* bound: slots

ASSUME SlotHashesAssumption ==
    WINDOW \in Nat /\ MAX_ENTRIES \in Nat \ {0} /\ MaxSlot \in Nat \ {0}

VARIABLES
    slot,           \* the clock
    slot_hashes,    \* slots of the sysvar's entries
    block_number,   \* the transaction's block number
    value,          \* the number asked for
    left, right, size,
    answer          \* "none" before and "search" during the search,
                    \* then "zero", "hash" or "fake"

search == <<value, left, right, size, answer>>
vars == <<slot, slot_hashes, block_number, search>>

Searching == answer = "search"
Descending(s) == \A i, j \in 1..Len(s) : i < j => s[j] < s[i]

\* A slot passes; the one before it has a hash unless it was skipped.
\* (external: the Solana runtime)
NextSlot(skipped) ==
    LET listed == <<slot>> \o slot_hashes IN
    /\ ~Searching /\ slot < MaxSlot
    /\ slot' = slot + 1
    /\ slot_hashes' =
          IF skipped THEN slot_hashes
          ELSE SubSeq(listed, 1, IF Len(listed) > MAX_ENTRIES THEN MAX_ENTRIES
                                 ELSE Len(listed))
    /\ UNCHANGED <<block_number, search>>

\* A new ExecutorState: its cache takes the block number from the clock.
NewTransaction ==
    /\ ~Searching
    /\ block_number' = slot
    /\ UNCHANGED <<slot, slot_hashes, search>>

InRange(number) ==
    LET lower == IF block_number < WINDOW + 1 THEN 0 ELSE block_number - WINDOW
    IN  number < block_number /\ lower <= number

SearchFrom(number, len) ==
    /\ value' = number
    /\ left' = 0 /\ right' = len /\ size' = len
    /\ answer' = "search"

\* ExecutorState::block_hash, up to the loop of find_slot_hash
BlockHash(number) ==
    /\ ~Searching
    /\ IF InRange(number)
       THEN SearchFrom(number, Len(slot_hashes) - 1)
       ELSE answer' = "zero" /\ value' = number /\ UNCHANGED <<left, right, size>>
    /\ UNCHANGED <<slot, slot_hashes, block_number>>

mid == left + size \div 2

\* Entries are numbered from 0 in the code.
SlotAt(i) == slot_hashes[i + 1]

\* Where the two halves of the range end
AtMid == mid
BeforeMid == mid - 1
UpperHalf == mid + 1
LowerHalf == mid

OldSize == size
NewSize == right' - left'

\* One turn of the loop
SearchStep ==
    /\ Searching /\ left < right
    /\ CASE value < SlotAt(mid) -> left' = UpperHalf /\ UNCHANGED <<right, answer>>
         [] value > SlotAt(mid) -> right' = LowerHalf /\ UNCHANGED <<left, answer>>
         [] OTHER -> answer' = "hash" /\ UNCHANGED <<left, right>>
    /\ size' = NewSize
    /\ UNCHANGED <<slot, slot_hashes, block_number, value>>

\* After the loop: generate_fake_slot_hash
NotFound ==
    /\ Searching /\ left >= right
    /\ answer' = "fake"
    /\ UNCHANGED <<slot, slot_hashes, block_number, value, left, right, size>>

Init ==
    /\ slot = 1 /\ slot_hashes = <<0>> /\ block_number = 1
    /\ value = 0 /\ left = 0 /\ right = 0 /\ size = 0 /\ answer = "none"

Next ==
    \/ \E skipped \in BOOLEAN : NextSlot(skipped)
    \/ NewTransaction
    \/ \E number \in 0..MaxSlot : BlockHash(number)
    \/ SearchStep
    \/ NotFound

Spec == Init /\ [][Next]_vars

\* The loop runs on within one instruction.
FairSpec == Spec /\ WF_vars(SearchStep) /\ WF_vars(NotFound)
-----------------------------------------------------------------------------
(* Correctness *)

(***************************************************************************)
(* Every read of find_slot_hash is inside the sysvar's data.               *)
(***************************************************************************)
ReadsInBounds == Searching /\ left < right => mid + 1 \in DOMAIN slot_hashes

(***************************************************************************)
(* A listed slot is found, wherever it is listed but in the last place,    *)
(* which the search never compares: a fake hash is the answer only for     *)
(* slots that are not listed before it.                                    *)
(***************************************************************************)
FoundIfListed ==
    answer = "fake" => \A i \in 1..(Len(slot_hashes) - 1) : slot_hashes[i] # value

(***************************************************************************)
(* Every search of find_slot_hash ends.                                    *)
(***************************************************************************)
SearchEnds == [](Searching => <>~Searching)
=============================================================================
