----------------------------- MODULE WindowWords -----------------------------
(***************************************************************************)
(* The replay bitmap as session.rs stores it: an array of words that       *)
(* shift_window moves in place, word by word from the top, with a carry    *)
(* from the word below.  Module Window gives the window as one set of      *)
(* positions; here every reachable array is shown to stand for the set     *)
(* Window computes.                                                        *)
(*                                                                         *)
(* A word is the set of its bits that are 1, so << and >> drop what leaves *)
(* the word, as they do on u64.                                            *)
(***************************************************************************)
EXTENDS Window

CONSTANTS WORD_BITS,      \* 64 in session.rs
          WINDOW_WORDS,   \* 32 in session.rs
          MaxWordCounter  \* bound on the counters committed

ASSUME WordsAssumption ==
    /\ WORD_BITS \in Nat \ {0}
    /\ WINDOW_WORDS \in Nat \ {0}
    /\ WINDOW_BITS = WORD_BITS * WINDOW_WORDS
    /\ MaxWordCounter \in Nat

Words == 0 .. WINDOW_WORDS - 1
Bits  == 0 .. WORD_BITS - 1

VARIABLES highest, bitmap, seeded

wordsVars == <<highest, bitmap, seeded>>

ZeroMap == [i \in Words |-> {}]

ShiftLeft(w, n)  == {b \in Bits : b - n \in w}
ShiftRight(w, n) == {b \in Bits : b + n \in w}

\* Plausible slip: the bits of a word are counted from its top.
bit_is_set_FromTop(map, delta) ==
    WORD_BITS - 1 - (delta % WORD_BITS) \in map[delta \div WORD_BITS]

bit_is_set(map, delta) == delta % WORD_BITS \in map[delta \div WORD_BITS]

set_bit(map, delta) ==
    [map EXCEPT ![delta \div WORD_BITS] = @ \cup {delta % WORD_BITS}]

\* Plausible slip: the carry from the word below is forgotten.
ShiftWord_NoCarry(map, i, word_shift, bit_shift) ==
    [map EXCEPT ![i] =
        IF i < word_shift THEN {} ELSE ShiftLeft(map[i - word_shift], bit_shift)]

(***************************************************************************)
(* One pass of the loop body of shift_window for index i, reading the      *)
(* array as it is by then.                                                 *)
(***************************************************************************)
ShiftWord(map, i, word_shift, bit_shift) ==
    [map EXCEPT ![i] =
        IF i < word_shift THEN {}
        ELSE IF bit_shift = 0 \/ i = word_shift
             THEN ShiftLeft(map[i - word_shift], bit_shift)
             ELSE ShiftLeft(map[i - word_shift], bit_shift)
                  \cup ShiftRight(map[i - word_shift - 1], WORD_BITS - bit_shift)]

\* after[n]: the array once the n highest words have been rewritten in place.
shift_words(map, shift) ==
    LET after[n \in 0 .. WINDOW_WORDS] ==
            IF n = 0 THEN map
            ELSE ShiftWord(after[n - 1], WINDOW_WORDS - n,
                           shift \div WORD_BITS, shift % WORD_BITS)
    IN IF shift >= WINDOW_BITS THEN ZeroMap ELSE after[WINDOW_WORDS]

check_words(counter) ==
    \/ ~seeded
    \/ counter > highest
    \/ /\ counter <= highest
       /\ highest - counter < WINDOW_BITS
       /\ ~bit_is_set(bitmap, highest - counter)

WordsInit ==
    /\ highest = 0
    /\ bitmap = ZeroMap
    /\ seeded = FALSE

\* commit, reached only when check has just succeeded under the same lock.
commit_words(counter) ==
    /\ check_words(counter)
    /\ seeded' = TRUE
    /\ highest' = IF seeded /\ counter <= highest THEN highest ELSE counter
    /\ bitmap' = IF ~seeded THEN set_bit(ZeroMap, 0)
                 ELSE IF counter > highest
                      THEN set_bit(shift_words(bitmap, counter - highest), 0)
                      ELSE set_bit(bitmap, highest - counter)

WordsNext == \E counter \in 0 .. MaxWordCounter : commit_words(counter)

WordsSpec == WordsInit /\ [][WordsNext]_wordsVars

------------------------------------------------------------------------------
\* The positions that an array stands for, bit b of word i being the position
\* WORD_BITS * i + b, and the window of module Window it stands for.
Positions(map) == {d \in Deltas : \E i \in Words : \E b \in map[i] : d = WORD_BITS * i + b}

AsWindow == [seeded |-> seeded, highest |-> highest, bitmap |-> Positions(bitmap)]

WordsTypeOK ==
    /\ highest \in 0 .. MaxWordCounter
    /\ bitmap \in [Words -> SUBSET Bits]
    /\ seeded \in BOOLEAN

(***************************************************************************)
(* check on the words, which looks a counter up by word and bit, answers   *)
(* as check on the positions the array stands for, for every counter and   *)
(* every array that commits can build (bit_is_set, check).                 *)
(***************************************************************************)
CheckMatches ==
    \A c \in 0 .. MaxWordCounter : check_words(c) <=> check(AsWindow, c)

(***************************************************************************)
(* Every commit on the words, in-place shift and carries included, is the  *)
(* commit of module Window on the positions they stand for (shift_window,  *)
(* set_bit, commit).                                                       *)
(***************************************************************************)
CommitMatches ==
    [][\E c \in 0 .. MaxWordCounter :
          /\ check(AsWindow, c)
          /\ AsWindow' = commit(AsWindow, c)]_wordsVars
=============================================================================
