\* Three words of three bits: shifts inside a word, across one and two words,
\* whole-word shifts and shifts past the window all occur.
CONSTANTS
    WINDOW_BITS = 9
    WORD_BITS = 3
    WINDOW_WORDS = 3
    MaxWordCounter = 20
SPECIFICATION WordsSpec
CHECK_DEADLOCK FALSE
INVARIANTS CheckMatches
PROPERTIES CommitMatches
