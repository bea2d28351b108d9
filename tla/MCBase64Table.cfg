CONSTANTS
    Threads = {"http", "ws"}
    Alphabet <- Letters
    Pad = "="
    Texts <- TwoTexts
SPECIFICATION Spec
INVARIANT WholeTextDecoded
