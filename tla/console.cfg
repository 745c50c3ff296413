SPECIFICATION Spec
CONSTANTS
    Stream <- Streams
    Text <- Texts
INVARIANTS
    NothingAborts PrintableKept PathBytesKept
