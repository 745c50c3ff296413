------------------------- MODULE SafeConsole_proofs -------------------------
(***************************************************************************)
(* Proofs about SafeConsole.  Every write is that of some text to some     *)
(* stream, so the properties are facts about the operators: what the       *)
(* fallback makes of one character, then of a text, then what the stream   *)
(* makes of that.                                                          *)
(***************************************************************************)
EXTENDS SafeConsole, TLAPS

Streams == [codec : Codec, errors : Errors]

\* The stream writes the character without raising, by itself or through its
\* own error handler.
Survives(codec, errors, c) ==
    Encodes(codec, c) \/ Carries(codec, Handler(errors, codec, c))

\* What Rewritten puts at the place of one character.
Reply(codec, errors, c) ==
    IF Encodes(codec, c) THEN c
    ELSE IF Replacement(errors, codec, c) \in {"raw", "raw pair"} THEN c
    ELSE Replacement(errors, codec, c)

\* What Write shows at the place of one character.
Shows(codec, errors, c) ==
    IF Encodes(codec, c) THEN c
    ELSE IF ~Carries(codec, Handler(errors, codec, c)) THEN ""
    ELSE IF Handler(errors, codec, c) \in {"raw", "raw pair"} THEN c
    ELSE Handler(errors, codec, c)

-----------------------------------------------------------------------------
(* One character.                                                          *)

\* What an error handler can answer.
LEMMA HandlerAnswers ==
    ASSUME NEW codec \in Codec, NEW errors \in Errors, NEW c \in Char
    PROVE  /\ Handler(errors, codec, c) \in {"raw", "raw pair", "\\x", "?", "", "error"}
           /\ Handler(errors, codec, c) = "raw" =>
                  errors = "surrogateescape" /\ c = "byte"
           /\ Handler(errors, codec, c) = "raw pair" =>
                  errors = "surrogatepass" /\ c \in {"byte", "half"}
                                           /\ codec \in {"utf-8", "utf-16"}
  BY DEF Handler

\* The ASCII forms and what error handlers spell out are in every codec.
LEMMA SpelledOutEncodes ==
    ASSUME NEW codec \in Codec, NEW c \in {"[ascii]", "?", "\\x", ""}
    PROVE  Encodes(codec, c) /\ c \notin Char
  BY DEF Encodes, Char, Codec

\* What the fallback handler can answer.
LEMMA ReplacementAnswers ==
    ASSUME NEW codec \in Codec, NEW errors \in Errors, NEW c \in Char
    PROVE  Replacement(errors, codec, c) \in {"raw", "raw pair", "\\x", "", "?", "[ascii]"}
  <1>1. StreamsOwnReplacement(errors, codec, c) \in {"raw", "raw pair", "\\x", "", "?"}
    <2>1. Handler(errors, codec, c) \in {"raw", "raw pair", "\\x", "?", "", "error"}
      BY HandlerAnswers
    <2>2. QED
      BY <2>1, Zenon DEF StreamsOwnReplacement
  <1>2. QED
    BY <1>1 DEF Replacement

\* A character is kept when the codec has it, otherwise it is spelled out, or
\* kept for the stream's own handler to write as raw bytes.
LEMMA ReplyAnswers ==
    ASSUME NEW codec \in Codec, NEW errors \in Errors, NEW c \in Char
    PROVE  \/ Reply(codec, errors, c) \in {"[ascii]", "?", "\\x", ""} /\ ~Encodes(codec, c)
           \/ Reply(codec, errors, c) = c /\ Encodes(codec, c)
           \/ /\ Reply(codec, errors, c) = c /\ ~Encodes(codec, c)
              /\ Handler(errors, codec, c) \in {"raw", "raw pair"}
              /\ Replacement(errors, codec, c) = Handler(errors, codec, c)
  <1>1. CASE Encodes(codec, c)
    BY <1>1 DEF Reply
  <1>2. CASE ~Encodes(codec, c) /\ Replacement(errors, codec, c) \in {"raw", "raw pair"}
    BY <1>2 DEF Reply, Replacement, StreamsOwnReplacement
  <1>3. CASE ~Encodes(codec, c) /\ Replacement(errors, codec, c) \notin {"raw", "raw pair"}
    BY <1>3, ReplacementAnswers DEF Reply
  <1>4. QED
    BY <1>1, <1>2, <1>3

\* What the fallback for the stream's own handler writes survives that stream,
\* if the codec can carry the replacement.
LEMMA OwnReplySurvives ==
    ASSUME NEW codec \in Codec, NEW errors \in Errors, NEW c \in Char,
           Encodes(codec, c) \/ Carries(codec, Replacement(errors, codec, c))
    PROVE  Survives(codec, errors, Reply(codec, errors, c))
  <1>1. CASE Reply(codec, errors, c) \in {"[ascii]", "?", "\\x", ""}
    <2>1. Encodes(codec, Reply(codec, errors, c))
      BY <1>1, SpelledOutEncodes
    <2>2. QED
      BY <2>1 DEF Survives
  <1>2. CASE Reply(codec, errors, c) = c /\ Encodes(codec, c)
    BY <1>2, Zenon DEF Survives
  <1>3. CASE /\ Reply(codec, errors, c) = c /\ ~Encodes(codec, c)
             /\ Replacement(errors, codec, c) = Handler(errors, codec, c)
    <2>1. Carries(codec, Handler(errors, codec, c))
      BY <1>3, Zenon
    <2>2. QED
      BY <1>3, <2>1, Zenon DEF Survives
  <1>4. QED
    BY <1>1, <1>2, <1>3, ReplyAnswers

\* What the fallback for a strict stream writes is in the codec, whatever the
\* handler of the stream that it is written to.
LEMMA StrictReplyEncodes ==
    ASSUME NEW codec \in Codec, NEW c \in Char
    PROVE  Encodes(codec, Reply(codec, "strict", c))
  <1>1. Handler("strict", codec, c) = "error"
    BY DEF Handler
  <1>2. "strict" \in Errors
    BY DEF Errors
  <1>3. QED
    BY <1>1, <1>2, ReplyAnswers, SpelledOutEncodes

-----------------------------------------------------------------------------
(* A text.                                                                 *)

\* Rewriting works position by position.
LEMMA RewrittenAt ==
    ASSUME NEW text, NEW codec, NEW errors
    PROVE  Rewritten(text, codec, errors) = [i \in DOMAIN text |-> Reply(codec, errors, text[i])]
  BY DEF Rewritten, Reply

\* So does the write, and it raises when one character does not survive.
LEMMA WriteAt ==
    ASSUME NEW text, NEW stream
    PROVE  /\ Write(text, stream).shown =
                  [i \in DOMAIN text |-> Shows(stream.codec, stream.errors, text[i])]
           /\ Write(text, stream).raised =
                  (\E i \in DOMAIN text : ~Survives(stream.codec, stream.errors, text[i]))
  BY DEF Write, Shows, Survives

\* encode_safe gives the text itself, or all of it rewritten for the stream's
\* own handler, or all of it for a strict stream; and the middle case only if
\* the codec carries every replacement.
LEMMA EncodeSafeCases ==
    ASSUME NEW text, NEW stream
    PROVE  \/ /\ EncodeSafe(text, stream) = text
              /\ \A i \in DOMAIN text : Encodes(stream.codec, text[i])
           \/ /\ EncodeSafe(text, stream) = Rewritten(text, stream.codec, stream.errors)
              /\ \A i \in DOMAIN text :
                    \/ Encodes(stream.codec, text[i])
                    \/ Carries(stream.codec, Replacement(stream.errors, stream.codec, text[i]))
           \/ /\ EncodeSafe(text, stream) = Rewritten(text, stream.codec, "strict")
              /\ \E i \in DOMAIN text :
                    /\ ~Encodes(stream.codec, text[i])
                    /\ ~Carries(stream.codec, Replacement(stream.errors, stream.codec, text[i]))
  BY DEF EncodeSafe, AsciiFallback

\* No text raises, on any stream.
LEMMA WriteNeverRaises ==
    ASSUME NEW text \in Seq(Char), NEW stream \in Streams
    PROVE  Write(EncodeSafe(text, stream), stream).raised = FALSE
  <1> DEFINE safe == EncodeSafe(text, stream)
  <1>1. stream.codec \in Codec /\ stream.errors \in Errors
    BY DEF Streams
  <1>2. \A i \in DOMAIN text : text[i] \in Char
    OBVIOUS
  <1>3. \A i \in DOMAIN safe : Survives(stream.codec, stream.errors, safe[i])
    <2>1. CASE safe = text /\ \A i \in DOMAIN text : Encodes(stream.codec, text[i])
      BY <2>1 DEF Survives
    <2>2. CASE /\ safe = Rewritten(text, stream.codec, stream.errors)
               /\ \A i \in DOMAIN text :
                     \/ Encodes(stream.codec, text[i])
                     \/ Carries(stream.codec, Replacement(stream.errors, stream.codec, text[i]))
      BY <1>1, <1>2, <2>2, RewrittenAt, OwnReplySurvives
    <2>3. CASE safe = Rewritten(text, stream.codec, "strict")
      BY <1>1, <1>2, <2>3, RewrittenAt, StrictReplyEncodes DEF Survives
    <2>4. QED
      BY <2>1, <2>2, <2>3, EncodeSafeCases
  <1> HIDE DEF safe
  <1>4. Write(safe, stream).raised = FALSE
    BY <1>3, WriteAt
  <1>5. QED
    BY <1>4 DEF safe

\* A character of the codec is shown as it is, and what is shown elsewhere is
\* none of the codec's characters.
LEMMA PrintableShown ==
    ASSUME NEW text \in Seq(Char), NEW stream \in Streams,
           NEW w, w = Write(EncodeSafe(text, stream), stream)
    PROVE  /\ DOMAIN w.shown = DOMAIN text
           /\ \A i \in DOMAIN text :
                 IF Encodes(stream.codec, text[i]) THEN w.shown[i] = text[i]
                 ELSE w.shown[i] \notin Char \/ ~Encodes(stream.codec, w.shown[i])
  <1> DEFINE safe == EncodeSafe(text, stream)
  <1>1. stream.codec \in Codec /\ stream.errors \in Errors /\ "strict" \in Errors
    BY DEF Streams, Errors
  <1>2. \A i \in DOMAIN text : text[i] \in Char
    OBVIOUS
  <1>3. /\ DOMAIN safe = DOMAIN text
        /\ \A i \in DOMAIN text :
              IF Encodes(stream.codec, text[i]) THEN safe[i] = text[i]
              ELSE safe[i] \in {"[ascii]", "?", "\\x", ""} \/ safe[i] = text[i]
    <2>1. CASE safe = text
      BY <2>1
    <2>2. ASSUME NEW errors \in Errors, safe = Rewritten(text, stream.codec, errors)
          PROVE  /\ DOMAIN safe = DOMAIN text
                 /\ \A i \in DOMAIN text :
                       IF Encodes(stream.codec, text[i]) THEN safe[i] = text[i]
                       ELSE safe[i] \in {"[ascii]", "?", "\\x", ""} \/ safe[i] = text[i]
      <3>1. safe = [i \in DOMAIN text |-> Reply(stream.codec, errors, text[i])]
        BY <2>2, RewrittenAt
      <3>2. ASSUME NEW c \in Char
            PROVE  IF Encodes(stream.codec, c) THEN Reply(stream.codec, errors, c) = c
                   ELSE \/ Reply(stream.codec, errors, c) \in {"[ascii]", "?", "\\x", ""}
                        \/ Reply(stream.codec, errors, c) = c
        BY <1>1, ReplyAnswers
      <3>3. QED
        BY <1>2, <3>1, <3>2
    <2>3. QED
      BY <1>1, <2>1, <2>2, EncodeSafeCases
  <1> HIDE DEF safe
  <1>4. w.shown = [i \in DOMAIN safe |-> Shows(stream.codec, stream.errors, safe[i])]
    BY WriteAt DEF safe
  <1>5. ASSUME NEW i \in DOMAIN text
        PROVE  IF Encodes(stream.codec, text[i]) THEN w.shown[i] = text[i]
               ELSE w.shown[i] \notin Char \/ ~Encodes(stream.codec, w.shown[i])
    <2>1. w.shown[i] = Shows(stream.codec, stream.errors, safe[i])
      BY <1>3, <1>4
    <2>2. CASE Encodes(stream.codec, text[i])
      BY <1>3, <2>1, <2>2 DEF Shows
    <2>3. CASE ~Encodes(stream.codec, text[i]) /\ safe[i] \in {"[ascii]", "?", "\\x", ""}
      BY <1>1, <2>1, <2>3, SpelledOutEncodes DEF Shows
    <2>4. CASE ~Encodes(stream.codec, text[i]) /\ safe[i] = text[i]
      <3>1. Handler(stream.errors, stream.codec, text[i])
                \in {"raw", "raw pair", "\\x", "?", "", "error"}
        BY <1>1, <1>2, HandlerAnswers
      <3>2. \/ w.shown[i] = text[i]
            \/ w.shown[i] \in {"\\x", "?", ""}
        BY <2>1, <2>4, <3>1 DEF Shows, Carries
      <3>3. QED
        BY <1>1, <2>4, <3>2, SpelledOutEncodes
    <2>5. QED
      BY <1>3, <2>2, <2>3, <2>4
  <1>6. QED
    BY <1>3, <1>4, <1>5

\* No codec has the lone surrogates.
LEMMA ByteOutsideCodecs ==
    ASSUME NEW codec \in Codec
    PROVE  ~Encodes(codec, "byte") /\ "byte" \in Char
  BY DEF Encodes, Codec, Char

\* A stream that escapes surrogates, with a codec of single bytes, shows the
\* bytes of a path and turns nothing else into one.
LEMMA PathBytesShown ==
    ASSUME NEW text \in Seq(Char), NEW stream \in Streams,
           stream.errors = "surrogateescape", stream.codec # "utf-16",
           NEW w, w = Write(EncodeSafe(text, stream), stream),
           NEW i \in DOMAIN text
    PROVE  text[i] = "byte" <=> w.shown[i] = "byte"
  <1> DEFINE codec == stream.codec
             safe  == EncodeSafe(text, stream)
  <1>1. codec \in Codec /\ "surrogateescape" \in Errors /\ text[i] \in Char
    BY DEF Streams, Errors
  <1>2. Handler("surrogateescape", codec, "byte") = "raw"
    BY DEF Handler
  <1>3. /\ DOMAIN safe = DOMAIN text
        /\ text[i] = "byte" <=> safe[i] = "byte"
        /\ text[i] = "byte" \/ Encodes(codec, safe[i])
    <2>1. CASE safe = text /\ \A j \in DOMAIN text : Encodes(codec, text[j])
      BY <1>1, <2>1, ByteOutsideCodecs
    <2>2. CASE safe = Rewritten(text, codec, "surrogateescape")
      <3>1. DOMAIN safe = DOMAIN text /\ safe[i] = Reply(codec, "surrogateescape", text[i])
        BY <2>2, RewrittenAt
      <3>2. CASE text[i] = "byte"
        BY <1>1, <1>2, <3>1, <3>2, ByteOutsideCodecs
           DEF Reply, Replacement, StreamsOwnReplacement, HasAsciiForm
      <3>3. CASE text[i] # "byte"
        <4>1. Handler("surrogateescape", codec, text[i]) \notin {"raw", "raw pair"}
          BY <1>1, <3>3, HandlerAnswers
        <4>2. safe[i] \in {"[ascii]", "?", "\\x", ""} \/ (safe[i] = text[i] /\ Encodes(codec, text[i]))
          BY <1>1, <3>1, <4>1, ReplyAnswers
        <4>3. QED
          BY <1>1, <3>1, <3>3, <4>2, SpelledOutEncodes
      <3>4. QED
        BY <3>2, <3>3
    <2>3. ASSUME NEW j \in DOMAIN text, ~Encodes(codec, text[j]),
                 ~Carries(codec, Replacement("surrogateescape", codec, text[j]))
          PROVE  FALSE
      <3>1. Replacement("surrogateescape", codec, text[j]) # "error"
        <4>1. text[j] \in Char
          OBVIOUS
        <4>2. Replacement("surrogateescape", codec, text[j])
                  \in {"raw", "raw pair", "\\x", "", "?", "[ascii]"}
          BY <1>1, <4>1, ReplacementAnswers
        <4>3. QED
          BY <4>2
      <3>2. QED
        BY <2>3, <3>1 DEF Carries
    <2>4. QED
      BY <2>1, <2>2, <2>3, EncodeSafeCases
  <1>4. w.shown[i] = Shows(codec, "surrogateescape", safe[i])
    <2>1. w.shown = [j \in DOMAIN safe |-> Shows(codec, stream.errors, safe[j])]
      BY WriteAt
    <2>2. QED
      BY <1>3, <2>1
  <1>5. CASE text[i] = "byte"
    BY <1>1, <1>2, <1>3, <1>4, <1>5, ByteOutsideCodecs DEF Shows, Carries
  <1>6. CASE text[i] # "byte"
    BY <1>3, <1>4, <1>6 DEF Shows
  <1>7. QED
    BY <1>5, <1>6

-----------------------------------------------------------------------------
(* The console.                                                            *)

\* The last write is that of some text to some stream.
Answered ==
    /\ stdout \in Streams
    /\ \E text \in Seq(Char), stream \in Streams : last = Printed(text, stream)

\* Swapping the stream leaves the last write alone, and every write is one.
LEMMA AnsweredHolds == Spec => []Answered
  <1> USE ConsoleAssumption
  <1>1. Init => Answered
    <2>1. <<>> \in Seq(Char)
      OBVIOUS
    <2>2. QED
      BY <2>1 DEF Init, Answered, Streams
  <1>2. Answered /\ [Next]_vars => Answered'
    <2> SUFFICES ASSUME Answered, [Next]_vars PROVE Answered'
      OBVIOUS
    <2>1. ASSUME NEW text \in Text, Echo(text) PROVE Answered'
      <3>1. text \in Seq(Char) /\ stdout \in Streams
        BY DEF Answered
      <3>2. last' = Printed(text, stdout) /\ stdout' = stdout
        BY <2>1 DEF Echo
      <3>3. QED
        BY <3>1, <3>2 DEF Answered
    <2>2. CASE Swap
      BY <2>2 DEF Swap, Answered, Streams
    <2>3. CASE UNCHANGED vars
      BY <2>3 DEF vars, Answered
    <2>4. QED
      BY <2>1, <2>2, <2>3 DEF Next
  <1>3. QED
    BY <1>1, <1>2, PTL DEF Spec

\* No text aborts a command, for every set of streams and of texts: a glyph of
\* the table, a character the codec has not, a path byte or a lone surrogate,
\* mixed at will, on a stream of any codec and error handler.
THEOREM EveryTextIsWritten == Spec => []NothingAborts
  <1>1. Answered => NothingAborts
    <2> SUFFICES ASSUME NEW text \in Seq(Char), NEW stream \in Streams,
                        last = Printed(text, stream)
                 PROVE  ~last.raised
      BY DEF Answered, NothingAborts
    <2>1. last.raised = Write(EncodeSafe(text, stream), stream).raised
      BY DEF Printed
    <2>2. QED
      BY <2>1, WriteNeverRaises
  <1>2. QED
    BY <1>1, AnsweredHolds, PTL

\* What the stream can print is printed where it stands in the text, for texts
\* of any length, and nothing printable appears that was not there.
THEOREM NothingDegradedWithoutNeed == Spec => []PrintableKept
  <1>1. Answered => PrintableKept
    <2> SUFFICES ASSUME NEW text \in Seq(Char), NEW stream \in Streams,
                        last = Printed(text, stream)
                 PROVE  PrintableKept
      BY DEF Answered
    <2>1. /\ last.text = text /\ last.to = stream
          /\ last.shown = Write(EncodeSafe(text, stream), stream).shown
      BY DEF Printed
    <2>2. /\ DOMAIN last.shown = DOMAIN text
          /\ \A i \in DOMAIN text :
                IF Encodes(stream.codec, text[i]) THEN last.shown[i] = text[i]
                ELSE last.shown[i] \notin Char \/ ~Encodes(stream.codec, last.shown[i])
      BY <2>1, PrintableShown
    <2>3. QED
      BY <2>1, <2>2 DEF PrintableKept
  <1>2. QED
    BY <1>1, AnsweredHolds, PTL

\* The bytes of a path that is no text reach a stream made to show them, and
\* only they do, for texts of any length.
THEOREM PathBytesReachTheStream == Spec => []PathBytesKept
  <1>1. Answered => PathBytesKept
    <2> SUFFICES ASSUME NEW text \in Seq(Char), NEW stream \in Streams,
                        last = Printed(text, stream)
                 PROVE  PathBytesKept
      BY DEF Answered
    <2>1. /\ last.text = text /\ last.to = stream
          /\ last.shown = Write(EncodeSafe(text, stream), stream).shown
      BY DEF Printed
    <2>2. QED
      BY <2>1, PathBytesShown DEF PathBytesKept
  <1>2. QED
    BY <1>1, AnsweredHolds, PTL
=============================================================================
