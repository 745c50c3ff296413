---------------------------- MODULE SafeConsole ----------------------------
(***************************************************************************)
(* Console output that no glyph aborts (adapters/cli/safe_console.py): the *)
(* program's own echo, and the writer that a rich Console made at import   *)
(* prints through.                                                         *)
(*                                                                         *)
(* A stream is a codec and an error handler.  A character is the member of *)
(* a class: "plain" (every codec has it), "euro" (the code page has it),   *)
(* "dots" and "check" (glyphs of ASCII_FALLBACKS, the code page has the    *)
(* first only), "cjk", "byte" (the lone surrogate for a byte of a path),   *)
(* "half" (any other lone surrogate).  "[ascii]", "?" and "\x" stand for   *)
(* the ASCII form of a glyph and for what error handlers write, "" for     *)
(* nothing.  What comes of a text is kept position by position, so that    *)
(* position i of what is shown stands for position i of the text.          *)
(***************************************************************************)
EXTENDS Naturals, Sequences

CONSTANTS
    Stream,     \* streams that sys.stdout may be: records of codec and errors
    Text        \* texts to print: sequences of Char

VARIABLES
    stdout,     \* what sys.stdout is
    last        \* the last text, its target and what that shows

vars == <<stdout, last>>

Char   == {"plain", "euro", "dots", "check", "cjk", "byte", "half"}
Codec  == {"ascii", "cp1252", "utf-8", "utf-16"}
Errors == {"none", "strict", "surrogateescape", "surrogatepass", "backslashreplace",
           "xmlcharrefreplace", "namereplace", "replace", "ignore"}
Shown  == Char \cup {"[ascii]", "?", "\\x", ""}

ASSUME ConsoleAssumption ==
    /\ Stream \subseteq [codec : Codec, errors : Errors]
    /\ Text \subseteq Seq(Char)

-----------------------------------------------------------------------------
Encodes(codec, c) ==
    CASE codec = "ascii"  -> c \notin Char \ {"plain"}
      [] codec = "cp1252" -> c \notin {"check", "cjk", "byte", "half"}
      [] OTHER            -> c \notin {"byte", "half"}

HasAsciiForm(c) == c \in {"dots", "check"}

\* What Python's error handler of that name makes of a character: text, the
\* raw bytes of the character itself, nothing ("") or an error.
Handler(errors, codec, c) ==
    CASE errors = "surrogateescape" /\ c = "byte" -> "raw"
      [] errors = "surrogatepass" /\ c \in {"byte", "half"}
                                  /\ codec \in {"utf-8", "utf-16"} -> "raw pair"
      [] errors \in {"backslashreplace", "xmlcharrefreplace", "namereplace"} -> "\\x"
      [] errors = "replace" -> "?"
      [] errors = "ignore" -> ""
      [] OTHER -> "error"

\* A codec of two bytes a unit cannot carry a single raw byte.
Carries(codec, reply) == reply # "error" /\ ~(codec = "utf-16" /\ reply = "raw")

\* Mutant: the stream's own handler is never asked.
StreamsOwnReplacementQuestion(errors, codec, c) == "?"

\* _streams_own_replacement
StreamsOwnReplacement(errors, codec, c) ==
    IF Handler(errors, codec, c) = "error" THEN "?" ELSE Handler(errors, codec, c)

\* The fallback handler, called for a character the codec rejects.
Replacement(errors, codec, c) ==
    IF HasAsciiForm(c) THEN "[ascii]" ELSE StreamsOwnReplacement(errors, codec, c)

\* Encoded by the fallback handler and decoded again.
Rewritten(text, codec, errors) ==
    LET reply(c) == IF Encodes(codec, c) THEN c
                    ELSE LET r == Replacement(errors, codec, c)
                         IN IF r \in {"raw", "raw pair"} THEN c ELSE r
    IN [i \in DOMAIN text |-> reply(text[i])]

\* Mutant: what the codec cannot carry is not thought of.
AsciiFallbackOnce(text, stream) == Rewritten(text, stream.codec, stream.errors)

\* ascii_fallback: a second time, as for a strict stream, when the codec
\* cannot carry what the stream's handler wrote.
AsciiFallback(text, stream) ==
    IF \E i \in DOMAIN text :
          /\ ~Encodes(stream.codec, text[i])
          /\ ~Carries(stream.codec, Replacement(stream.errors, stream.codec, text[i]))
    THEN Rewritten(text, stream.codec, "strict")
    ELSE Rewritten(text, stream.codec, stream.errors)

\* Mutant: one character that cannot be shown degrades every glyph.
EncodeSafeAll(text, stream) ==
    IF \A i \in DOMAIN text : Encodes(stream.codec, text[i]) THEN text
    ELSE AsciiFallback([i \in DOMAIN text |->
                           IF HasAsciiForm(text[i]) THEN "[ascii]" ELSE text[i]], stream)

\* encode_safe
EncodeSafe(text, stream) ==
    IF \A i \in DOMAIN text : Encodes(stream.codec, text[i]) THEN text
    ELSE AsciiFallback(text, stream)

\* What the write of a text does: the stream encodes with its own handler.
Write(text, stream) ==
    LET out(c) == IF Encodes(stream.codec, c) THEN c
                  ELSE Handler(stream.errors, stream.codec, c)
        fails(c) == ~Encodes(stream.codec, c) /\ ~Carries(stream.codec, out(c))
        shows(c) == IF fails(c) THEN ""
                    ELSE IF out(c) \in {"raw", "raw pair"} THEN c ELSE out(c)
    IN [raised |-> \E i \in DOMAIN text : fails(text[i]),
        shown  |-> [i \in DOMAIN text |-> shows(text[i])]]

Printed(text, stream) ==
    LET w == Write(EncodeSafe(text, stream), stream)
    IN [text |-> text, to |-> stream, raised |-> w.raised, shown |-> w.shown]

-----------------------------------------------------------------------------
Init == stdout \in Stream /\ last = Printed(<<>>, stdout)

\* echo, and the write of _SafeWriter for a segment of rich: both look up
\* sys.stdout each time.
Echo(text) == last' = Printed(text, stdout) /\ UNCHANGED stdout

\* A capture of the output begins or ends.
Swap == stdout' \in Stream /\ UNCHANGED last

Next == (\E text \in Text : Echo(text)) \/ Swap

Spec == Init /\ [][Next]_vars

-----------------------------------------------------------------------------
(* Properties.                                                             *)

\* No text aborts a command, whatever the stream can encode and however it
\* treats errors (the module's purpose; ascii_fallback's second attempt).
NothingAborts == ~last.raised

\* A character the stream can print is never rewritten because of another one
\* in the same text, and none appears that the text does not have there.
PrintableKept ==
    LET printable(c) == c \in Char /\ Encodes(last.to.codec, c)
    IN /\ DOMAIN last.shown = DOMAIN last.text
       /\ \A i \in DOMAIN last.text :
             printable(last.text[i]) \/ printable(last.shown[i]) =>
                 last.shown[i] = last.text[i]

\* A path that is no text comes out with its own bytes on a stream made to
\* show it, and no other character turns into one.
PathBytesKept ==
    last.to.errors = "surrogateescape" /\ last.to.codec # "utf-16" =>
        \A i \in DOMAIN last.text : last.text[i] = "byte" <=> last.shown[i] = "byte"
=============================================================================
