----------------------------- MODULE JsonBounds -----------------------------
(***************************************************************************)
(* The bounds of an OpenRouter catalogue snapshot, which are checked twice:*)
(* _preflight_json_bounds scans the bytes with a stack and a counter       *)
(* before anything is allocated, and _validate_json_bounds walks the value *)
(* that the standard decoder has built from them.                          *)
(*                                                                         *)
(* A document is any sequence of JSON tokens, and ends with the first that *)
(* breaks the grammar.  The scan and the decoder are modelled side by side:*)
(* the decoder's part is what it builds if the scan lets it run.  A key is *)
(* a string and its colon, as for the scan.  The two read the same tokens  *)
(* only in plain UTF-8: the decoder looks for a byte order mark and for    *)
(* the zero bytes of UTF-16 and UTF-32, and the scan does not.             *)
(***************************************************************************)
EXTENDS Integers, Sequences, FiniteSets, FiniteSetsExt

CONSTANTS
    MaxNodes,    \* _MAXIMUM_JSON_NODES
    MaxDepth,    \* _MAXIMUM_CONTAINER_DEPTH
    MaxItems,    \* _MAXIMUM_CONTAINER_ITEMS
    MaxMembers,  \* _MAXIMUM_OBJECT_MEMBERS
    MaxChars,    \* _MAXIMUM_JSON_STRING_CHARACTERS
    MaxKeyChars, \* _MAXIMUM_JSON_KEY_CHARACTERS
    SourceBytes, \* _MAXIMUM_JSON_CHARACTER_SOURCE_BYTES
    MaxDigits,   \* _MAXIMUM_NUMBER_DIGITS
    MaxExponent, \* _MAXIMUM_NUMBER_EXPONENT
    Decimals,    \* the largest exponent that Decimal can hold
    Names,       \* names of object members
    Unprintable, \* those with a control character
    Strings,     \* the characters and the source bytes of the strings that occur
    Numbers,     \* the digits, the length and the exponent of the numbers that occur
    MaxRead      \* bound: the values of a document

\* A character takes one to SourceBytes bytes, and a digit one.
ASSUME BoundsAssumption ==
    /\ {MaxNodes, MaxDepth, MaxItems, MaxMembers} \subseteq Nat \ {0}
    /\ {MaxChars, MaxKeyChars, SourceBytes, MaxDigits} \subseteq Nat \ {0}
    /\ MaxRead \in Nat /\ MaxExponent \in Nat
    /\ Decimals \in Nat /\ MaxExponent <= Decimals
    /\ Unprintable \subseteq Names
    /\ Strings \subseteq [chars : Nat, bytes : Nat]
    /\ Numbers \subseteq [digits : Nat, length : Nat, exponent : Nat]
    /\ \A s \in Strings : s.chars <= s.bytes /\ s.bytes <= SourceBytes * s.chars
    /\ \A n \in Numbers : n.digits <= n.length

VARIABLES
    plain,   \* the document is UTF-8 without a byte order mark
    scan,    \* passing, the open containers with their commas, and the nodes
    decoded, \* the decoder: the open frames and the largest of what it has built
    outcome  \* "reading", "parsed", "rejected", or "raised": another exception

document == <<plain, scan, decoded, outcome>>

\* The frame of the document, around those of its arrays and objects.
Root == [opener |-> "root", expect |-> "value", count |-> 0, names |-> {}]

DocumentInit ==
    /\ plain \in BOOLEAN
    /\ scan = [passing |-> TRUE, containers |-> <<>>, nodes |-> 0]
    /\ decoded = [wellFormed |-> TRUE, frames |-> <<Root>>, proper |-> TRUE, nodes |-> 0,
                  depth |-> 0, items |-> 0, members |-> 0, chars |-> 0, keyChars |-> 0,
                  digits |-> 0, length |-> 0, exponent |-> 0]
    /\ outcome = "reading"

-----------------------------------------------------------------------------
\* _preflight_json_bounds: one operator for each kind of token.
Last(s) == s[Len(s)]

Checked(next, holds) ==
    IF scan.passing
    THEN [next EXCEPT !.passing = holds /\ next.nodes <= MaxNodes]
    ELSE scan

ScanKey(size) == Checked(scan, size.bytes <= MaxKeyChars * SourceBytes)

\* Fault: a bound on characters bounds the bytes.
ScanStringByChars(size) ==
    Checked([scan EXCEPT !.nodes = @ + 1], size.bytes <= MaxChars)

ScanString(size) ==
    Checked([scan EXCEPT !.nodes = @ + 1], size.bytes <= MaxChars * SourceBytes)

\* 8 more: a sign, a point and an exponent.
ScanNumber(size) == Checked([scan EXCEPT !.nodes = @ + 1], size.length <= MaxDigits + 8)

ScanOpen(opener) ==
    Checked([scan EXCEPT !.nodes = @ + 1,
                         !.containers = Append(@, [opener |-> opener, separators |-> 0])],
            Len(scan.containers) < MaxDepth)

ScanClose(opener) ==
    IF scan.containers # <<>> /\ Last(scan.containers).opener = opener
    THEN Checked([scan EXCEPT !.containers = SubSeq(@, 1, Len(@) - 1)], TRUE)
    ELSE Checked(scan, FALSE)

Maximum(opener) == IF opener = "array" THEN MaxItems ELSE MaxMembers

\* Fault: as many commas as items.
ScanCommaLate ==
    LET c == scan.containers IN
    IF c = <<>> THEN Checked(scan, FALSE)
    ELSE Checked([scan EXCEPT !.containers[Len(c)].separators = @ + 1],
                 Last(c).separators + 1 <= Maximum(Last(c).opener))

ScanComma ==
    LET c == scan.containers IN
    IF c = <<>> THEN Checked(scan, FALSE)
    ELSE Checked([scan EXCEPT !.containers[Len(c)].separators = @ + 1],
                 Last(c).separators + 1 < Maximum(Last(c).opener))

-----------------------------------------------------------------------------
\* The standard decoder: what it expects, and what it has built.
Top == Last(decoded.frames)

ValueFits == Top.expect = "value" \/ (Top.opener = "array" /\ Top.expect = "first")
KeyFits == Top.opener = "object" /\ Top.expect \in {"first", "key"}
CommaFits == Top.opener # "root" /\ Top.expect = "next"
CloseFits(opener) == Top.opener = opener /\ Top.expect \in {"first", "next"}

WithTop(frame) == [decoded.frames EXCEPT ![Len(decoded.frames)] = frame]

\* The decoder after one more value.
WithValue ==
    LET frame == [Top EXCEPT !.expect = "next",
                             !.count = IF Top.opener = "array" THEN @ + 1 ELSE @] IN
    [decoded EXCEPT !.frames = WithTop(frame), !.nodes = @ + 1,
                    !.depth = Max({@, Len(decoded.frames)}),
                    !.items = Max({@, frame.count})]

WithName(name, size) ==
    LET frame == [Top EXCEPT !.expect = "value", !.names = @ \cup {name}] IN
    [decoded EXCEPT !.frames = WithTop(frame),
                    !.proper = @ /\ name \notin Top.names /\ name \notin Unprintable,
                    !.members = Max({@, Cardinality(frame.names)}),
                    !.keyChars = Max({@, size.chars})]

\* What the scan may make of a document of another encoding, in which it sees other
\* tokens: it goes on, or stops at any of them.
Misread == {scan, [scan EXCEPT !.passing = FALSE]}

\* Both read one token.
Read(scanned, fits, next) ==
    /\ outcome = "reading" /\ decoded.wellFormed
    /\ \/ plain /\ scan' = scanned
       \/ ~plain /\ scan' \in Misread
    /\ decoded' = IF fits THEN next ELSE [decoded EXCEPT !.wellFormed = FALSE]
    /\ plain' = plain /\ outcome' = outcome

ReadKey(name, size) == Read(ScanKey(size), KeyFits, WithName(name, size))

ReadString(size) ==
    /\ decoded.nodes < MaxRead
    /\ Read(ScanString(size), ValueFits,
            [WithValue EXCEPT !.chars = Max({@, size.chars})])

ReadNumber(size) ==
    /\ decoded.nodes < MaxRead
    /\ Read(ScanNumber(size), ValueFits,
            [WithValue EXCEPT !.digits = Max({@, size.digits}),
                              !.length = Max({@, size.length}),
                              !.exponent = Max({@, size.exponent})])

ReadOpen(opener) ==
    /\ decoded.nodes < MaxRead
    /\ Read(ScanOpen(opener), ValueFits,
            [WithValue EXCEPT !.frames =
                Append(@, [Root EXCEPT !.opener = opener, !.expect = "first"])])

ReadClose(opener) ==
    Read(ScanClose(opener), CloseFits(opener),
         [decoded EXCEPT !.frames = SubSeq(@, 1, Len(@) - 1)])

ReadComma ==
    Read(ScanComma, CommaFits,
         [decoded EXCEPT !.frames = WithTop(
            [Top EXCEPT !.expect = IF Top.opener = "array" THEN "value" ELSE "key"])])

\* A colon after anything else than a string, which the scan passes over.
ReadColon == Read(scan, FALSE, decoded)

-----------------------------------------------------------------------------
Complete == decoded.wellFormed /\ Len(decoded.frames) = 1 /\ Top.expect = "next"

Passed == scan.passing /\ scan.containers = <<>>

\* _unique_object.
NamesFit == decoded.proper /\ decoded.keyChars <= MaxKeyChars

\* What the decoder's value has to pass: _unique_object and _validate_json_bounds.
Walk ==
    /\ NamesFit
    /\ decoded.nodes <= MaxNodes /\ decoded.depth <= MaxDepth
    /\ decoded.items <= MaxItems /\ decoded.members <= MaxMembers
    /\ decoded.chars <= MaxChars /\ decoded.digits <= MaxDigits
    /\ decoded.exponent <= MaxExponent

\* parse_openrouter_model_snapshot, until it looks at the rows.  An exponent too large for
\* Decimal raises an ArithmeticError, which is not translated, if the decoder meets it
\* before a name that it rejects.
EndDocument ==
    /\ outcome = "reading"
    /\ \/ Passed /\ Complete /\ Walk /\ outcome' = "parsed"
       \/ /\ \/ ~Passed
             \/ ~NamesFit
             \/ decoded.exponent <= Decimals /\ ~(Complete /\ Walk)
          /\ outcome' = "rejected"
       \/ Passed /\ decoded.exponent > Decimals /\ outcome' = "raised"
    /\ UNCHANGED <<plain, scan, decoded>>

DocumentNext ==
    \/ \E name \in Names, size \in Strings : ReadKey(name, size)
    \/ \E size \in Strings : ReadString(size)
    \/ \E size \in Numbers : ReadNumber(size)
    \/ \E opener \in {"array", "object"} : ReadOpen(opener) \/ ReadClose(opener)
    \/ ReadComma \/ ReadColon \/ EndDocument

DocumentSpec == DocumentInit /\ [][DocumentNext]_document

-----------------------------------------------------------------------------
\* While the scan of a plain document passes, and so in every one that it lets the decoder
\* read, the decoder builds no more values, levels, items or members than the bounds allow;
\* the level of scalars inside the deepest container, which the scan does not count, and
\* short characters are left to the walk.
DecoderIsBounded ==
    plain /\ scan.passing =>
        /\ decoded.nodes <= MaxNodes
        /\ decoded.depth <= MaxDepth + 1
        /\ decoded.items <= MaxItems /\ decoded.members <= MaxMembers
        /\ decoded.chars <= MaxChars * SourceBytes

\* The scan of a plain document rejects nothing that the walk would accept, but for a
\* number written with more than eight characters beside the digits it may have, zeros
\* included.
RejectionsAreDue ==
    plain /\ outcome = "rejected" /\ Complete /\ Walk => decoded.length > MaxDigits + 8
=============================================================================
