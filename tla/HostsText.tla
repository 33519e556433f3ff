------------------------------- MODULE HostsText -------------------------------
(***************************************************************************)
(* The managed block of /etc/hosts: hosts.py, and the copy of the same     *)
(* algorithm in data/helpers/vulndockyard-hosts that runs as root.         *)
(*                                                                         *)
(* A text is a sequence of tokens: "nl" is a line feed, "begin", "end" and *)
(* "separator" are the marker texts without theirs, a member of Names is   *)
(* the entry "127.0.0.1<TAB>name", and every other token is foreign text.  *)
(* Line feeds are tokens of their own because the algorithm adds one and   *)
(* takes it away again.                                                    *)
(***************************************************************************)
EXTENDS Integers, Sequences, SequencesExt

CONSTANT NameOrder \* the friendly host names of the catalogue, sorted

Names == ToSet(NameOrder)

Markers == {"begin", "end", "separator"}

ASSUME NamesAssumption ==
    /\ NameOrder \in Seq(Names)
    /\ IsInjective(NameOrder)
    /\ Names \cap (Markers \cup {"nl"}) = {}

-----------------------------------------------------------------------------
(* Reading.                                                                *)

At(text, token) == {i \in DOMAIN text : text[i] = token}

OpenEnded(text) == text # <<>> /\ Last(text) # "nl"

\* exact_marker: the marker text starts a line and is all of it.
ExactMarker(text, marker) ==
    \A i \in At(text, marker) :
       /\ i > 1 => text[i - 1] = "nl"
       /\ i < Len(text)
       /\ text[i + 1] = "nl"

\* _bounds: no block, or exactly one with both markers in order.
Bounded(text) ==
    /\ At(text, "begin") = {} <=> At(text, "end") = {}
    /\ \A m \in {"begin", "end"} : \A i, j \in At(text, m) : i = j
    /\ ExactMarker(text, "begin") /\ ExactMarker(text, "end")
    /\ \A i \in At(text, "begin"), j \in At(text, "end") : i < j

HasBlock(text) == At(text, "begin") # {}
First(text)    == CHOOSE i \in At(text, "begin") : TRUE
Final(text)    == CHOOSE i \in At(text, "end") : TRUE
Before(text)   == SubSeq(text, 1, First(text) - 1)
After(text)    == SubSeq(text, Final(text) + 2, Len(text))
Body(text)     == SubSeq(text, First(text) + 2, Final(text) - 1)

\* The block says that the line feed before it was inserted with it.
Separated(text) == IsPrefix(<<"separator", "nl">>, Body(text))

Entries(text) ==
    IF Separated(text) THEN SubSeq(Body(text), 3, Len(Body(text))) ELSE Body(text)

\* parse_managed_hosts: every second token of the entries is a line feed.
Parsed(text) ==
    IF HasBlock(text)
    THEN [i \in 1..((Len(Entries(text)) + 1) \div 2) |-> Entries(text)[2 * i - 1]]
    ELSE <<>>

WellFormed(text) ==
    /\ Bounded(text)
    /\ HasBlock(text) =>
          /\ \A i \in DOMAIN Entries(text) :
                IF i % 2 = 1 THEN Entries(text)[i] \in Names
                ELSE Entries(text)[i] = "nl"
          /\ IsInjective(Parsed(text))

-----------------------------------------------------------------------------
(* Writing.                                                                *)

Position(n) == CHOOSE i \in DOMAIN NameOrder : NameOrder[i] = n

\* sorted(set(hostnames)).
Sorted(names) ==
    CHOOSE s \in SeqOf(names, Len(NameOrder)) :
       /\ ToSet(s) = names
       /\ \A i, j \in DOMAIN s : i < j => Position(s[i]) < Position(s[j])

\* The lines of some entries.
AsLines(s) == [i \in 1..(2 * Len(s)) |-> IF i % 2 = 1 THEN s[(i + 1) \div 2] ELSE "nl"]

\* _managed_block.
ManagedBlock(names, separated) ==
    <<"begin", "nl">>
        \o (IF separated THEN <<"separator", "nl">> ELSE <<>>)
        \o AsLines(Sorted(names))
        \o <<"end", "nl">>

LineFeedBefore(text) == IF OpenEnded(text) THEN <<"nl">> ELSE <<>>

\* The line feed that was inserted with the block goes with it.
WithoutInserted(text) == IF Separated(text) THEN Front(Before(text)) ELSE Before(text)

\* What transform_hosts accepts: an inserted line feed must still be there.
Transformable(text, names) ==
    /\ WellFormed(text)
    /\ HasBlock(text) /\ Separated(text) /\ names = {} => Before(text) # <<>>

\* Mutant: only the block goes, and not the line feed inserted with it.
TransformKeepsLineFeed(text, names) ==
    IF ~HasBlock(text)
    THEN IF names = {} THEN text
         ELSE text \o LineFeedBefore(text) \o ManagedBlock(names, OpenEnded(text))
    ELSE Before(text)
            \o (IF names = {} THEN <<>> ELSE ManagedBlock(names, Separated(text)))
            \o After(text)

\* Mutant: a block that changes is moved to the end, what follows it is lost.
TransformDropsTail(text, names) ==
    IF ~HasBlock(text)
    THEN IF names = {} THEN text
         ELSE text \o LineFeedBefore(text) \o ManagedBlock(names, OpenEnded(text))
    ELSE IF names = {} THEN WithoutInserted(text)
         ELSE Before(text) \o ManagedBlock(names, Separated(text))

\* transform_hosts.
Transform(text, names) ==
    IF ~HasBlock(text)
    THEN IF names = {} THEN text
         ELSE text \o LineFeedBefore(text) \o ManagedBlock(names, OpenEnded(text))
    ELSE IF names = {} THEN WithoutInserted(text) \o After(text)
         ELSE Before(text) \o ManagedBlock(names, Separated(text)) \o After(text)

\* Mutant: the helper forgets that the line feed before its block is inserted.
HelperForgetsSeparator(text, names) ==
    LET block == IF names = {} THEN <<>> ELSE ManagedBlock(names, FALSE)
    IN  IF ~HasBlock(text) THEN text \o LineFeedBefore(text) \o block
        ELSE IF names = {} THEN WithoutInserted(text) \o After(text)
        ELSE Before(text) \o block \o After(text)

\* transform of the helper, which inserts the line feed even with no block.
HelperTransform(text, names) ==
    LET separated == IF HasBlock(text) THEN Separated(text) ELSE OpenEnded(text)
        block == IF names = {} THEN <<>> ELSE ManagedBlock(names, separated)
    IN  IF ~HasBlock(text) THEN text \o LineFeedBefore(text) \o block
        ELSE IF names = {} THEN WithoutInserted(text) \o After(text)
        ELSE Before(text) \o block \o After(text)

-----------------------------------------------------------------------------
(* What a reader of the file sees.                                         *)

\* A line that is complete; a blank one is none.
Complete(reader) ==
    [done |-> IF reader.line = <<>> THEN reader.done ELSE Append(reader.done, reader.line),
     line |-> <<>>]

\* What a reader makes of one more token.
Take(reader, token) ==
    IF token = "nl" THEN Complete(reader)
    ELSE [done |-> reader.done, line |-> Append(reader.line, token)]

\* What a reader has made of every beginning of a text.
Reading(text) ==
    LET read[i \in 0..Len(text)] ==
            IF i = 0 THEN [done |-> <<>>, line |-> <<>>] ELSE Take(read[i - 1], text[i])
    IN  read

\* The lines of a text, as sequences of tokens, blank ones left out.
Lines(text) == Complete(Reading(text)[Len(text)]).done

\* The lines that are not the program's.
Unrelated(text) ==
    IF HasBlock(text) THEN Lines(Before(text)) \o Lines(After(text)) ELSE Lines(text)
=============================================================================
