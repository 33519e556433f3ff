--------------------------- MODULE HostsFile_proofs ---------------------------
(***************************************************************************)
(* Proofs about HostsFile, for any number of commands, friendly names and  *)
(* foreign lines, and whatever text the file holds.  First the operators   *)
(* of HostsText: names can be sorted, a block is read back as it was       *)
(* written, and a reader of two texts reads the lines of one and then      *)
(* those of the other.  Then the invariant of the steps.                   *)
(***************************************************************************)
EXTENDS HostsFile, SequenceTheorems, WellFoundedInduction, TLAPS

-----------------------------------------------------------------------------
(* What the lemmas and the invariant speak of.                             *)

Tokens == Names \cup Markers \cup {"nl"} \cup Foreign

\* Text without a marker of the block.
Free(text) == At(text, "begin") = {} /\ At(text, "end") = {}

\* Text that a line can follow.
Ended(text) == text # <<>> => text[Len(text)] = "nl"

\* A text with a managed block between two others.
Framed(text, b, a, names, separated) ==
    /\ text \in Seq(Tokens)
    /\ WellFormed(text)
    /\ HasBlock(text)
    /\ Before(text) = b
    /\ After(text) = a
    /\ (Separated(text) <=> separated)
    /\ Parsed(text) = Sorted(names)

\* A reader of a text: the lines it has read, and the one it is reading.
Readers == [done : Seq(Seq(Tokens)), line : Seq(Tokens)]

Fresh == [done |-> <<>>, line |-> <<>>]

\* What is to be read off the first k tokens of a text.
ReadsTo(f, text, k) ==
    f = [i \in 0..k |-> IF i = 0 THEN Fresh ELSE Take(f[i - 1], text[i])]

\* A reader that had read some lines before.
Beyond(lines, r) == [done |-> lines \o r.done, line |-> r.line]

\* Types of everything.
ShapeInv ==
    /\ file \in Seq(Tokens)
    /\ system \in BOOLEAN
    /\ pc \in [Commands -> Labels]
    /\ writer \in [Commands -> Stages]
    /\ seen \in [Commands -> Seq(Tokens)]
    /\ after \in [Commands -> SUBSET Names]
    /\ stale \in [Commands -> BOOLEAN]
    /\ raced \in [Commands -> BOOLEAN]

\* What was confirmed can be applied, and is still there as long as nobody is
\* known to have written the file.
ConfirmedInv ==
    \A p \in Commands :
       /\ pc[p] = "apply" => writer[p] = "off"
       /\ pc[p] = "wait" => writer[p] # "off"
       /\ pc[p] = "apply" \/ writer[p] # "off" =>
             /\ Transformable(seen[p], after[p])
             /\ HasBlock(seen[p]) \/ after[p] # {}
       /\ writer[p] = "staged" /\ ~stale[p] => file = seen[p]
       /\ writer[p] = "compared" /\ ~raced[p] => file = seen[p]

HInv == ShapeInv /\ ConfirmedInv

-----------------------------------------------------------------------------
(* Sorting.                                                                *)

\* Every set of naturals has a least member.
LEMMA Least ==
  ASSUME NEW T, T \subseteq Nat, T # {}
  PROVE  \E n \in T : \A m \in T : n <= m
<1>1. IsWellFoundedOn(OpToRel(<, Nat), Nat)
  BY NatLessThanWellFounded
<1>2. PICK n \in T : \A m \in T : ~(<<m, n>> \in OpToRel(<, Nat))
  BY <1>1, WFMin
<1>3. \A m \in T : ~(m < n)
  BY <1>2 DEF OpToRel
<1> QED
  BY <1>3

\* Induction up to some natural, over a set.
LEMMA Upward ==
  ASSUME NEW T, NEW k \in Nat, 0 \in T, \A j \in 0..(k - 1) : j \in T => j + 1 \in T
  PROVE  \A j \in 0..k : j \in T
<1> DEFINE Fails == {j \in 0..k : j \notin T}
<1>1. SUFFICES ASSUME Fails # {} PROVE FALSE
  OBVIOUS
<1>2. PICK j \in Fails : \A m \in Fails : j <= m
  <2>1. Fails \subseteq Nat
    OBVIOUS
  <2> HIDE DEF Fails
  <2> QED
    BY <1>1, <2>1, Least
<1>3. j - 1 \in 0..(k - 1) /\ j - 1 \notin Fails /\ (j - 1) + 1 = j
  BY <1>2
<1> QED
  BY <1>2, <1>3

\* Every friendly name has one place in the order.
LEMMA PositionIs ==
  ASSUME NEW n \in Names
  PROVE  /\ Position(n) \in 1..Len(NameOrder)
         /\ NameOrder[Position(n)] = n
BY NamesAssumption DEF Position, Names, ToSet

\* And every place is that of one friendly name.
LEMMA PositionOf ==
  ASSUME NEW i \in 1..Len(NameOrder)
  PROVE  NameOrder[i] \in Names /\ Position(NameOrder[i]) = i
<1>1. NameOrder[i] \in Names
  BY NamesAssumption
<1>2. NameOrder[Position(NameOrder[i])] = NameOrder[i] /\ Position(NameOrder[i]) \in 1..Len(NameOrder)
  BY <1>1, PositionIs
<1> QED
  BY <1>1, <1>2, NamesAssumption DEF IsInjective

\* The names of a set in order, up to some place in it.
SortedTo(names, s, k) ==
    /\ s \in SeqOf(names, k)
    /\ ToSet(s) = {n \in names : Position(n) <= k}
    /\ \A i, j \in DOMAIN s : i < j => Position(s[i]) < Position(s[j])

\* One more place, with its name or without it.
LEMMA SortedExtends ==
  ASSUME NEW names \in SUBSET Names, NEW k \in 0..(Len(NameOrder) - 1),
         NEW s, SortedTo(names, s, k)
  PROVE  \E t : SortedTo(names, t, k + 1)
<1> DEFINE n == NameOrder[k + 1]
<1>1. n \in Names /\ Position(n) = k + 1
  BY NamesAssumption, PositionOf
<1>2. \A m \in Names : Position(m) \in Nat /\ (Position(m) = k + 1 => m = n)
  BY PositionIs, NamesAssumption
<1>3. PICK l \in 0..k : s \in [1..l -> names]
  BY NamesAssumption DEF SortedTo, SeqOf
<1> HIDE DEF n
<1>4. CASE n \notin names
  <2>1. {m \in names : Position(m) <= k + 1} = {m \in names : Position(m) <= k}
    BY <1>1, <1>2, <1>4
  <2>2. s \in SeqOf(names, k + 1)
    BY <1>3 DEF SeqOf
  <2> QED
    BY <2>1, <2>2 DEF SortedTo
<1>5. CASE n \in names
  <2> DEFINE t == [i \in 1..(l + 1) |-> IF i = l + 1 THEN n ELSE s[i]]
  <2>1. t \in SeqOf(names, k + 1)
    BY <1>3, <1>5 DEF SeqOf
  <2>2. ToSet(t) = ToSet(s) \cup {n}
    <3>1. DOMAIN t = 1..(l + 1) /\ DOMAIN s = 1..l
      BY <1>3
    <3>2. \A i \in 1..l : t[i] = s[i]
      OBVIOUS
    <3>3. t[l + 1] = n
      OBVIOUS
    <3> HIDE DEF t
    <3>4. \A x \in ToSet(t) : x \in ToSet(s) \cup {n}
      BY <3>1, <3>2, <3>3 DEF ToSet
    <3>5. \A x \in ToSet(s) : x \in ToSet(t)
      BY <3>1, <3>2 DEF ToSet
    <3>6. n \in ToSet(t)
      BY <3>1, <3>3 DEF ToSet
    <3> QED
      BY <3>4, <3>5, <3>6
  <2>3. ToSet(t) = {m \in names : Position(m) <= k + 1}
    BY <1>1, <1>2, <1>5, <2>2 DEF SortedTo
  <2>4. \A i \in 1..l : Position(s[i]) < k + 1
    <3>1. \A i \in 1..l : s[i] \in ToSet(s)
      BY <1>3 DEF ToSet
    <3> QED
      BY <1>2, <3>1 DEF SortedTo
  <2>5. \A i, j \in DOMAIN t : i < j => Position(t[i]) < Position(t[j])
    BY <1>1, <1>3, <2>4 DEF SortedTo
  <2> QED
    BY <2>1, <2>3, <2>5 DEF SortedTo
<1> QED
  BY <1>4, <1>5

\* Any set of friendly names can be sorted, and is.
LEMMA SortedIs ==
  ASSUME NEW names \in SUBSET Names
  PROVE  /\ Sorted(names) \in Seq(names)
         /\ ToSet(Sorted(names)) = names
         /\ IsInjective(Sorted(names))
<1> DEFINE T == {k \in 0..Len(NameOrder) : \E s : SortedTo(names, s, k)}
<1>1. Len(NameOrder) \in Nat
  BY NamesAssumption
<1>2. Len(NameOrder) \in T
  <2>1. 0 \in T
    <3>1. <<>> \in SeqOf(names, 0)
      BY DEF SeqOf
    <3>2. {n \in names : Position(n) <= 0} = {}
      BY PositionIs, <1>1
    <3>3. SortedTo(names, <<>>, 0)
      BY <3>1, <3>2 DEF SortedTo, ToSet
    <3> QED
      BY <1>1, <3>3
  <2>2. \A k \in 0..(Len(NameOrder) - 1) : k \in T => k + 1 \in T
    BY <1>1, SortedExtends
  <2> HIDE DEF T
  <2>3. \A k \in 0..Len(NameOrder) : k \in T
    BY <1>1, <2>1, <2>2, Upward
  <2> QED
    BY <1>1, <2>3
<1>3. PICK s : SortedTo(names, s, Len(NameOrder))
  BY <1>1, <1>2
<1>4. {n \in names : Position(n) <= Len(NameOrder)} = names
  BY <1>1, PositionIs
<1> DEFINE Is(t) == /\ ToSet(t) = names
                    /\ \A i, j \in DOMAIN t : i < j => Position(t[i]) < Position(t[j])
<1>5. s \in SeqOf(names, Len(NameOrder)) /\ Is(s)
  BY <1>3, <1>4 DEF SortedTo
<1>6. Sorted(names) \in SeqOf(names, Len(NameOrder)) /\ Is(Sorted(names))
  BY <1>5 DEF Sorted
<1>7. PICK l \in 0..Len(NameOrder) : Sorted(names) \in [1..l -> names]
  BY <1>6 DEF SeqOf
<1>8. IsInjective(Sorted(names))
  <2>1. \A i, j \in 1..l : i < j => Sorted(names)[i] # Sorted(names)[j]
    BY <1>6, <1>7, PositionIs, <1>1
  <2> QED
    BY <1>1, <1>7, <2>1 DEF IsInjective
<1> QED
  BY <1>1, <1>6, <1>7, <1>8

-----------------------------------------------------------------------------
(* Writing a block.                                                        *)

\* What a text is that was put together of three.
Joined(text, b, m, a, S) ==
    /\ text \in Seq(S)
    /\ Len(text) = Len(b) + Len(m) + Len(a)
    /\ \A i \in 1..Len(b) : text[i] = b[i]
    /\ \A i \in 1..Len(m) : text[Len(b) + i] = m[i]
    /\ \A i \in 1..Len(a) : text[Len(b) + Len(m) + i] = a[i]
    /\ SubSeq(text, 1, Len(b)) = b
    /\ SubSeq(text, Len(b) + Len(m) + 1, Len(text)) = a
    /\ \A j \in 0..(Len(m) - 2) :
          SubSeq(text, Len(b) + 3, Len(b) + j) = SubSeq(m, 3, j)

\* Taking it apart again.
LEMMA ThreeParts ==
  ASSUME NEW S, NEW b \in Seq(S), NEW m \in Seq(S), NEW a \in Seq(S)
  PROVE  Joined(b \o m \o a, b, m, a, S)
<1> DEFINE text == b \o m \o a
<1>1. Len(b) \in Nat /\ Len(m) \in Nat /\ Len(a) \in Nat
  OBVIOUS
<1>2. b \o m \in Seq(S) /\ Len(b \o m) = Len(b) + Len(m)
      /\ \A i \in 1..(Len(b) + Len(m)) :
            (b \o m)[i] = IF i <= Len(b) THEN b[i] ELSE m[i - Len(b)]
  BY ConcatProperties
<1>3. text \in Seq(S) /\ Len(text) = Len(b) + Len(m) + Len(a)
      /\ \A i \in 1..(Len(b) + Len(m) + Len(a)) :
            text[i] = IF i <= Len(b) + Len(m) THEN (b \o m)[i] ELSE a[i - (Len(b) + Len(m))]
  <2>1. ASSUME NEW c \in Seq(S)
        PROVE  /\ c \o a \in Seq(S)
               /\ Len(c \o a) = Len(c) + Len(a)
               /\ \A i \in 1..(Len(c) + Len(a)) :
                     (c \o a)[i] = IF i <= Len(c) THEN c[i] ELSE a[i - Len(c)]
    BY ConcatProperties
  <2> HIDE DEF text
  <2>2. text = (b \o m) \o a
    BY DEF text
  <2>3. /\ text \in Seq(S)
        /\ Len(text) = Len(b \o m) + Len(a)
        /\ \A i \in 1..(Len(b \o m) + Len(a)) :
              text[i] = IF i <= Len(b \o m) THEN (b \o m)[i] ELSE a[i - Len(b \o m)]
    BY <1>2, <2>1, <2>2
  <2> QED
    BY <1>2, <2>3
<1> HIDE DEF text
<1>4. /\ \A i \in 1..Len(b) : text[i] = b[i]
      /\ \A i \in 1..Len(m) : text[Len(b) + i] = m[i]
      /\ \A i \in 1..Len(a) : text[Len(b) + Len(m) + i] = a[i]
  <2>1. ASSUME NEW i \in 1..Len(b) PROVE text[i] = b[i]
    <3>1. i \in 1..(Len(b) + Len(m)) /\ i \in 1..(Len(b) + Len(m) + Len(a))
      BY <1>1
    <3> QED
      BY <1>1, <1>2, <1>3, <3>1
  <2>2. ASSUME NEW i \in 1..Len(m) PROVE text[Len(b) + i] = m[i]
    <3>1. /\ Len(b) + i \in 1..(Len(b) + Len(m))
          /\ Len(b) + i \in 1..(Len(b) + Len(m) + Len(a))
          /\ ~(Len(b) + i <= Len(b)) /\ (Len(b) + i) - Len(b) = i
          /\ Len(b) + i <= Len(b) + Len(m)
      BY <1>1
    <3> QED
      BY <1>2, <1>3, <3>1
  <2>3. ASSUME NEW i \in 1..Len(a) PROVE text[Len(b) + Len(m) + i] = a[i]
    <3>1. /\ Len(b) + Len(m) + i \in 1..(Len(b) + Len(m) + Len(a))
          /\ ~(Len(b) + Len(m) + i <= Len(b) + Len(m))
          /\ (Len(b) + Len(m) + i) - (Len(b) + Len(m)) = i
      BY <1>1
    <3> QED
      BY <1>3, <3>1
  <2> QED
    BY <2>1, <2>2, <2>3
<1>5. SubSeq(text, 1, Len(b)) = b
  <2>1. \A i \in 1..Len(b) : text[i] \in S
    BY <1>1, <1>3
  <2>2. SubSeq(text, 1, Len(b)) \in Seq(S)
        /\ Len(SubSeq(text, 1, Len(b))) = Len(b)
        /\ \A i \in 1..Len(b) : SubSeq(text, 1, Len(b))[i] = text[i]
    BY <1>1, <2>1, SubSeqProperties
  <2> QED
    BY <1>1, <1>4, <2>2, SeqEqual
<1>6. SubSeq(text, Len(b) + Len(m) + 1, Len(text)) = a
  <2> DEFINE k == Len(b) + Len(m)
             u == SubSeq(text, k + 1, Len(text))
  <2>1. k \in Nat /\ Len(text) = k + Len(a)
    BY <1>1, <1>3
  <2>2. \A i \in (k + 1)..Len(text) : text[i] \in S
    BY <1>3, <2>1
  <2>3. u \in Seq(S) /\ Len(u) = Len(a) /\ \A i \in 1..Len(a) : u[i] = text[k + i]
    BY <1>1, <2>1, <2>2, SubSeqProperties
  <2>4. \A i \in 1..Len(a) : u[i] = a[i]
    BY <1>4, <2>3
  <2> HIDE DEF u
  <2>5. u = a
    BY <2>3, <2>4, SeqEqual
  <2> QED
    BY <2>5 DEF u
<1>7. ASSUME NEW j \in 0..(Len(m) - 2)
      PROVE  SubSeq(text, Len(b) + 3, Len(b) + j) = SubSeq(m, 3, j)
  <2> DEFINE u == SubSeq(text, Len(b) + 3, Len(b) + j)
             v == SubSeq(m, 3, j)
  <2>1. \A i \in 3..j : m[i] \in S /\ text[Len(b) + i] = m[i]
    BY <1>1, <1>4
  <2>2. \A i \in (Len(b) + 3)..(Len(b) + j) : text[i] \in S
    BY <1>1, <1>3
  <2>3. u \in Seq(S) /\ Len(u) = (IF 3 <= j THEN j - 2 ELSE 0)
        /\ \A i \in 1..(j - 2) : u[i] = text[Len(b) + i + 2]
    BY <1>1, <2>2, SubSeqProperties
  <2>4. v \in Seq(S) /\ Len(v) = (IF 3 <= j THEN j - 2 ELSE 0)
        /\ \A i \in 1..(j - 2) : v[i] = m[i + 2]
    BY <1>1, <2>1, SubSeqProperties
  <2>5. \A i \in 1..(j - 2) : u[i] = v[i]
    <3>1. \A i \in 1..(j - 2) : text[Len(b) + (i + 2)] = m[i + 2]
      BY <1>1, <1>4
    <3> QED
      BY <1>1, <2>3, <2>4, <3>1
  <2> HIDE DEF u, v
  <2>6. u = v
    BY <2>3, <2>4, <2>5, SeqEqual
  <2> QED
    BY <2>6 DEF u, v
<1> QED
  BY <1>3, <1>4, <1>5, <1>6, <1>7 DEF text, Joined

\* The lines of some entries.
LEMMA AsLinesIs ==
  ASSUME NEW s \in Seq(Names)
  PROVE  /\ AsLines(s) \in Seq(Names \cup {"nl"})
         /\ Len(AsLines(s)) = 2 * Len(s)
         /\ \A i \in 1..(2 * Len(s)) :
               IF i % 2 = 1 THEN AsLines(s)[i] \in Names ELSE AsLines(s)[i] = "nl"
         /\ [i \in 1..((2 * Len(s) + 1) \div 2) |-> AsLines(s)[2 * i - 1]] = s
<1>1. Len(s) \in Nat
  OBVIOUS
<1>2. \A i \in 1..(2 * Len(s)) : i % 2 = 1 => (i + 1) \div 2 \in 1..Len(s)
  BY <1>1
<1>3. \A i \in 1..(2 * Len(s)) :
         AsLines(s)[i] = IF i % 2 = 1 THEN s[(i + 1) \div 2] ELSE "nl"
  BY DEF AsLines
<1>4. \A i \in 1..(2 * Len(s)) :
         IF i % 2 = 1 THEN AsLines(s)[i] \in Names ELSE AsLines(s)[i] = "nl"
  BY <1>2, <1>3
<1>5. AsLines(s) \in [1..(2 * Len(s)) -> Names \cup {"nl"}]
  BY <1>4 DEF AsLines
<1>6. AsLines(s) \in Seq(Names \cup {"nl"}) /\ Len(AsLines(s)) = 2 * Len(s)
  BY <1>1, <1>5
<1>7. (2 * Len(s) + 1) \div 2 = Len(s)
  BY <1>1
<1>8. \A i \in 1..Len(s) : AsLines(s)[2 * i - 1] = s[i]
  <2>1. ASSUME NEW i \in 1..Len(s) PROVE AsLines(s)[2 * i - 1] = s[i]
    <3>1. 2 * i - 1 \in 1..(2 * Len(s)) /\ (2 * i - 1) % 2 = 1 /\ ((2 * i - 1) + 1) \div 2 = i
      BY <1>1
    <3> QED
      BY <1>3, <3>1
  <2> QED
    BY <2>1
<1>9. [i \in 1..Len(s) |-> AsLines(s)[2 * i - 1]] = s
  BY <1>1, <1>8
<1> QED
  BY <1>4, <1>6, <1>7, <1>9

\* The separator line of a block, if it has one.
SeparatorOf(separated) == IF separated THEN <<"separator", "nl">> ELSE <<>>

\* A managed block from its first token to its last.
LEMMA BlockIs ==
  ASSUME NEW names \in SUBSET Names, NEW separated \in BOOLEAN
  PROVE  LET m == ManagedBlock(names, separated)
         IN  /\ m \in Seq(Tokens)
             /\ Len(m) >= 4
             /\ m[1] = "begin" /\ m[2] = "nl"
             /\ m[Len(m) - 2] = "nl" /\ m[Len(m) - 1] = "end" /\ m[Len(m)] = "nl"
             /\ \A i \in 3..(Len(m) - 2) : m[i] \notin {"begin", "end"}
             /\ SubSeq(m, 3, Len(m) - 2)
                   = SeparatorOf(separated) \o AsLines(Sorted(names))
<1> DEFINE x == SeparatorOf(separated)
           y == AsLines(Sorted(names))
           m == ManagedBlock(names, separated)
           h == <<"begin", "nl">>
           e == <<"end", "nl">>
<1>1. Sorted(names) \in Seq(Names)
  BY SortedIs
<1>2. y \in Seq(Names \cup {"nl"})
  BY <1>1, AsLinesIs
<1>3. y \in Seq(Tokens) /\ \A i \in 1..Len(y) : y[i] \in Names \cup {"nl"}
  BY <1>2 DEF Tokens
<1>4. x \in Seq(Tokens) /\ \A i \in 1..Len(x) : x[i] \in {"separator", "nl"}
  <2>1. CASE separated
    <3>1. x = <<"separator", "nl">>
      BY <2>1 DEF SeparatorOf
    <3> HIDE DEF x
    <3> QED
      BY <3>1 DEF Tokens, Markers
  <2>2. CASE ~separated
    <3>1. x = <<>>
      BY <2>2 DEF SeparatorOf
    <3> HIDE DEF x
    <3> QED
      BY <3>1
  <2> QED
    BY <2>1, <2>2
<1>5. h \in Seq(Tokens) /\ e \in Seq(Tokens)
  BY DEF Tokens, Markers
<1>6. m = h \o x \o y \o e
  BY DEF ManagedBlock, SeparatorOf
<1> HIDE DEF x, y, m, h, e
<1>7. (h \o x) \o y = h \o (x \o y)
  BY <1>3, <1>4, <1>5, ConcatAssociative
<1>8. x \o y \in Seq(Tokens) /\ Len(x \o y) = Len(x) + Len(y)
      /\ \A i \in 1..(Len(x) + Len(y)) :
            (x \o y)[i] = IF i <= Len(x) THEN x[i] ELSE y[i - Len(x)]
  BY <1>3, <1>4, ConcatProperties
<1>9. \A i \in 1..Len(x \o y) : (x \o y)[i] \notin {"begin", "end"}
  <2>1. ASSUME NEW i \in 1..Len(x \o y) PROVE (x \o y)[i] \notin {"begin", "end"}
    <3>1. CASE i <= Len(x)
      <4>1. (x \o y)[i] \in {"separator", "nl"}
        BY <1>4, <1>8, <3>1
      <4> QED
        BY <4>1
    <3>2. CASE ~(i <= Len(x))
      <4>1. i - Len(x) \in 1..Len(y)
        BY <1>3, <1>4, <1>8, <3>2
      <4>2. (x \o y)[i] \in Names \cup {"nl"}
        BY <1>3, <1>8, <3>2, <4>1
      <4> QED
        BY <4>2, NamesAssumption DEF Markers
    <3> QED
      BY <3>1, <3>2
  <2> QED
    BY <2>1
<1>10. Len(x \o y) > 0 => (x \o y)[Len(x \o y)] = "nl"
  <2>1. Len(x) \in {0, 2} /\ (Len(x) = 2 => x[2] = "nl")
    BY DEF x, SeparatorOf
  <2>2. Len(Sorted(names)) \in Nat
    BY <1>1
  <2>3. Len(y) = 2 * Len(Sorted(names)) /\ (Len(y) > 0 => y[Len(y)] = "nl")
    <3>1. Len(y) = 2 * Len(Sorted(names))
          /\ \A i \in 1..(2 * Len(Sorted(names))) :
                IF i % 2 = 1 THEN y[i] \in Names ELSE y[i] = "nl"
      BY <1>1, AsLinesIs DEF y
    <3>2. (2 * Len(Sorted(names))) % 2 = 0
      BY <2>2
    <3> QED
      BY <2>2, <3>1, <3>2
  <2>4. CASE Len(y) = 0
    BY <1>8, <2>1, <2>4
  <2>5. CASE Len(y) > 0
    <3>1. Len(x) + Len(y) \in 1..(Len(x) + Len(y))
          /\ ~(Len(x) + Len(y) <= Len(x)) /\ (Len(x) + Len(y)) - Len(x) = Len(y)
      BY <2>1, <2>2, <2>3, <2>5
    <3> QED
      BY <1>8, <2>3, <2>5, <3>1
  <2> QED
    BY <2>2, <2>3, <2>4, <2>5
<1>11. m = h \o (x \o y) \o e
  BY <1>6, <1>7
<1> DEFINE z == x \o y
<1>12. Len(z) > 0 => z[Len(z)] = "nl"
  BY <1>10
<1>13. z \in Seq(Tokens) /\ \A i \in 1..Len(z) : z[i] \notin {"begin", "end"}
  BY <1>8, <1>9
<1>14. m = h \o z \o e
  BY <1>11
<1> HIDE DEF z
<1>15. /\ m \in Seq(Tokens)
       /\ Len(m) = Len(h) + Len(z) + Len(e)
       /\ \A i \in 1..Len(h) : m[i] = h[i]
       /\ \A i \in 1..Len(z) : m[Len(h) + i] = z[i]
       /\ \A i \in 1..Len(e) : m[Len(h) + Len(z) + i] = e[i]
  <2>1. Joined(m, h, z, e, Tokens)
    BY <1>5, <1>13, <1>14, ThreeParts
  <2> QED
    BY <2>1 DEF Joined
<1>16. Len(h) = 2 /\ Len(e) = 2 /\ h[1] = "begin" /\ h[2] = "nl" /\ e[1] = "end" /\ e[2] = "nl"
  BY DEF h, e
<1>17. Len(z) \in Nat
  BY <1>13
<1>18. Len(m) = Len(z) + 4 /\ m[1] = "begin" /\ m[2] = "nl"
       /\ m[Len(z) + 3] = "end" /\ m[Len(z) + 4] = "nl"
       /\ \A i \in 1..Len(z) : m[2 + i] = z[i]
  BY <1>15, <1>16, <1>17
<1>19. \A i \in 3..(Len(m) - 2) : m[i] = z[i - 2] /\ i - 2 \in 1..Len(z)
  BY <1>17, <1>18
<1>20. SubSeq(m, 3, Len(m) - 2) = z
  <2> DEFINE u == SubSeq(m, 3, Len(m) - 2)
  <2>1. \A i \in 3..(Len(m) - 2) : m[i] \in Tokens
    BY <1>15, <1>17, <1>18
  <2>2. u \in Seq(Tokens) /\ Len(u) = Len(z) /\ \A i \in 1..Len(z) : u[i] = m[i + 2]
    BY <1>17, <1>18, <2>1, SubSeqProperties
  <2>3. \A i \in 1..Len(z) : u[i] = z[i]
    BY <1>17, <1>18, <2>2
  <2> HIDE DEF u
  <2>4. u = z
    BY <1>13, <2>2, <2>3, SeqEqual
  <2> QED
    BY <2>4 DEF u
<1>21. m[Len(m) - 2] = "nl"
  <2>1. CASE Len(z) = 0
    BY <1>18, <2>1
  <2>2. CASE Len(z) > 0
    BY <1>12, <1>17, <1>18, <2>2
  <2> QED
    BY <1>17, <2>1, <2>2
<1>22. m[Len(m) - 1] = "end" /\ m[Len(m)] = "nl" /\ Len(m) >= 4
  BY <1>17, <1>18
<1> QED
  BY <1>13, <1>15, <1>18, <1>19, <1>20, <1>21, <1>22 DEF z, x, y, m

-----------------------------------------------------------------------------
(* Reading a block.                                                        *)

\* The separator line, and whether some text starts with it.
LEMMA StartsWithSeparator ==
  ASSUME NEW s \in Seq(Tokens)
  PROVE  IsPrefix(<<"separator", "nl">>, s) <=>
            Len(s) >= 2 /\ s[1] = "separator" /\ s[2] = "nl"
<1> DEFINE p == <<"separator", "nl">>
<1>1. p \in Seq(Tokens) /\ Len(p) = 2 /\ p[1] = "separator" /\ p[2] = "nl"
  BY DEF Tokens, Markers
<1> HIDE DEF p
<1>2. SubSeq(p, 1, Len(p)) = p
  BY <1>1, SubSeqFull
<1>3. CASE Len(s) >= 2
  <2> DEFINE u == SubSeq(s, 1, Len(p))
  <2>1. \A i \in 1..2 : s[i] \in Tokens
    BY <1>3
  <2>2. u \in Seq(Tokens) /\ Len(u) = 2 /\ \A i \in 1..2 : u[i] = s[i]
    BY <1>1, <1>3, <2>1, SubSeqProperties
  <2> HIDE DEF u
  <2>3. u[1] = s[1] /\ u[2] = s[2]
    BY <2>2
  <2>4. s[1] = "separator" /\ s[2] = "nl" => \A i \in 1..2 : p[i] = u[i]
    BY <1>1, <2>3
  <2>5. s[1] = "separator" /\ s[2] = "nl" => p = u
    BY <1>1, <2>2, <2>4, SeqEqual
  <2>6. p = u => s[1] = "separator" /\ s[2] = "nl"
    BY <1>1, <2>3
  <2> QED
    BY <1>1, <1>2, <1>3, <2>5, <2>6 DEF IsPrefix, u, p
<1>4. CASE ~(Len(s) >= 2)
  BY <1>1, <1>4 DEF IsPrefix, p
<1> QED
  BY <1>3, <1>4

\* A text behind another, or behind the separator line.
LEMMA Behind ==
  ASSUME NEW x \in Seq(Tokens), NEW y \in Seq(Tokens)
  PROVE  SubSeq(x \o y, Len(x) + 1, Len(x \o y)) = y
<1>1. x \o y \in Seq(Tokens) /\ Len(x \o y) = Len(x) + Len(y)
  BY ConcatProperties
<1>2. Len(x) \in Nat /\ Len(y) \in Nat
  OBVIOUS
<1>3. CASE y = <<>>
  BY <1>1, <1>2, <1>3, SubSeqEmpty
<1>4. CASE y # <<>>
  <2>1. Len(y) >= 1
    BY <1>2, <1>4
  <2>2. /\ Len(x) + 1 \in (Len(x) + 1)..(Len(x) + Len(y))
        /\ Len(x) + Len(y) \in (Len(x) + 1)..(Len(x) + Len(y))
    BY <1>2, <2>1
  <2>3. SubSeq(x \o y, Len(x) + 1, Len(x) + Len(y))
           = SubSeq(y, (Len(x) + 1) - Len(x), (Len(x) + Len(y)) - Len(x))
    BY <2>2, SubSeqOfConcat2
  <2>4. SubSeq(y, 1, Len(y)) = y
    BY SubSeqFull
  <2> QED
    BY <1>1, <1>2, <2>3, <2>4
<1> QED
  BY <1>3, <1>4

\* A block is read back as it was written.
LEMMA FramedIs ==
  ASSUME NEW b \in Seq(Tokens), Free(b), Ended(b),
         NEW a \in Seq(Tokens), Free(a),
         NEW names \in SUBSET Names, NEW separated \in BOOLEAN
  PROVE  Framed(b \o ManagedBlock(names, separated) \o a, b, a, names, separated)
<1> DEFINE m == ManagedBlock(names, separated)
           text == b \o m \o a
           x == SeparatorOf(separated)
           y == AsLines(Sorted(names))
<1>1. m \in Seq(Tokens) /\ Len(m) >= 4
  BY BlockIs
<1>2. /\ m[1] = "begin" /\ m[2] = "nl"
       /\ m[Len(m) - 2] = "nl" /\ m[Len(m) - 1] = "end" /\ m[Len(m)] = "nl"
  BY BlockIs
<1>3. \A i \in 3..(Len(m) - 2) : m[i] \notin {"begin", "end"}
  BY BlockIs
<1>4. SubSeq(m, 3, Len(m) - 2) = x \o y
  BY BlockIs
<1> HIDE DEF m
<1>5. /\ text \in Seq(Tokens)
      /\ Len(text) = Len(b) + Len(m) + Len(a)
      /\ \A i \in 1..Len(b) : text[i] = b[i]
      /\ \A i \in 1..Len(m) : text[Len(b) + i] = m[i]
      /\ \A i \in 1..Len(a) : text[Len(b) + Len(m) + i] = a[i]
      /\ SubSeq(text, 1, Len(b)) = b
      /\ SubSeq(text, Len(b) + Len(m) + 1, Len(text)) = a
      /\ \A j \in 0..(Len(m) - 2) : SubSeq(text, Len(b) + 3, Len(b) + j) = SubSeq(m, 3, j)
  <2>1. Joined(text, b, m, a, Tokens)
    BY <1>1, ThreeParts
  <2> HIDE DEF text
  <2> QED
    BY <2>1 DEF Joined
<1> HIDE DEF text
<1>6. Len(b) \in Nat /\ Len(m) \in Nat /\ Len(a) \in Nat
  BY <1>1
<1>7. DOMAIN text = 1..Len(text) /\ Len(text) = Len(b) + Len(m) + Len(a)
  BY <1>5
<1>8. \A i \in 1..Len(m) : text[Len(b) + i] = m[i]
  BY <1>5
<1>9. \A i \in 1..Len(b) : text[i] = b[i]
  BY <1>5
<1>10. \A i \in 1..Len(a) : text[Len(b) + Len(m) + i] = a[i]
  BY <1>5
<1>11. Len(b) > 0 => text[Len(b)] = "nl"
  <2>1. Len(b) > 0 => b # <<>>
    OBVIOUS
  <2> QED
    BY <1>6, <1>9, <2>1 DEF Ended
<1>12. /\ \A i \in 1..Len(b) : b[i] \notin {"begin", "end"}
       /\ \A i \in 1..Len(a) : a[i] \notin {"begin", "end"}
  BY DEF Free, At
<1>13. \A i \in 1..Len(text) :
         text[i] \in {"begin", "end"} => i - Len(b) \in 1..Len(m) /\ text[i] = m[i - Len(b)]
  <2>1. ASSUME NEW i \in 1..Len(text), text[i] \in {"begin", "end"}
        PROVE  i - Len(b) \in 1..Len(m) /\ text[i] = m[i - Len(b)]
    <3>1. CASE i <= Len(b)
      <4>1. i \in 1..Len(b)
        BY <1>6, <3>1
      <4> QED
        BY <1>9, <1>12, <2>1, <4>1
    <3>2. CASE i > Len(b) + Len(m)
      <4>1. i - (Len(b) + Len(m)) \in 1..Len(a)
            /\ Len(b) + Len(m) + (i - (Len(b) + Len(m))) = i
        BY <1>6, <1>7, <3>2
      <4>2. text[i] = a[i - (Len(b) + Len(m))]
        BY <1>10, <4>1
      <4> QED
        BY <1>12, <2>1, <4>1, <4>2
    <3>3. CASE i > Len(b) /\ i <= Len(b) + Len(m)
      <4>1. i - Len(b) \in 1..Len(m) /\ Len(b) + (i - Len(b)) = i
        BY <1>6, <3>3
      <4> QED
        BY <1>8, <4>1
    <3> QED
      BY <1>6, <1>7, <3>1, <3>2, <3>3
  <2> QED
    BY <2>1
<1>14. \A i \in 1..Len(m) :
         /\ m[i] = "begin" => i = 1
         /\ m[i] = "end" => i = Len(m) - 1
  <2>1. ASSUME NEW i \in 1..Len(m), m[i] \in {"begin", "end"}
        PROVE  i \in {1, Len(m) - 1}
    <3>1. i \notin 3..(Len(m) - 2)
      BY <1>3, <2>1
    <3>2. i # 2 /\ i # Len(m)
      BY <1>2, <2>1
    <3> QED
      BY <1>1, <1>6, <3>1, <3>2
  <2>2. m[1] # "end" /\ m[Len(m) - 1] # "begin"
    BY <1>2
  <2> QED
    BY <2>1, <2>2
<1>15. /\ text[Len(b) + 1] = "begin" /\ text[Len(b) + 2] = "nl"
       /\ text[Len(b) + (Len(m) - 2)] = "nl"
       /\ text[Len(b) + (Len(m) - 1)] = "end" /\ text[Len(b) + Len(m)] = "nl"
  <2>1. {1, 2, Len(m) - 2, Len(m) - 1, Len(m)} \subseteq 1..Len(m)
    BY <1>1, <1>6
  <2> QED
    BY <1>2, <1>8, <2>1
<1>16. At(text, "begin") = {Len(b) + 1} /\ At(text, "end") = {Len(b) + Len(m) - 1}
  <2>1. Len(b) + 1 \in 1..Len(text) /\ Len(b) + (Len(m) - 1) \in 1..Len(text)
    BY <1>1, <1>6, <1>7
  <2>2. \A i \in 1..Len(text) :
           /\ text[i] = "begin" => i = Len(b) + 1
           /\ text[i] = "end" => i = Len(b) + (Len(m) - 1)
    <3>1. ASSUME NEW i \in 1..Len(text), text[i] \in {"begin", "end"}
          PROVE  /\ text[i] = "begin" => i - Len(b) = 1
                 /\ text[i] = "end" => i - Len(b) = Len(m) - 1
      BY <1>13, <1>14, <3>1
    <3> QED
      BY <1>6, <1>7, <3>1
  <2>3. Len(b) + (Len(m) - 1) = Len(b) + Len(m) - 1
    BY <1>6
  <2> QED
    BY <1>7, <1>15, <2>1, <2>2, <2>3 DEF At
<1>17. HasBlock(text) /\ First(text) = Len(b) + 1 /\ Final(text) = Len(b) + Len(m) - 1
  BY <1>16 DEF HasBlock, First, Final
<1>18. Before(text) = b /\ After(text) = a
  <2>1. Len(b) + 1 - 1 = Len(b) /\ Len(b) + Len(m) - 1 + 2 = Len(b) + Len(m) + 1
    BY <1>6
  <2> QED
    BY <1>5, <1>17, <2>1 DEF Before, After
<1>19. Body(text) = x \o y
  <2>1. Len(b) + 1 + 2 = Len(b) + 3 /\ Len(b) + Len(m) - 1 - 1 = Len(b) + (Len(m) - 2)
        /\ Len(m) - 2 \in 0..(Len(m) - 2)
    BY <1>1, <1>6
  <2>2. Body(text) = SubSeq(text, Len(b) + 3, Len(b) + (Len(m) - 2))
    BY <1>17, <2>1 DEF Body
  <2>3. SubSeq(text, Len(b) + 3, Len(b) + (Len(m) - 2)) = SubSeq(m, 3, Len(m) - 2)
    BY <1>5, <2>1
  <2> QED
    BY <1>4, <2>2, <2>3
<1>20. Bounded(text)
  <2>3. ExactMarker(text, "begin")
    <3>1. /\ Len(b) + 1 > 1 => text[(Len(b) + 1) - 1] = "nl"
          /\ Len(b) + 1 < Len(text)
          /\ text[(Len(b) + 1) + 1] = "nl"
      <4>1. (Len(b) + 1) - 1 = Len(b) /\ (Len(b) + 1) + 1 = Len(b) + 2
            /\ Len(b) + 1 < Len(text)
        BY <1>1, <1>6, <1>7
      <4> QED
        BY <1>6, <1>11, <1>15, <4>1
    <3> QED
      BY <1>16, <3>1 DEF ExactMarker
  <2>4. ExactMarker(text, "end")
    <3> DEFINE i == Len(b) + Len(m) - 1
    <3>1. i - 1 = Len(b) + (Len(m) - 2) /\ i + 1 = Len(b) + Len(m) /\ i < Len(text)
      BY <1>1, <1>6, <1>7
    <3>2. text[i - 1] = "nl" /\ text[i + 1] = "nl"
      BY <1>15, <3>1
    <3> QED
      BY <1>16, <3>1, <3>2 DEF ExactMarker
  <2>5. Len(b) + 1 < Len(b) + Len(m) - 1
    BY <1>1, <1>6
  <2>6. \A k \in {"begin", "end"} : \A i, j \in At(text, k) : i = j
    BY <1>16
  <2>7. At(text, "begin") # {} /\ At(text, "end") # {}
        /\ \A i \in At(text, "begin"), j \in At(text, "end") : i < j
    BY <1>16, <2>5
  <2> QED
    BY <2>3, <2>4, <2>6, <2>7 DEF Bounded
<1>21. Sorted(names) \in Seq(Names) /\ IsInjective(Sorted(names))
  BY SortedIs
<1>22. /\ (Separated(text) <=> separated)
       /\ Entries(text) = y
  <2>1. /\ y \in Seq(Tokens) /\ Len(y) \in Nat
        /\ Len(y) > 0 => y[1] \in Names
    <3>1. y \in Seq(Names \cup {"nl"}) /\ Len(y) = 2 * Len(Sorted(names))
          /\ \A i \in 1..(2 * Len(Sorted(names))) :
                IF i % 2 = 1 THEN y[i] \in Names ELSE y[i] = "nl"
      BY <1>21, AsLinesIs
    <3> HIDE DEF y
    <3>2. Len(y) > 0 => 1 \in 1..(2 * Len(Sorted(names))) /\ 1 % 2 = 1
      BY <1>21, <3>1
    <3>3. y \in Seq(Tokens)
      BY <3>1 DEF Tokens
    <3> QED
      BY <3>1, <3>2, <3>3
  <2> HIDE DEF y
  <2>2. CASE separated
    <3>1. x = <<"separator", "nl">>
      BY <2>2 DEF SeparatorOf
    <3> HIDE DEF x
    <3>2. x \in Seq(Tokens) /\ Len(x) = 2 /\ x[1] = "separator" /\ x[2] = "nl"
      BY <3>1 DEF Tokens, Markers
    <3>3. x \o y \in Seq(Tokens) /\ Len(x \o y) = Len(x) + Len(y)
          /\ \A i \in 1..(Len(x) + Len(y)) :
                (x \o y)[i] = IF i <= Len(x) THEN x[i] ELSE y[i - Len(x)]
      BY <2>1, <3>2, ConcatProperties
    <3>4. Len(x \o y) >= 2 /\ (x \o y)[1] = "separator" /\ (x \o y)[2] = "nl"
      BY <2>1, <3>2, <3>3
    <3>5. Separated(text)
      <4>1. IsPrefix(<<"separator", "nl">>, x \o y)
        BY <3>3, <3>4, StartsWithSeparator
      <4> QED
        BY <1>19, <4>1 DEF Separated
    <3>6. SubSeq(x \o y, 3, Len(x \o y)) = y
      <4>1. SubSeq(x \o y, Len(x) + 1, Len(x \o y)) = y
        BY <2>1, <3>2, Behind
      <4> QED
        BY <3>2, <4>1
    <3> QED
      BY <1>19, <2>2, <3>5, <3>6 DEF Entries
  <2>3. CASE ~separated
    <3>1. x = <<>>
      BY <2>3 DEF SeparatorOf
    <3>2. x \o y = y
      BY <2>1, <3>1, ConcatEmptySeq
    <3>3. "separator" \notin Names
      BY NamesAssumption DEF Markers
    <3>4. ~Separated(text)
      <4>1. ~(Len(y) >= 2 /\ y[1] = "separator")
        BY <2>1, <3>3
      <4>2. ~IsPrefix(<<"separator", "nl">>, y)
        BY <2>1, <4>1, StartsWithSeparator
      <4> QED
        BY <1>19, <3>2, <4>2 DEF Separated
    <3> QED
      BY <1>19, <2>3, <3>2, <3>4 DEF Entries
  <2> QED
    BY <2>2, <2>3
<1>23. Parsed(text) = Sorted(names)
  BY <1>17, <1>21, <1>22, AsLinesIs DEF Parsed
<1>24. WellFormed(text)
  <2>1. DOMAIN y = 1..(2 * Len(Sorted(names)))
    BY <1>21, AsLinesIs
  <2> QED
    BY <1>20, <1>21, <1>22, <1>23, <2>1, AsLinesIs DEF WellFormed
<1> QED
  BY <1>5, <1>17, <1>18, <1>22, <1>23, <1>24 DEF text, m, Framed

-----------------------------------------------------------------------------
(* Taking a text apart.                                                    *)

\* Two texts without a marker, one after the other.
LEMMA FreeJoin ==
  ASSUME NEW b \in Seq(Tokens), NEW a \in Seq(Tokens), Free(b), Free(a)
  PROVE  b \o a \in Seq(Tokens) /\ Free(b \o a)
<1>1. /\ b \o a \in Seq(Tokens) /\ Len(b \o a) = Len(b) + Len(a)
      /\ \A i \in 1..(Len(b) + Len(a)) :
            (b \o a)[i] = IF i <= Len(b) THEN b[i] ELSE a[i - Len(b)]
  BY ConcatProperties
<1>2. /\ \A i \in 1..Len(b) : b[i] \notin {"begin", "end"}
      /\ \A i \in 1..Len(a) : a[i] \notin {"begin", "end"}
  BY DEF Free, At
<1>3. Len(b) \in Nat /\ Len(a) \in Nat
  OBVIOUS
<1>4. ASSUME NEW i \in 1..Len(b \o a) PROVE (b \o a)[i] \notin {"begin", "end"}
  <2>1. CASE i <= Len(b)
    <3>1. i \in 1..Len(b)
      BY <1>3, <2>1
    <3> QED
      BY <1>1, <1>2, <2>1, <3>1
  <2>2. CASE ~(i <= Len(b))
    <3>1. i - Len(b) \in 1..Len(a)
      BY <1>1, <1>3, <2>2
    <3> QED
      BY <1>1, <1>2, <2>2, <3>1
  <2> QED
    BY <2>1, <2>2
<1> QED
  BY <1>1, <1>4 DEF Free, At

\* A part of a text.
LEMMA PartIs ==
  ASSUME NEW s \in Seq(Tokens), NEW i \in 1..(Len(s) + 1), NEW j \in 0..Len(s)
  PROVE  /\ SubSeq(s, i, j) \in Seq(Tokens)
         /\ Len(SubSeq(s, i, j)) = IF i <= j THEN j - i + 1 ELSE 0
         /\ \A k \in 1..Len(SubSeq(s, i, j)) :
               i + k - 1 \in i..j /\ SubSeq(s, i, j)[k] = s[i + k - 1]
<1>1. Len(s) \in Nat
  OBVIOUS
<1>2. \A k \in i..j : s[k] \in Tokens
  BY <1>1
<1>3. /\ SubSeq(s, i, j) \in Seq(Tokens)
      /\ Len(SubSeq(s, i, j)) = IF i <= j THEN j - i + 1 ELSE 0
      /\ \A k \in 1..(j - i + 1) : SubSeq(s, i, j)[k] = s[i + k - 1]
  BY <1>1, <1>2, SubSeqProperties
<1> QED
  BY <1>1, <1>3

\* What is around a block.
LEMMA SplitIs ==
  ASSUME NEW text \in Seq(Tokens), Bounded(text), HasBlock(text)
  PROVE  /\ Before(text) \in Seq(Tokens) /\ Free(Before(text)) /\ Ended(Before(text))
         /\ After(text) \in Seq(Tokens) /\ Free(After(text))
         /\ Entries(text) \in Seq(Tokens)
<1> DEFINE f == First(text)
           e == Final(text)
<1>1. f \in At(text, "begin") /\ e \in At(text, "end")
  BY DEF HasBlock, Bounded, First, Final
<1> HIDE DEF f, e
<1>2. Len(text) \in Nat /\ DOMAIN text = 1..Len(text)
  OBVIOUS
<1>3. f \in 1..Len(text) /\ e \in 1..Len(text) /\ f < e /\ e < Len(text) /\ text[f] = "begin"
  BY <1>1, <1>2 DEF Bounded, ExactMarker, At
<1>4. f > 1 => text[f - 1] = "nl"
  BY <1>1 DEF Bounded, ExactMarker
<1>5. \A i \in 1..Len(text) : i # f /\ i # e => text[i] \notin {"begin", "end"}
  BY <1>1, <1>2 DEF Bounded, At
<1>6. f + 1 < e
  BY <1>1, <1>2, <1>3 DEF Bounded, ExactMarker, At
<1>7. Before(text) = SubSeq(text, 1, f - 1) /\ After(text) = SubSeq(text, e + 2, Len(text))
      /\ Body(text) = SubSeq(text, f + 2, e - 1)
  BY DEF Before, After, Body, f, e
<1>8. /\ Before(text) \in Seq(Tokens) /\ Len(Before(text)) = f - 1
      /\ \A k \in 1..Len(Before(text)) : Before(text)[k] = text[k]
  <2>1. 1 \in 1..(Len(text) + 1) /\ f - 1 \in 0..Len(text)
    BY <1>2, <1>3
  <2>2. /\ SubSeq(text, 1, f - 1) \in Seq(Tokens)
        /\ Len(SubSeq(text, 1, f - 1)) = IF 1 <= f - 1 THEN (f - 1) - 1 + 1 ELSE 0
        /\ \A k \in 1..Len(SubSeq(text, 1, f - 1)) :
              1 + k - 1 \in 1..(f - 1) /\ SubSeq(text, 1, f - 1)[k] = text[1 + k - 1]
    BY <2>1, PartIs
  <2>3. Len(Before(text)) = f - 1
    BY <1>3, <1>7, <2>2
  <2>4. \A k \in 1..(f - 1) : 1 + k - 1 = k
    BY <1>3
  <2> QED
    BY <1>7, <2>2, <2>3, <2>4
<1>9. Free(Before(text))
  <2>1. \A k \in 1..(f - 1) : k \in 1..Len(text) /\ k # f /\ k # e
    BY <1>2, <1>3
  <2> QED
    BY <1>5, <1>8, <2>1 DEF Free, At
<1>10. Ended(Before(text))
  <2>1. Before(text) # <<>> => Len(Before(text)) > 0
    BY <1>8
  <2> QED
    BY <1>3, <1>4, <1>8, <2>1 DEF Ended
<1>11. /\ After(text) \in Seq(Tokens)
       /\ \A k \in 1..Len(After(text)) :
             e + 2 + k - 1 \in (e + 2)..Len(text) /\ After(text)[k] = text[e + 2 + k - 1]
  <2>1. e + 2 \in 1..(Len(text) + 1) /\ Len(text) \in 0..Len(text)
    BY <1>2, <1>3
  <2> QED
    BY <1>7, <2>1, PartIs
<1>12. Free(After(text))
  <2>1. \A i \in (e + 2)..Len(text) : i \in 1..Len(text) /\ i # f /\ i # e
    BY <1>2, <1>3
  <2>2. \A i \in (e + 2)..Len(text) : text[i] \notin {"begin", "end"}
    BY <1>5, <2>1
  <2>3. \A k \in 1..Len(After(text)) : After(text)[k] \notin {"begin", "end"}
    BY <1>11, <2>2
  <2> QED
    BY <1>11, <2>3 DEF Free, At
<1>13. Body(text) \in Seq(Tokens)
  <2>1. f + 2 \in 1..(Len(text) + 1) /\ e - 1 \in 0..Len(text)
    BY <1>2, <1>3, <1>6
  <2> QED
    BY <1>7, <2>1, PartIs
<1>14. Entries(text) \in Seq(Tokens)
  <2>1. CASE ~Separated(text)
    BY <1>13, <2>1 DEF Entries
  <2>2. CASE Separated(text)
    <3>1. Len(Body(text)) >= 2
      BY <1>13, <2>2, StartsWithSeparator DEF Separated
    <3>2. 3 \in 1..(Len(Body(text)) + 1) /\ Len(Body(text)) \in 0..Len(Body(text))
      BY <1>13, <3>1
    <3>3. SubSeq(Body(text), 3, Len(Body(text))) \in Seq(Tokens)
      BY <1>13, <3>2, PartIs
    <3> QED
      BY <2>2, <3>3 DEF Entries
  <2> QED
    BY <2>1, <2>2
<1> QED
  BY <1>8, <1>9, <1>10, <1>11, <1>12, <1>14

\* A text without markers has no block, and no managed names.
LEMMA FreeIs ==
  ASSUME NEW text \in Seq(Tokens), Free(text)
  PROVE  WellFormed(text) /\ ~HasBlock(text) /\ Parsed(text) = <<>>
BY DEF Free, WellFormed, Bounded, HasBlock, Parsed, ExactMarker

\* And a text that has no block, and is not malformed, has no marker.
LEMMA BlocklessIs ==
  ASSUME NEW text \in Seq(Tokens), Bounded(text), ~HasBlock(text)
  PROVE  Free(text)
BY DEF Free, Bounded, HasBlock

\* What is managed is friendly names.
LEMMA ParsedNames ==
  ASSUME NEW text \in Seq(Tokens), WellFormed(text)
  PROVE  ToSet(Parsed(text)) \subseteq Names
<1>1. CASE ~HasBlock(text)
  BY <1>1 DEF Parsed, ToSet
<1>2. CASE HasBlock(text)
  <2> DEFINE s == Entries(text)
             n == (Len(s) + 1) \div 2
  <2>1. Len(s) \in Nat /\ DOMAIN s = 1..Len(s)
    BY <1>2, SplitIs DEF WellFormed
  <2>2. \A i \in DOMAIN s : i % 2 = 1 => s[i] \in Names
    BY <1>2 DEF WellFormed
  <2>3. Parsed(text) = [i \in 1..n |-> s[2 * i - 1]]
    BY <1>2 DEF Parsed
  <2> HIDE DEF s
  <2>4. \A i \in 1..n : 2 * i - 1 \in 1..Len(s) /\ (2 * i - 1) % 2 = 1
    BY <2>1
  <2>5. \A i \in 1..n : s[2 * i - 1] \in Names
    BY <2>1, <2>2, <2>4
  <2> QED
    BY <2>3, <2>5 DEF ToSet
<1> QED
  BY <1>1, <1>2

-----------------------------------------------------------------------------
(* Changing a text.                                                        *)

\* A text with the line feed that a block needs before it.
LEMMA LedIs ==
  ASSUME NEW text \in Seq(Tokens), Free(text)
  PROVE  LET b == text \o LineFeedBefore(text)
         IN  /\ b \in Seq(Tokens) /\ Free(b) /\ Ended(b)
             /\ b = IF OpenEnded(text) THEN text \o <<"nl">> ELSE text
             /\ OpenEnded(text) => Front(b) = text
<1> DEFINE b == text \o LineFeedBefore(text)
           l == <<"nl">>
<1>1. CASE OpenEnded(text)
  <2>1. LineFeedBefore(text) = l
    BY <1>1 DEF LineFeedBefore
  <2>2. l \in Seq(Tokens) /\ Len(l) = 1 /\ l[1] = "nl"
    BY DEF Tokens
  <2>3. Free(l)
    BY DEF Free, At
  <2> HIDE DEF l
  <2>4. b = text \o l
    BY <2>1
  <2> HIDE DEF b
  <2>5. b \in Seq(Tokens) /\ Free(b)
    BY <2>2, <2>3, <2>4, FreeJoin
  <2>6. Len(b) = Len(text) + 1 /\ b[Len(text) + 1] = "nl" /\ \A i \in 1..Len(text) : b[i] = text[i]
    <3>1. Len(text \o l) = Len(text) + Len(l)
          /\ \A i \in 1..(Len(text) + Len(l)) :
                (text \o l)[i] = IF i <= Len(text) THEN text[i] ELSE l[i - Len(text)]
      BY <2>2, ConcatProperties
    <3>2. Len(text) \in Nat
      OBVIOUS
    <3>3. Len(text) + 1 \in 1..(Len(text) + Len(l)) /\ (Len(text) + 1) - Len(text) = 1
          /\ ~(Len(text) + 1 <= Len(text))
          /\ \A i \in 1..Len(text) : i \in 1..(Len(text) + Len(l)) /\ i <= Len(text)
      BY <2>2, <3>2
    <3> QED
      BY <2>2, <2>4, <3>1, <3>2, <3>3
  <2>7. Ended(b)
    BY <2>6 DEF Ended
  <2>8. Front(b) = text
    <3>1. Len(text) \in Nat /\ Len(b) - 1 = Len(text)
      BY <2>6
    <3>2. 1 \in 1..(Len(b) + 1) /\ Len(text) \in 0..Len(b)
      BY <2>6, <3>1
    <3> DEFINE u == SubSeq(b, 1, Len(text))
    <3>3. /\ u \in Seq(Tokens)
          /\ Len(u) = IF 1 <= Len(text) THEN Len(text) - 1 + 1 ELSE 0
          /\ \A k \in 1..Len(u) : 1 + k - 1 \in 1..Len(text) /\ u[k] = b[1 + k - 1]
      BY <2>5, <3>2, PartIs
    <3> HIDE DEF u
    <3>4. Len(u) = Len(text)
      BY <3>1, <3>3
    <3>5. \A k \in 1..Len(text) : u[k] = text[k]
      <4>1. \A k \in 1..Len(text) : 1 + k - 1 = k
        BY <3>1
      <4> QED
        BY <2>6, <3>3, <3>4, <4>1
    <3>6. u = text
      BY <3>3, <3>4, <3>5, SeqEqual
    <3> QED
      BY <3>1, <3>6 DEF Front, u
  <2> QED
    BY <1>1, <2>4, <2>5, <2>7, <2>8 DEF b, l
<1>2. CASE ~OpenEnded(text)
  <2>1. b = text
    BY <1>2, ConcatEmptySeq DEF LineFeedBefore
  <2>2. Ended(text)
    BY <1>2 DEF OpenEnded, Ended, Last
  <2> HIDE DEF b
  <2> QED
    BY <1>2, <2>1, <2>2 DEF b
<1> QED
  BY <1>1, <1>2

\* What is left before a block that is taken away has no marker.
LEMMA WithoutInsertedIs ==
  ASSUME NEW text \in Seq(Tokens), HasBlock(text), Transformable(text, {})
  PROVE  WithoutInserted(text) \in Seq(Tokens) /\ Free(WithoutInserted(text))
<1> DEFINE b == Before(text)
<1>1. b \in Seq(Tokens) /\ Free(b)
  BY SplitIs DEF Transformable, WellFormed
<1>2. CASE ~Separated(text)
  BY <1>1, <1>2 DEF WithoutInserted
<1>3. CASE Separated(text)
  <2>1. b # <<>>
    BY <1>3 DEF Transformable
  <2> HIDE DEF b
  <2>2. Len(b) \in Nat /\ Len(b) >= 1
    BY <1>1, <2>1
  <2>3. 1 \in 1..(Len(b) + 1) /\ Len(b) - 1 \in 0..Len(b)
    BY <2>2
  <2> DEFINE u == SubSeq(b, 1, Len(b) - 1)
  <2>4. /\ u \in Seq(Tokens)
        /\ \A k \in 1..Len(u) : 1 + k - 1 \in 1..(Len(b) - 1) /\ u[k] = b[1 + k - 1]
    BY <1>1, <2>3, PartIs
  <2> HIDE DEF u
  <2>5. \A k \in 1..(Len(b) - 1) : b[k] \notin {"begin", "end"}
    BY <1>1, <2>2 DEF Free, At
  <2>6. \A k \in 1..Len(u) : u[k] \notin {"begin", "end"}
    <3>1. \A k \in 1..(Len(b) - 1) : 1 + k - 1 = k
      BY <2>2
    <3>2. \A k \in 1..Len(u) : 1 + k - 1 = k
      BY <2>4
    <3> QED
      BY <2>4, <2>5, <3>2
  <2>7. Free(u)
    BY <2>4, <2>6 DEF Free, At
  <2> QED
    BY <1>3, <2>4, <2>7 DEF WithoutInserted, Front, u, b
<1> QED
  BY <1>2, <1>3

\* Whether a block is separated is a yes or a no.
LEMMA SeparatedBoolean == ASSUME NEW text PROVE Separated(text) \in BOOLEAN
BY DEF Separated, IsPrefix

\* What is written can be read back, and is what it should be.
LEMMA TransformIs ==
  ASSUME NEW text \in Seq(Tokens), NEW names \in SUBSET Names,
         Transformable(text, names)
  PROVE  /\ Transform(text, names) \in Seq(Tokens)
         /\ WellFormed(Transform(text, names))
         /\ ToSet(Parsed(Transform(text, names))) = names
<1>1. WellFormed(text) /\ Bounded(text)
  BY DEF Transformable, WellFormed
<1>2. ToSet(Sorted(names)) = names
  BY SortedIs
<1>3. ToSet(<<>>) = {}
  BY DEF ToSet
<1>4. CASE ~HasBlock(text) /\ names = {}
  <2>1. Transform(text, names) = text
    BY <1>4 DEF Transform
  <2>2. Free(text)
    BY <1>1, <1>4, BlocklessIs
  <2> QED
    BY <1>3, <1>4, <2>1, <2>2, FreeIs
<1>5. CASE ~HasBlock(text) /\ names # {}
  <2> DEFINE b == text \o LineFeedBefore(text)
             m == ManagedBlock(names, OpenEnded(text))
  <2>1. Free(text)
    BY <1>1, <1>5, BlocklessIs
  <2>2. b \in Seq(Tokens) /\ Free(b) /\ Ended(b)
    BY <2>1, LedIs
  <2>3. OpenEnded(text) \in BOOLEAN
    BY DEF OpenEnded
  <2>4. <<>> \in Seq(Tokens) /\ Free(<<>>)
    BY DEF Free, At
  <2>5. m \in Seq(Tokens)
    BY <2>3, BlockIs
  <2> HIDE DEF b
  <2>6. Framed(b \o m \o <<>>, b, <<>>, names, OpenEnded(text))
    BY <2>2, <2>3, <2>4, FramedIs
  <2> HIDE DEF m
  <2>7. b \o m \o <<>> = b \o m
    <3>1. b \o m \in Seq(Tokens)
      BY <2>2, <2>5, ConcatProperties
    <3> QED
      BY <3>1, ConcatEmptySeq
  <2>8. Transform(text, names) = b \o m
    BY <1>5 DEF Transform, b, m
  <2> QED
    BY <1>2, <2>6, <2>7, <2>8 DEF Framed
<1>6. CASE HasBlock(text) /\ names = {}
  <2>1. WithoutInserted(text) \in Seq(Tokens) /\ Free(WithoutInserted(text))
    BY <1>6, WithoutInsertedIs
  <2>2. After(text) \in Seq(Tokens) /\ Free(After(text))
    BY <1>1, <1>6, SplitIs
  <2>3. Transform(text, names) = WithoutInserted(text) \o After(text)
    BY <1>6 DEF Transform
  <2>4. Transform(text, names) \in Seq(Tokens) /\ Free(Transform(text, names))
    BY <2>1, <2>2, <2>3, FreeJoin
  <2> QED
    BY <1>3, <1>6, <2>4, FreeIs
<1>7. CASE HasBlock(text) /\ names # {}
  <2>1. /\ Before(text) \in Seq(Tokens) /\ Free(Before(text)) /\ Ended(Before(text))
        /\ After(text) \in Seq(Tokens) /\ Free(After(text))
    BY <1>1, <1>7, SplitIs
  <2>2. Separated(text) \in BOOLEAN
    BY SeparatedBoolean
  <2>3. Transform(text, names)
           = Before(text) \o ManagedBlock(names, Separated(text)) \o After(text)
    BY <1>7 DEF Transform
  <2>4. Framed(Transform(text, names), Before(text), After(text), names, Separated(text))
    BY <2>1, <2>2, <2>3, FramedIs
  <2> QED
    BY <1>2, <2>4 DEF Framed
<1> QED
  BY <1>4, <1>5, <1>6, <1>7

\* The helper writes the same, whenever there is something to do.
LEMMA HelperIs ==
  ASSUME NEW text, NEW names, HasBlock(text) \/ names # {}
  PROVE  HelperTransform(text, names) = Transform(text, names)
BY DEF HelperTransform, Transform

\* Adding a block and taking it away gives back the text.
LEMMA RoundTripIs ==
  ASSUME NEW text \in Seq(Tokens), NEW names \in SUBSET Names,
         Bounded(text), ~HasBlock(text), names # {}
  PROVE  Transform(Transform(text, names), {}) = text
<1> DEFINE b == text \o LineFeedBefore(text)
           m == ManagedBlock(names, OpenEnded(text))
           out == b \o m
<1>1. Free(text)
  BY BlocklessIs
<1>2. /\ b \in Seq(Tokens) /\ Free(b) /\ Ended(b)
      /\ b = IF OpenEnded(text) THEN text \o <<"nl">> ELSE text
      /\ OpenEnded(text) => Front(b) = text
  BY <1>1, LedIs
<1>3. OpenEnded(text) \in BOOLEAN
  BY DEF OpenEnded
<1>4. <<>> \in Seq(Tokens) /\ Free(<<>>)
  BY DEF Free, At
<1>5. m \in Seq(Tokens)
  BY <1>3, BlockIs
<1> HIDE DEF b
<1>6. Framed(b \o m \o <<>>, b, <<>>, names, OpenEnded(text))
  BY <1>2, <1>3, <1>4, FramedIs
<1> HIDE DEF m
<1>7. b \o m \o <<>> = out
  <2>1. b \o m \in Seq(Tokens)
    BY <1>2, <1>5, ConcatProperties
  <2> QED
    BY <2>1, ConcatEmptySeq
<1>8. /\ HasBlock(out) /\ Before(out) = b /\ After(out) = <<>>
      /\ (Separated(out) <=> OpenEnded(text))
  BY <1>6, <1>7 DEF Framed
<1>9. Transform(text, names) = out
  BY DEF Transform, b, m
<1> HIDE DEF out
<1>10. Transform(out, {}) = WithoutInserted(out) \o <<>>
  BY <1>8 DEF Transform
<1>11. WithoutInserted(out) = text
  BY <1>2, <1>8 DEF WithoutInserted
<1> QED
  BY <1>9, <1>10, <1>11, ConcatEmptySeq

-----------------------------------------------------------------------------
(* The lines of a text.                                                    *)

\* A token makes a reader of a reader.
LEMMA TakeIs ==
  ASSUME NEW r \in Readers, NEW token \in Tokens
  PROVE  Complete(r) \in Readers /\ Take(r, token) \in Readers
<1>1. r.done \in Seq(Seq(Tokens)) /\ r.line \in Seq(Tokens)
  BY DEF Readers
<1>2. Append(r.done, r.line) \in Seq(Seq(Tokens))
  <2>1. ASSUME NEW S, NEW s \in Seq(S), NEW e \in S PROVE Append(s, e) \in Seq(S)
    BY AppendProperties
  <2> QED
    BY <1>1, <2>1
<1>3. Append(r.line, token) \in Seq(Tokens)
  BY <1>1, AppendProperties
<1>4. <<>> \in Seq(Tokens)
  OBVIOUS
<1> HIDE DEF Tokens
<1>5. Complete(r) \in Readers
  BY <1>1, <1>2, <1>4 DEF Complete, Readers
<1>6. [done |-> r.done, line |-> Append(r.line, token)] \in Readers
  BY <1>1, <1>3 DEF Readers
<1> QED
  BY <1>5, <1>6 DEF Take

\* A reader of a beginning of a text can read one token more.
LEMMA ReadsOn ==
  ASSUME NEW text \in Seq(Tokens), NEW k \in 0..(Len(text) - 1),
         NEW f, ReadsTo(f, text, k)
  PROVE  \E g : ReadsTo(g, text, k + 1)
<1> DEFINE g == [i \in 0..(k + 1) |-> IF i = k + 1 THEN Take(f[k], text[k + 1]) ELSE f[i]]
           h == [i \in 0..(k + 1) |-> IF i = 0 THEN Fresh ELSE Take(g[i - 1], text[i])]
<1>1. k \in Nat /\ k + 1 # 0 /\ (k + 1) - 1 = k /\ k \in 0..(k + 1) /\ k # k + 1
  OBVIOUS
<1>2. ASSUME NEW i \in 0..(k + 1) PROVE g[i] = h[i]
  <2>1. CASE i = k + 1
    BY <1>1, <2>1
  <2>2. CASE i # k + 1
    <3>1. i \in 0..k /\ (i # 0 => i - 1 \in 0..(k + 1) /\ i - 1 # k + 1)
      BY <1>1, <2>2
    <3>2. f[i] = IF i = 0 THEN Fresh ELSE Take(f[i - 1], text[i])
      BY <3>1 DEF ReadsTo
    <3> QED
      BY <2>2, <3>1, <3>2
  <2> QED
    BY <2>1, <2>2
<1>3. g = h
  BY <1>2
<1>4. ReadsTo(g, text, k + 1)
  BY <1>3 DEF ReadsTo
<1> HIDE DEF g
<1> QED
  BY <1>4

\* The reader that the definition of Reading chooses exists.
LEMMA ReadingIs ==
  ASSUME NEW text \in Seq(Tokens)
  PROVE  ReadsTo(Reading(text), text, Len(text))
<1> DEFINE T == {k \in 0..Len(text) : \E f : ReadsTo(f, text, k)}
<1>1. Len(text) \in Nat
  OBVIOUS
<1>2. 0 \in T
  <2> DEFINE z == [i \in 0..0 |-> Fresh]
  <2>1. ReadsTo(z, text, 0)
    BY DEF ReadsTo
  <2> HIDE DEF z
  <2> QED
    BY <1>1, <2>1
<1>3. \A k \in 0..(Len(text) - 1) : k \in T => k + 1 \in T
  BY <1>1, ReadsOn
<1> HIDE DEF T
<1>4. Len(text) \in T
  <2>1. \A k \in 0..Len(text) : k \in T
    BY <1>1, <1>2, <1>3, Upward
  <2> QED
    BY <1>1, <2>1
<1>5. PICK f : ReadsTo(f, text, Len(text))
  BY <1>4 DEF T
<1> QED
  BY <1>5 DEF ReadsTo, Reading, Fresh

\* What a reader makes of one token after another.
LEMMA ReadingStep ==
  ASSUME NEW text \in Seq(Tokens)
  PROVE  /\ Reading(text)[0] = Fresh
         /\ \A j \in 0..(Len(text) - 1) :
               Reading(text)[j + 1] = Take(Reading(text)[j], text[j + 1])
<1>1. Len(text) \in Nat
  OBVIOUS
<1>2. \A i \in 0..Len(text) :
         Reading(text)[i] = IF i = 0 THEN Fresh ELSE Take(Reading(text)[i - 1], text[i])
  BY ReadingIs DEF ReadsTo
<1>3. \A j \in 0..(Len(text) - 1) : j + 1 \in 0..Len(text) /\ j + 1 # 0 /\ (j + 1) - 1 = j
  BY <1>1
<1> QED
  BY <1>1, <1>2, <1>3

\* It is a reader after every token.
LEMMA ReadingType ==
  ASSUME NEW text \in Seq(Tokens)
  PROVE  \A i \in 0..Len(text) : Reading(text)[i] \in Readers
<1> DEFINE T == {i \in 0..Len(text) : Reading(text)[i] \in Readers}
<1>1. Len(text) \in Nat
  OBVIOUS
<1>2. 0 \in T
  <2>1. <<>> \in Seq(Tokens) /\ <<>> \in Seq(Seq(Tokens))
    OBVIOUS
  <2> QED
    <3>1. Fresh \in Readers
      BY <2>1 DEF Fresh, Readers
    <3> QED
      BY <1>1, <3>1, ReadingStep
<1>3. \A j \in 0..(Len(text) - 1) : j \in T => j + 1 \in T
  <2>1. ASSUME NEW j \in 0..(Len(text) - 1), j \in T PROVE j + 1 \in T
    <3>1. text[j + 1] \in Tokens /\ j + 1 \in 0..Len(text)
      BY <1>1
    <3> QED
      BY <2>1, <3>1, ReadingStep, TakeIs
  <2> QED
    BY <2>1
<1> HIDE DEF T
<1>4. \A j \in 0..Len(text) : j \in T
  BY <1>1, <1>2, <1>3, Upward
<1> QED
  BY <1>4 DEF T

\* What was read of a text before another is what is read of it alone.
LEMMA ReadingFirst ==
  ASSUME NEW x \in Seq(Tokens), NEW y \in Seq(Tokens)
  PROVE  \A i \in 0..Len(x) : Reading(x \o y)[i] = Reading(x)[i]
<1> DEFINE T == {i \in 0..Len(x) : Reading(x \o y)[i] = Reading(x)[i]}
<1>1. Len(x) \in Nat /\ Len(y) \in Nat
  OBVIOUS
<1>2. /\ x \o y \in Seq(Tokens) /\ Len(x \o y) = Len(x) + Len(y)
      /\ \A i \in 1..(Len(x) + Len(y)) :
            (x \o y)[i] = IF i <= Len(x) THEN x[i] ELSE y[i - Len(x)]
  BY ConcatProperties
<1>3. 0 \in T
  <2>1. Reading(x \o y)[0] = Fresh /\ Reading(x)[0] = Fresh
    BY <1>2, ReadingStep
  <2> QED
    BY <1>1, <2>1
<1>4. \A j \in 0..(Len(x) - 1) : j \in T => j + 1 \in T
  <2>1. ASSUME NEW j \in 0..(Len(x) - 1), j \in T PROVE j + 1 \in T
    <3>1. j \in 0..(Len(x \o y) - 1) /\ j + 1 \in 0..Len(x) /\ (x \o y)[j + 1] = x[j + 1]
      BY <1>1, <1>2
    <3> QED
      BY <1>2, <2>1, <3>1, ReadingStep
  <2> QED
    BY <2>1
<1> HIDE DEF T
<1>5. \A j \in 0..Len(x) : j \in T
  BY <1>1, <1>3, <1>4, Upward
<1> QED
  BY <1>5 DEF T

\* The lines it had read before make no difference to what it does.
LEMMA TakeBeyond ==
  ASSUME NEW lines \in Seq(Seq(Tokens)), NEW r \in Readers, NEW token
  PROVE  /\ Complete(Beyond(lines, r)) = Beyond(lines, Complete(r))
         /\ Take(Beyond(lines, r), token) = Beyond(lines, Take(r, token))
<1>1. r.done \in Seq(Seq(Tokens)) /\ r.line \in Seq(Tokens)
  BY DEF Readers
<1>2. lines \o Append(r.done, r.line) = Append(lines \o r.done, r.line)
  <2> DEFINE S == Seq(Tokens)
  <2> HIDE DEF S
  <2>1. ASSUME NEW s \in Seq(S), NEW t \in Seq(S), NEW e \in S
        PROVE  s \o Append(t, e) = Append(s \o t, e)
    <3>1. Append(t, e) = t \o <<e>> /\ <<e>> \in Seq(S)
      BY AppendIsConcat
    <3>2. Append(s \o t, e) = (s \o t) \o <<e>>
      <4>1. s \o t \in Seq(S)
        BY ConcatProperties
      <4> QED
        BY <4>1, AppendIsConcat
    <3> QED
      BY <3>1, <3>2, ConcatAssociative
  <2>2. lines \in Seq(S) /\ r.done \in Seq(S) /\ r.line \in S
    BY <1>1 DEF S
  <2> QED
    BY <2>1, <2>2
<1>3. Complete(Beyond(lines, r)) = Beyond(lines, Complete(r))
  BY <1>2 DEF Complete, Beyond
<1> QED
  BY <1>3 DEF Take, Beyond

\* What is read of a text behind another one, when a line begins there.
LEMMA ReadingSecond ==
  ASSUME NEW x \in Seq(Tokens), NEW y \in Seq(Tokens),
         Reading(x)[Len(x)].line = <<>>
  PROVE  \A i \in 0..Len(y) :
            Reading(x \o y)[Len(x) + i]
               = Beyond(Reading(x)[Len(x)].done, Reading(y)[i])
<1> DEFINE d == Reading(x)[Len(x)].done
           T == {i \in 0..Len(y) : Reading(x \o y)[Len(x) + i] = Beyond(d, Reading(y)[i])}
<1>1. Len(x) \in Nat /\ Len(y) \in Nat
  OBVIOUS
<1>2. /\ x \o y \in Seq(Tokens) /\ Len(x \o y) = Len(x) + Len(y)
      /\ \A i \in 1..(Len(x) + Len(y)) :
            (x \o y)[i] = IF i <= Len(x) THEN x[i] ELSE y[i - Len(x)]
  BY ConcatProperties
<1>3. Reading(x)[Len(x)] \in Readers
  BY <1>1, ReadingType
<1>4. d \in Seq(Seq(Tokens)) /\ Reading(x)[Len(x)] = [done |-> d, line |-> <<>>]
  BY <1>3 DEF Readers
<1>5. 0 \in T
  <2>1. Reading(x \o y)[Len(x) + 0] = Reading(x)[Len(x)]
    BY <1>1, ReadingFirst
  <2>2. Reading(y)[0] = Fresh
    BY ReadingStep
  <2>3. d \o <<>> = d
    <3> DEFINE S == Seq(Tokens)
    <3> HIDE DEF S, d
    <3>1. d \in Seq(S)
      BY <1>4 DEF S
    <3> QED
      BY <3>1, ConcatEmptySeq
  <2>4. Beyond(d, Fresh) = [done |-> d, line |-> <<>>]
    BY <2>3 DEF Beyond, Fresh
  <2> QED
    BY <1>1, <1>4, <2>1, <2>2, <2>4
<1> HIDE DEF d
<1>6. \A j \in 0..(Len(y) - 1) : j \in T => j + 1 \in T
  <2>1. ASSUME NEW j \in 0..(Len(y) - 1), j \in T PROVE j + 1 \in T
    <3>1. /\ Len(x) + j \in 0..(Len(x \o y) - 1) /\ (Len(x) + j) + 1 = Len(x) + (j + 1)
          /\ (x \o y)[Len(x) + (j + 1)] = y[j + 1] /\ j + 1 \in 0..Len(y) /\ j \in 0..Len(y)
      <4>1. Len(x) + (j + 1) \in 1..(Len(x) + Len(y)) /\ ~(Len(x) + (j + 1) <= Len(x))
            /\ (Len(x) + (j + 1)) - Len(x) = j + 1
        BY <1>1
      <4> QED
        BY <1>1, <1>2, <4>1
    <3>2. Reading(x \o y)[Len(x) + (j + 1)]
             = Take(Reading(x \o y)[Len(x) + j], y[j + 1])
      BY <1>2, <3>1, ReadingStep
    <3>3. Reading(y)[j + 1] = Take(Reading(y)[j], y[j + 1]) /\ Reading(y)[j] \in Readers
      BY <3>1, ReadingStep, ReadingType
    <3>4. Take(Beyond(d, Reading(y)[j]), y[j + 1]) = Beyond(d, Take(Reading(y)[j], y[j + 1]))
      BY <1>4, <3>3, TakeBeyond
    <3> QED
      BY <2>1, <3>1, <3>2, <3>3, <3>4
  <2> QED
    BY <2>1
<1> HIDE DEF T
<1>7. \A j \in 0..Len(y) : j \in T
  BY <1>1, <1>5, <1>6, Upward
<1> QED
  BY <1>7 DEF T, d

\* The lines of two texts, one after the other.
LEMMA LinesJoin ==
  ASSUME NEW x \in Seq(Tokens), NEW y \in Seq(Tokens), Ended(x)
  PROVE  Lines(x \o y) = Lines(x) \o Lines(y)
<1> DEFINE d == Reading(x)[Len(x)].done
<1>1. Len(x) \in Nat /\ Len(y) \in Nat /\ Len(x \o y) = Len(x) + Len(y)
  BY ConcatProperties
<1>2. Reading(x)[Len(x)] \in Readers /\ Reading(y)[Len(y)] \in Readers
  BY <1>1, ReadingType
<1>3. Reading(x)[Len(x)].line = <<>>
  <2>1. CASE Len(x) = 0
    <3>1. Reading(x)[0] = Fresh /\ Fresh.line = <<>>
      BY ReadingStep DEF Fresh
    <3> QED
      BY <2>1, <3>1
  <2>2. CASE Len(x) # 0
    <3>1. Len(x) - 1 \in 0..(Len(x) - 1) /\ (Len(x) - 1) + 1 = Len(x) /\ x[Len(x)] = "nl"
      BY <1>1, <2>2 DEF Ended
    <3>2. Reading(x)[Len(x)] = Take(Reading(x)[Len(x) - 1], "nl")
      BY <3>1, ReadingStep
    <3> QED
      BY <3>2 DEF Take, Complete
  <2> QED
    BY <2>1, <2>2
<1>4. d \in Seq(Seq(Tokens)) /\ Lines(x) = d
  BY <1>2, <1>3 DEF Readers, Lines, Complete
<1> HIDE DEF d
<1>5. Reading(x \o y)[Len(x \o y)] = Beyond(d, Reading(y)[Len(y)])
  BY <1>1, <1>3, ReadingSecond DEF d
<1>6. Complete(Beyond(d, Reading(y)[Len(y)])).done = d \o Complete(Reading(y)[Len(y)]).done
  <2>1. Complete(Beyond(d, Reading(y)[Len(y)])) = Beyond(d, Complete(Reading(y)[Len(y)]))
    BY <1>2, <1>4, TakeBeyond
  <2>2. ASSUME NEW e, NEW r PROVE Beyond(e, r).done = e \o r.done
    BY DEF Beyond
  <2> QED
    BY <2>1, <2>2
<1> QED
  BY <1>4, <1>5, <1>6 DEF Lines

\* A line feed at the end makes no line.
LEMMA LinesEnd ==
  ASSUME NEW x \in Seq(Tokens)
  PROVE  Lines(x \o <<"nl">>) = Lines(x)
<1> DEFINE l == <<"nl">>
<1>1. l \in Seq(Tokens) /\ Len(l) = 1 /\ l[1] = "nl"
  BY DEF Tokens
<1> HIDE DEF l
<1>2. /\ x \o l \in Seq(Tokens) /\ Len(x \o l) = Len(x) + 1 /\ (x \o l)[Len(x) + 1] = "nl"
      /\ Len(x) \in Nat
  <2>1. /\ x \o l \in Seq(Tokens) /\ Len(x \o l) = Len(x) + Len(l)
        /\ \A i \in 1..(Len(x) + Len(l)) :
              (x \o l)[i] = IF i <= Len(x) THEN x[i] ELSE l[i - Len(x)]
    BY <1>1, ConcatProperties
  <2>2. Len(x) + 1 \in 1..(Len(x) + 1) /\ ~(Len(x) + 1 <= Len(x)) /\ (Len(x) + 1) - Len(x) = 1
    OBVIOUS
  <2> QED
    BY <1>1, <2>1, <2>2
<1>3. Len(x) \in 0..(Len(x \o l) - 1) /\ Len(x) \in 0..Len(x)
  BY <1>2
<1>4. Reading(x \o l)[Len(x) + 1] = Take(Reading(x \o l)[Len(x)], "nl")
  BY <1>2, <1>3, ReadingStep
<1>5. Reading(x \o l)[Len(x)] = Reading(x)[Len(x)]
  BY <1>1, <1>3, ReadingFirst
<1>6. ASSUME NEW r PROVE Complete(Complete(r)).done = Complete(r).done
  BY DEF Complete
<1> QED
  BY <1>2, <1>4, <1>5, <1>6 DEF Lines, Take, l

\* No text has no lines.
LEMMA LinesNone == Lines(<<>>) = <<>>
<1>1. <<>> \in Seq(Tokens)
  OBVIOUS
<1>2. Reading(<<>>)[0] = Fresh /\ Len(<<>>) = 0
  BY <1>1, ReadingStep
<1>3. Complete(Fresh).done = <<>>
  BY DEF Complete, Fresh
<1> QED
  BY <1>2, <1>3 DEF Lines

\* Lines are a sequence of sequences of tokens, which nothing behind changes.
LEMMA LinesType ==
  ASSUME NEW x \in Seq(Tokens)
  PROVE  Lines(x) \in Seq(Seq(Tokens)) /\ Lines(x) \o <<>> = Lines(x)
<1>1. Len(x) \in 0..Len(x)
  OBVIOUS
<1>2. Reading(x)[Len(x)] \in Readers /\ "nl" \in Tokens
  BY <1>1, ReadingType DEF Tokens
<1>3. Complete(Reading(x)[Len(x)]) \in Readers
  BY <1>2, TakeIs
<1>4. Lines(x) \in Seq(Seq(Tokens))
  BY <1>3 DEF Lines, Readers
<1> DEFINE S == Seq(Tokens)
<1> HIDE DEF S
<1>5. ASSUME NEW s \in Seq(S) PROVE s \o <<>> = s
  BY ConcatEmptySeq
<1>6. Lines(x) \in Seq(S)
  BY <1>4 DEF S
<1> QED
  BY <1>4, <1>5, <1>6

\* A text that ends with a line feed, without it.
LEMMA FrontIs ==
  ASSUME NEW b \in Seq(Tokens), b # <<>>, Ended(b)
  PROVE  Front(b) \in Seq(Tokens) /\ b = Front(b) \o <<"nl">>
<1> DEFINE u == SubSeq(b, 1, Len(b) - 1)
           l == <<"nl">>
<1>1. Len(b) \in Nat /\ Len(b) >= 1
  OBVIOUS
<1>2. 1 \in 1..(Len(b) + 1) /\ Len(b) - 1 \in 0..Len(b)
  BY <1>1
<1>3. /\ u \in Seq(Tokens)
      /\ Len(u) = IF 1 <= Len(b) - 1 THEN (Len(b) - 1) - 1 + 1 ELSE 0
      /\ \A k \in 1..Len(u) : 1 + k - 1 \in 1..(Len(b) - 1) /\ u[k] = b[1 + k - 1]
  BY <1>2, PartIs
<1>4. l \in Seq(Tokens) /\ Len(l) = 1 /\ l[1] = "nl"
  BY DEF Tokens
<1> HIDE DEF u, l
<1>5. Len(u) = Len(b) - 1
  <2>1. Len(u) = IF 1 <= Len(b) - 1 THEN (Len(b) - 1) - 1 + 1 ELSE 0
    BY <1>3
  <2> DEFINE n == Len(b)
  <2> HIDE DEF n
  <2>2. n \in Nat /\ n >= 1 /\ Len(u) = IF 1 <= n - 1 THEN (n - 1) - 1 + 1 ELSE 0
    BY <1>1, <2>1 DEF n
  <2>3. Len(u) = n - 1
    BY <2>2
  <2> QED
    BY <2>3 DEF n
<1>6. \A k \in 1..Len(u) : u[k] = b[k]
  <2>1. \A k \in 1..Len(u) : 1 + k - 1 = k
    BY <1>3
  <2> QED
    BY <1>3, <2>1
<1>7. /\ u \o l \in Seq(Tokens) /\ Len(u \o l) = Len(u) + Len(l)
      /\ \A i \in 1..(Len(u) + Len(l)) :
            (u \o l)[i] = IF i <= Len(u) THEN u[i] ELSE l[i - Len(u)]
  BY <1>3, <1>4, ConcatProperties
<1>8. \A i \in 1..Len(b) : b[i] = (u \o l)[i]
  <2>1. ASSUME NEW i \in 1..Len(b) PROVE b[i] = (u \o l)[i]
    <3>1. CASE i <= Len(u)
      <4>1. i \in 1..Len(u) /\ i \in 1..(Len(u) + Len(l))
        BY <1>1, <1>4, <1>5, <3>1
      <4> QED
        BY <1>6, <1>7, <3>1, <4>1
    <3>2. CASE ~(i <= Len(u))
      <4>1. i = Len(b) /\ i - Len(u) = 1 /\ i \in 1..(Len(u) + Len(l))
        BY <1>1, <1>4, <1>5, <3>2
      <4>2. b[Len(b)] = "nl"
        BY DEF Ended
      <4> QED
        BY <1>4, <1>7, <3>2, <4>1, <4>2
    <3> QED
      BY <3>1, <3>2
  <2> QED
    BY <2>1
<1>9. b = u \o l
  BY <1>1, <1>4, <1>5, <1>7, <1>8, SeqEqual
<1> QED
  BY <1>3, <1>9 DEF Front, u, l

\* Unless it glues two lines, a replacement keeps every line that is not the
\* program's.
LEMMA UnrelatedIs ==
  ASSUME NEW text \in Seq(Tokens), NEW names \in SUBSET Names,
         Transformable(text, names), HasBlock(text) \/ names # {},
         ~(names = {} /\ Separated(text) /\ After(text) # <<>>)
  PROVE  Unrelated(Transform(text, names)) = Unrelated(text)
<1>1. WellFormed(text) /\ Bounded(text)
  BY DEF Transformable, WellFormed
<1>2. <<>> \in Seq(Tokens) /\ Free(<<>>)
  BY DEF Free, At
<1>3. CASE ~HasBlock(text) /\ names # {}
  <2> DEFINE b == text \o LineFeedBefore(text)
             m == ManagedBlock(names, OpenEnded(text))
  <2>1. Free(text)
    BY <1>1, <1>3, BlocklessIs
  <2>2. /\ b \in Seq(Tokens) /\ Free(b) /\ Ended(b)
        /\ b = IF OpenEnded(text) THEN text \o <<"nl">> ELSE text
    BY <2>1, LedIs
  <2>3. OpenEnded(text) \in BOOLEAN
    BY DEF OpenEnded
  <2>4. m \in Seq(Tokens)
    BY <2>3, BlockIs
  <2> HIDE DEF b
  <2>5. Framed(b \o m \o <<>>, b, <<>>, names, OpenEnded(text))
    BY <1>2, <2>2, <2>3, FramedIs
  <2> HIDE DEF m
  <2>6. b \o m \o <<>> = b \o m
    <3>1. b \o m \in Seq(Tokens)
      BY <2>2, <2>4, ConcatProperties
    <3> QED
      BY <3>1, ConcatEmptySeq
  <2>7. Transform(text, names) = b \o m
    BY <1>3 DEF Transform, b, m
  <2>8. Unrelated(Transform(text, names)) = Lines(b) \o Lines(<<>>)
    BY <2>5, <2>6, <2>7 DEF Unrelated, Framed
  <2>9. Lines(b) = Lines(text)
    BY <2>2, LinesEnd
  <2> QED
    BY <1>3, <2>8, <2>9, LinesNone, LinesType DEF Unrelated
<1>4. CASE HasBlock(text) /\ names # {}
  <2>1. /\ Before(text) \in Seq(Tokens) /\ Free(Before(text)) /\ Ended(Before(text))
        /\ After(text) \in Seq(Tokens) /\ Free(After(text))
    BY <1>1, <1>4, SplitIs
  <2>2. Separated(text) \in BOOLEAN
    BY SeparatedBoolean
  <2>3. Transform(text, names)
           = Before(text) \o ManagedBlock(names, Separated(text)) \o After(text)
    BY <1>4 DEF Transform
  <2>4. Framed(Transform(text, names), Before(text), After(text), names, Separated(text))
    BY <2>1, <2>2, <2>3, FramedIs
  <2> QED
    BY <1>4, <2>4 DEF Framed, Unrelated
<1>5. CASE HasBlock(text) /\ names = {}
  <2>1. /\ Before(text) \in Seq(Tokens) /\ Free(Before(text)) /\ Ended(Before(text))
        /\ After(text) \in Seq(Tokens) /\ Free(After(text))
    BY <1>1, <1>5, SplitIs
  <2>2. WithoutInserted(text) \in Seq(Tokens) /\ Free(WithoutInserted(text))
    BY <1>5, WithoutInsertedIs
  <2>3. Transform(text, names) = WithoutInserted(text) \o After(text)
    BY <1>5 DEF Transform
  <2>4. Transform(text, names) \in Seq(Tokens) /\ Free(Transform(text, names))
    BY <2>1, <2>2, <2>3, FreeJoin
  <2>5. Unrelated(Transform(text, names)) = Lines(WithoutInserted(text) \o After(text))
    BY <2>3, <2>4, FreeIs DEF Unrelated
  <2>6. Unrelated(text) = Lines(Before(text)) \o Lines(After(text))
    BY <1>5 DEF Unrelated
  <2>7. CASE ~Separated(text)
    <3>1. WithoutInserted(text) = Before(text)
      BY <2>7 DEF WithoutInserted
    <3> QED
      BY <2>1, <2>5, <2>6, <3>1, LinesJoin
  <2>8. CASE Separated(text)
    <3>1. After(text) = <<>> /\ Before(text) # <<>>
      BY <1>5, <2>8 DEF Transformable
    <3>2. WithoutInserted(text) = Front(Before(text))
      BY <2>8 DEF WithoutInserted
    <3>3. WithoutInserted(text) \o After(text) = WithoutInserted(text)
      BY <2>2, <3>1, ConcatEmptySeq
    <3>4. Before(text) = WithoutInserted(text) \o <<"nl">>
      BY <2>1, <3>1, <3>2, FrontIs
    <3>5. Lines(Before(text)) = Lines(WithoutInserted(text))
      BY <2>2, <3>4, LinesEnd
    <3>6. Lines(Before(text)) \o Lines(After(text)) = Lines(Before(text))
      BY <2>1, <3>1, LinesNone, LinesType
    <3> QED
      BY <2>5, <2>6, <3>3, <3>5, <3>6
  <2> QED
    BY <2>7, <2>8
<1> QED
  BY <1>3, <1>4, <1>5

-----------------------------------------------------------------------------
(* The steps.                                                              *)

\* It holds of a file that the program has never seen.
LEMMA InitHInv == Init => HInv
<1> SUFFICES ASSUME Init PROVE HInv
  OBVIOUS
<1>1. file \in Seq(Tokens)
  <2>1. ASSUME NEW x \in Foreign PROVE x \in Tokens /\ "nl" \in Tokens
    BY DEF Tokens
  <2>2. PICK x \in Foreign : file \in {<<>>, <<x>>, <<x, "nl">>}
    BY DEF Init
  <2>3. x \in Tokens /\ "nl" \in Tokens
    BY <2>1
  <2> HIDE DEF Tokens
  <2>4. <<>> \in Seq(Tokens) /\ <<x>> \in Seq(Tokens) /\ <<x, "nl">> \in Seq(Tokens)
    BY <2>3
  <2> QED
    BY <2>2, <2>4
<1> QED
  BY <1>1 DEF Init, HInv, ShapeInv, ConfirmedInv, Labels, Stages

\* What a preview shows can be applied, and changes something.
LEMMA PreviewStep ==
  ASSUME HInv, NEW p \in Commands, NEW names \in SUBSET Names, NEW add \in BOOLEAN,
         Preview(p, names, add)
  PROVE  HInv'
<1>1. Transformable(file, Wanted(names, add)) /\ Wanted(names, add) # ToSet(Parsed(file))
  BY DEF Preview
<1>2. ToSet(Parsed(file)) \subseteq Names
  BY <1>1, ParsedNames DEF Transformable, HInv, ShapeInv
<1>3. Wanted(names, add) \in SUBSET Names
  BY <1>2 DEF Wanted
<1>4. HasBlock(file) \/ Wanted(names, add) # {}
  <2>1. ASSUME ~HasBlock(file) PROVE ToSet(Parsed(file)) = {}
    <3>1. Parsed(file) = <<>>
      BY <2>1 DEF Parsed
    <3> QED
      BY <3>1 DEF ToSet
  <2> QED
    BY <1>1, <2>1
<1> QED
  BY <1>1, <1>3, <1>4
     DEF Preview, HInv, ShapeInv, ConfirmedInv, Labels, Stages, writerVars

\* What is replaced is what was confirmed.
LEMMA ReplaceMeans ==
  ASSUME HInv, NEW p \in Commands, Replace(p)
  PROVE  /\ writer[p] = "compared" /\ writer' = [writer EXCEPT ![p] = "done"]
         /\ file' = Transform(seen[p], after[p])
         /\ file' \in Seq(Tokens)
         /\ ToSet(Parsed(file')) = after[p]
         /\ ~raced[p] => file = seen[p]
         /\ seen[p] \in Seq(Tokens) /\ after[p] \in SUBSET Names
         /\ Transformable(seen[p], after[p])
         /\ HasBlock(seen[p]) \/ after[p] # {}
<1>1. writer[p] = "compared" /\ writer' = [writer EXCEPT ![p] = "done"]
  BY DEF Replace, Write
<1>2. /\ seen[p] \in Seq(Tokens) /\ after[p] \in SUBSET Names
      /\ Transformable(seen[p], after[p])
      /\ HasBlock(seen[p]) \/ after[p] # {}
      /\ ~raced[p] => file = seen[p]
  BY <1>1 DEF HInv, ShapeInv, ConfirmedInv
<1>3. HelperTransform(seen[p], after[p]) = Transform(seen[p], after[p])
  BY <1>2, HelperIs
<1>4. file' = Transform(seen[p], after[p])
  BY <1>3 DEF Replace, Put
<1> QED
  BY <1>1, <1>2, <1>4, TransformIs

\* A write of the file that leaves the commands and their writers alone, but
\* perhaps for the one that writes.
LEMMA PutStep ==
  ASSUME HInv, NEW text \in Seq(Tokens), NEW others \in SUBSET Commands,
         Put(text, others), UNCHANGED <<system, commandVars>>,
         writer' \in [Commands -> Stages],
         \A q \in Commands : q \in others => writer'[q] = writer[q],
         \A q \in Commands : q \notin others => writer'[q] = "done" /\ writer[q] # "off"
  PROVE  HInv'
<1>1. ShapeInv'
  BY DEF HInv, ShapeInv, Put, commandVars
<1>2. ASSUME NEW q \in Commands
      PROVE  /\ writer'[q] = "staged" /\ ~stale'[q] => FALSE
             /\ writer'[q] = "compared" /\ ~raced'[q] => FALSE
  BY <1>2 DEF HInv, ShapeInv, Put, Looking
<1>3. ConfirmedInv'
  BY <1>2 DEF HInv, ConfirmedInv, commandVars
<1> QED
  BY <1>1, <1>3 DEF HInv

\* A replacement is a write of a text.
LEMMA ReplaceStep ==
  ASSUME HInv, NEW p \in Commands, Replace(p)
  PROVE  HInv'
<1>1. /\ writer[p] = "compared" /\ writer' = [writer EXCEPT ![p] = "done"]
      /\ file' \in Seq(Tokens)
  BY ReplaceMeans
<1>2. Put(file', Commands \ {p}) /\ UNCHANGED <<system, commandVars>>
  BY DEF Replace, Put
<1>3. writer' \in [Commands -> Stages]
  BY <1>1 DEF HInv, ShapeInv, Stages
<1>4. /\ \A q \in Commands : q \in Commands \ {p} => writer'[q] = writer[q]
      /\ \A q \in Commands : q \notin Commands \ {p} => writer'[q] = "done" /\ writer[q] # "off"
  BY <1>1 DEF HInv, ShapeInv
<1> HIDE DEF Put
<1> QED
  BY <1>1, <1>2, <1>3, <1>4, PutStep

\* An editor that adds a line writes a text.
LEMMA EditInsertStep ==
  ASSUME HInv, NEW line \in Foreign, EditInsert(line)
  PROVE  HInv'
<1>1. PICK i \in LineStarts \cup {Len(file) + 1} :
         Put(SubSeq(file, 1, i - 1)
                \o (IF i \in LineStarts THEN <<>> ELSE <<"nl">>)
                \o <<line, "nl">> \o SubSeq(file, i, Len(file)), Commands)
  BY DEF EditInsert
<1> DEFINE a == SubSeq(file, 1, i - 1)
           b == IF i \in LineStarts THEN <<>> ELSE <<"nl">>
           c == <<line, "nl">>
           d == SubSeq(file, i, Len(file))
<1>2. file \in Seq(Tokens) /\ Len(file) \in Nat
  BY DEF HInv, ShapeInv
<1>3. i \in 1..(Len(file) + 1) /\ i - 1 \in 0..Len(file) /\ 1 \in 1..(Len(file) + 1)
      /\ Len(file) \in 0..Len(file)
  BY <1>2 DEF LineStarts
<1>4. a \in Seq(Tokens) /\ d \in Seq(Tokens)
  BY <1>2, <1>3, PartIs
<1>5. b \in Seq(Tokens) /\ c \in Seq(Tokens)
  <2>1. line \in Tokens /\ "nl" \in Tokens
    BY DEF Tokens
  <2> HIDE DEF Tokens
  <2>2. <<>> \in Seq(Tokens) /\ <<"nl">> \in Seq(Tokens) /\ <<line, "nl">> \in Seq(Tokens)
    BY <2>1
  <2>3. b = <<>> \/ b = <<"nl">>
    OBVIOUS
  <2> HIDE DEF b
  <2> QED
    BY <2>2, <2>3
<1> HIDE DEF a, b, c, d
<1>6. a \o b \in Seq(Tokens)
  BY <1>4, <1>5, ConcatProperties
<1>7. a \o b \o c \in Seq(Tokens)
  BY <1>5, <1>6, ConcatProperties
<1>8. a \o b \o c \o d \in Seq(Tokens)
  BY <1>4, <1>7, ConcatProperties
<1>9. Put(a \o b \o c \o d, Commands)
  BY <1>1 DEF a, b, c, d
<1>10. UNCHANGED <<system, commandVars>> /\ writer' = writer
  BY DEF EditInsert
<1>11. /\ writer' \in [Commands -> Stages]
       /\ \A q \in Commands : q \in Commands => writer'[q] = writer[q]
       /\ \A q \in Commands : q \notin Commands => writer'[q] = "done" /\ writer[q] # "off"
  BY <1>10 DEF HInv, ShapeInv
<1> QED
  BY <1>8, <1>9, <1>10, <1>11, PutStep

\* An editor that deletes a line writes a text.
LEMMA EditDeleteStep ==
  ASSUME HInv, EditDelete
  PROVE  HInv'
<1>1. PICK i \in LineStarts, j \in DOMAIN file :
         /\ j >= i
         /\ Put(SubSeq(file, 1, i - 1) \o SubSeq(file, j + 1, Len(file)), Commands)
  BY DEF EditDelete
<1> DEFINE a == SubSeq(file, 1, i - 1)
           d == SubSeq(file, j + 1, Len(file))
<1>2. file \in Seq(Tokens) /\ Len(file) \in Nat /\ DOMAIN file = 1..Len(file)
  BY DEF HInv, ShapeInv
<1>3. i - 1 \in 0..Len(file) /\ 1 \in 1..(Len(file) + 1)
      /\ j + 1 \in 1..(Len(file) + 1) /\ Len(file) \in 0..Len(file)
  BY <1>2 DEF LineStarts
<1>4. a \in Seq(Tokens) /\ d \in Seq(Tokens)
  BY <1>2, <1>3, PartIs
<1>5. Put(a \o d, Commands)
  BY <1>1
<1> HIDE DEF a, d
<1>6. a \o d \in Seq(Tokens)
  BY <1>4, ConcatProperties
<1>7. UNCHANGED <<system, commandVars>> /\ writer' = writer
  BY DEF EditDelete
<1>8. /\ writer' \in [Commands -> Stages]
      /\ \A q \in Commands : q \in Commands => writer'[q] = writer[q]
      /\ \A q \in Commands : q \notin Commands => writer'[q] = "done" /\ writer[q] # "off"
  BY <1>7 DEF HInv, ShapeInv
<1> QED
  BY <1>5, <1>6, <1>7, <1>8, PutStep

\* A command that is over, with no writer left, keeps nothing.
LEMMA OverStep ==
  ASSUME HInv, NEW p \in Commands, Exit(p), UNCHANGED <<file, system>>,
         writer' \in [Commands -> Stages], writer'[p] = "off",
         \A q \in Commands : q # p => writer'[q] = writer[q]
  PROVE  HInv'
<1>1. /\ pc' = [pc EXCEPT ![p] = "idle"]
      /\ seen' = [seen EXCEPT ![p] = <<>>]
      /\ after' = [after EXCEPT ![p] = {}]
      /\ stale' = [stale EXCEPT ![p] = FALSE]
      /\ raced' = [raced EXCEPT ![p] = FALSE]
  BY DEF Exit
<1>2. ShapeInv'
  <2>1. <<>> \in Seq(Tokens)
    OBVIOUS
  <2> HIDE DEF Tokens
  <2> QED
    BY <1>1, <2>1 DEF HInv, ShapeInv, Labels
<1>3. ASSUME NEW q \in Commands
      PROVE  \/ q = p /\ pc'[q] = "idle" /\ writer'[q] = "off"
             \/ /\ pc'[q] = pc[q] /\ writer'[q] = writer[q] /\ seen'[q] = seen[q]
                /\ after'[q] = after[q] /\ stale'[q] = stale[q] /\ raced'[q] = raced[q]
  <2>1. CASE q = p
    BY <1>1, <2>1 DEF HInv, ShapeInv
  <2>2. CASE q # p
    BY <1>1, <2>2 DEF HInv, ShapeInv
  <2> QED
    BY <2>1, <2>2
<1>4. ConfirmedInv'
  BY <1>3 DEF HInv, ConfirmedInv
<1> QED
  BY <1>2, <1>4 DEF HInv

\* The other steps of a command and its writer.
LEMMA CommandStep ==
  ASSUME HInv, NEW p \in Commands, Command(p)
  PROVE  HInv'
<1>1. CASE \E names \in SUBSET Names \ {{}}, add \in BOOLEAN : Preview(p, names, add)
  BY <1>1, PreviewStep
<1>2. CASE Replace(p)
  BY <1>2, ReplaceStep
<1>3. CASE VerifyHosts(p)
  <2>1. writer' \in [Commands -> Stages] /\ writer'[p] = "off"
        /\ \A q \in Commands : q # p => writer'[q] = writer[q]
    BY <1>3 DEF VerifyHosts, Write, HInv, ShapeInv, Stages
  <2> QED
    BY <1>3, <2>1, OverStep DEF VerifyHosts
<1>4. CASE GiveUp(p)
  <2>1. writer' \in [Commands -> Stages] /\ writer'[p] = "off"
        /\ \A q \in Commands : q # p => writer'[q] = writer[q]
    BY <1>4 DEF GiveUp, HInv, ShapeInv, ConfirmedInv
  <2> QED
    BY <1>4, <2>1, OverStep DEF GiveUp
<1>5. CASE Linger(p)
  <2>1. writer' \in [Commands -> Stages] /\ writer'[p] = "off"
        /\ \A q \in Commands : q # p => writer'[q] = writer[q]
    BY <1>5 DEF Linger, Write, HInv, ShapeInv, Stages
  <2> QED
    BY <1>5, <2>1, OverStep DEF Linger
<1>6. CASE Fail(p)
  <2>1. writer' \in [Commands -> Stages] /\ writer'[p] = "off"
        /\ \A q \in Commands : q # p => writer'[q] = writer[q]
    BY <1>6 DEF Fail, Write, HInv, ShapeInv, Stages
  <2> QED
    BY <1>6, <2>1, OverStep DEF Fail
<1> USE DEF HInv, ShapeInv, ConfirmedInv, Labels, Stages, Goto, Write, Exit,
            commandVars, writerVars
<1>7. CASE Invoke(p)
  BY <1>7 DEF Invoke
<1>8. CASE Abandon(p)
  BY <1>8 DEF Abandon
<1>9. CASE HelperSnapshot(p)
  BY <1>9 DEF HelperSnapshot
<1>10. CASE ApplySnapshot(p)
  BY <1>10 DEF ApplySnapshot
<1>11. CASE RequireUnchanged(p)
  BY <1>11 DEF RequireUnchanged
<1> HIDE DEF HInv, ShapeInv, ConfirmedInv, Labels, Stages, Goto, Write, Exit,
             commandVars, writerVars
<1> QED
  BY <1>1, <1>2, <1>3, <1>4, <1>5, <1>6, <1>7, <1>8, <1>9, <1>10, <1>11 DEF Command

\* The invariant holds in every reachable state: whatever a command or a
\* writer still has to do can be done to the text that was confirmed.
THEOREM Invariance == Spec => []HInv
<1>1. HInv /\ [Next]_vars => HInv'
  <2> SUFFICES ASSUME HInv, [Next]_vars PROVE HInv'
    OBVIOUS
  <2>1. CASE UNCHANGED vars
    BY <2>1 DEF vars, commandVars, writerVars, HInv, ShapeInv, ConfirmedInv
  <2> QED
    BY <2>1, CommandStep, EditInsertStep, EditDeleteStep DEF Next
<1> QED
  BY InitHInv, <1>1, PTL DEF Spec

\* Every variable has its type, and a writer runs only for a command, or has
\* outlived one (TypeOK).
THEOREM TypeCorrect == Spec => []TypeOK
<1>1. HInv => TypeOK
  <2> SUFFICES ASSUME HInv PROVE TypeOK
    OBVIOUS
  <2>1. ToSet(file) \subseteq Tokens
    BY DEF HInv, ShapeInv, ToSet
  <2> QED
    BY <2>1 DEF HInv, ShapeInv, ConfirmedInv, TypeOK, Tokens
<1> QED
  BY Invariance, <1>1, PTL

\* Adding any names to any file without a block, and removing them all again,
\* gives back every token of it: transform_hosts of hosts.py undoes itself
\* (RoundTrip).
THEOREM RoundTrips == Spec => []RoundTrip
<1>1. HInv => RoundTrip
  <2> SUFFICES ASSUME HInv, NEW p \in Commands, pc[p] = "apply", ~HasBlock(seen[p])
               PROVE  Transform(Transform(seen[p], after[p]), {}) = seen[p]
    BY DEF RoundTrip
  <2>1. /\ seen[p] \in Seq(Tokens) /\ after[p] \in SUBSET Names
        /\ Bounded(seen[p]) /\ after[p] # {}
    BY DEF HInv, ShapeInv, ConfirmedInv, Transformable, WellFormed
  <2> QED
    BY <2>1, RoundTripIs
<1> QED
  BY Invariance, <1>1, PTL

\* hosts.py and the root-owned helper write the same text whatever was
\* confirmed, and both can read it back as the names that were (HelperAgrees).
THEOREM HelpersAgree == Spec => []HelperAgrees
<1>1. HInv => HelperAgrees
  <2> SUFFICES ASSUME HInv, NEW p \in Commands, pc[p] = "apply"
               PROVE  LET text == Transform(seen[p], after[p])
                      IN  /\ HelperTransform(seen[p], after[p]) = text
                          /\ WellFormed(text)
                          /\ ToSet(Parsed(text)) = after[p]
    BY DEF HelperAgrees
  <2>1. /\ seen[p] \in Seq(Tokens) /\ after[p] \in SUBSET Names
        /\ Transformable(seen[p], after[p])
        /\ HasBlock(seen[p]) \/ after[p] # {}
    BY DEF HInv, ShapeInv, ConfirmedInv
  <2> QED
    BY <2>1, TransformIs, HelperIs
<1> QED
  BY Invariance, <1>1, PTL

\* Only Replace replaces.
LEMMA WhoReplaces ==
  ASSUME HInv, [Next]_vars, NEW p \in Commands, Replaces(p)
  PROVE  Replace(p)
<1>1. writer[p] = "compared" /\ writer'[p] = "done" /\ writer \in [Commands -> Stages]
  BY DEF Replaces, HInv, ShapeInv
<1>2. CASE UNCHANGED vars
  BY <1>1, <1>2 DEF vars, writerVars
<1>3. CASE EditDelete \/ \E line \in Foreign : EditInsert(line)
  BY <1>1, <1>3 DEF EditDelete, EditInsert
<1>4. ASSUME NEW q \in Commands, Command(q) PROVE Replace(p)
  <2>1. CASE \E names \in SUBSET Names \ {{}}, add \in BOOLEAN : Preview(q, names, add)
    BY <1>1, <2>1 DEF Preview, writerVars
  <2>2. CASE Invoke(q) \/ VerifyHosts(q) \/ GiveUp(q) \/ Abandon(q)
    BY <1>1, <2>2 DEF Invoke, VerifyHosts, GiveUp, Abandon, Write, Stages
  <2>3. CASE HelperSnapshot(q) \/ ApplySnapshot(q) \/ RequireUnchanged(q)
    BY <1>1, <2>3 DEF HelperSnapshot, ApplySnapshot, RequireUnchanged, Write, Stages
  <2>4. CASE Linger(q) \/ Fail(q)
    BY <1>1, <2>4 DEF Linger, Fail, Write, Stages
  <2>5. CASE Replace(q)
    BY <1>1, <2>5 DEF Replace, Write
  <2> QED
    BY <1>4, <2>1, <2>2, <2>3, <2>4, <2>5 DEF Command
<1> QED
  BY <1>2, <1>3, <1>4 DEF Next

\* A replacement, however late, by a helper whose command has long gone
\* perhaps, is of the text that was shown, by the names that were confirmed,
\* but for a write in the moment after the comparison
\* (AppliesWhatWasConfirmed).
THEOREM ConfirmedOnly == Spec => AppliesWhatWasConfirmed
<1>1. HInv /\ [Next]_vars =>
         [\A p \in Commands :
             Replaces(p) /\ ~raced[p] =>
                file = seen[p] /\ ToSet(Parsed(file')) = after[p]]_vars
  BY WhoReplaces, ReplaceMeans
<1> QED
  BY Invariance, <1>1, PTL DEF Spec, AppliesWhatWasConfirmed

\* Unless it was raced, or takes away a line feed that no longer ends the text
\* (Glues), a replacement keeps every line that is not the program's, in its
\* order (UnrelatedLinesKept).
THEOREM UnrelatedKept == Spec => UnrelatedLinesKept
<1>1. HInv /\ [Next]_vars =>
         [\A p \in Commands :
             Replaces(p) /\ ~raced[p] /\ ~Glues(p) =>
                Unrelated(file') = Unrelated(file)]_vars
  <2> SUFFICES ASSUME HInv, [Next]_vars, NEW p \in Commands,
                      Replaces(p), ~raced[p], ~Glues(p)
               PROVE  Unrelated(file') = Unrelated(file)
    OBVIOUS
  <2>1. Replace(p)
    BY WhoReplaces
  <2>2. /\ file' = Transform(seen[p], after[p]) /\ file = seen[p]
        /\ seen[p] \in Seq(Tokens) /\ after[p] \in SUBSET Names
        /\ Transformable(seen[p], after[p])
        /\ HasBlock(seen[p]) \/ after[p] # {}
    BY <2>1, ReplaceMeans
  <2> QED
    BY <2>2, UnrelatedIs DEF Glues
<1> QED
  BY Invariance, <1>1, PTL DEF Spec, UnrelatedLinesKept
=============================================================================
