---------------------------- MODULE IdentityProofs ----------------------------
(***************************************************************************)
(* Theorems about names, comments and sweeps (ResourceIdentity), and about *)
(* fingerprints (TemplateIdentity), for any projects, suffixes, times and  *)
(* inputs.                                                                 *)
(*                                                                         *)
(* Names: the digits at the end of a name hold no "_", so the last "_" of  *)
(* a name tells the suffix from the prefix, and the prefix ends with the   *)
(* kind and begins with the project; hence one name has one reading, and   *)
(* a name is recognised by the project that gave it and by no other.       *)
(* Comments: what Encode writes has every key once, so Fields gives back   *)
(* the record; what Parse accepts has the same keys, and each value is one *)
(* that Encode writes, perhaps spelled differently.  Sweeps: the invariant *)
(* IdentityInv keeps the parts of every comment within what harnesses and  *)
(* others may write, and that is all Candidate needs.  Fingerprints: the   *)
(* places where frames begin are determined by the lengths before them,    *)
(* and a lineage is read off a fingerprint from its end.                   *)
(***************************************************************************)
EXTENDS ResourceIdentity, TemplateIdentity,
        SequenceTheorems, FiniteSetTheorems, WellFoundedInduction, TLAPS

CONSTANT Byte   \* what the byte strings of TemplateIdentity are made of

(***************************************************************************)
(* Names.                                                                  *)
(***************************************************************************)

\* The words of a name are symbols.
LEMMA Words ==
    {"pgh", "_", "test", "template", "alt"} \subseteq Symbol
BY DEF Symbol

\* The concatenation of two sequences, element by element.
LEMMA Joined ==
    ASSUME NEW S, NEW s \in Seq(S), NEW t \in Seq(S), NEW r, r = s \o t
    PROVE  /\ r \in Seq(S) /\ Len(r) = Len(s) + Len(t)
           /\ \A i \in 1 .. Len(s) : r[i] = s[i]
           /\ \A i \in 1 .. Len(t) : r[Len(s) + i] = t[i]
BY ConcatProperties

LEMMA TwoLong ==
    ASSUME NEW S, NEW a \in S, NEW b \in S
    PROVE  /\ <<a, b>> \in Seq(S) /\ Len(<<a, b>>) = 2
           /\ <<a, b>>[1] = a /\ <<a, b>>[2] = b
OBVIOUS

LEMMA ThreeLong ==
    ASSUME NEW S, NEW a \in S, NEW b \in S, NEW c \in S
    PROVE  /\ <<a, b, c>> \in Seq(S) /\ Len(<<a, b, c>>) = 3
           /\ <<a, b, c>>[1] = a /\ <<a, b, c>>[2] = b /\ <<a, b, c>>[3] = c
OBVIOUS

\* The project of a name starts at its third symbol; "_", the kind and "_"
\* follow it.
LEMMA PrefixShape ==
    ASSUME NEW p \in Seq(Symbol), NEW kind \in Symbol
    PROVE  /\ NamePrefix(p, kind) \in Seq(Symbol)
           /\ Len(NamePrefix(p, kind)) = Len(p) + 5
           /\ \A i \in 1 .. Len(p) : NamePrefix(p, kind)[i + 2] = p[i]
           /\ NamePrefix(p, kind)[Len(p) + 4] = kind
           /\ NamePrefix(p, kind)[Len(p) + 5] = "_"
<1> DEFINE h == <<"pgh", "_">>
           t == <<"_", kind, "_">>
           hp == h \o p
<1>1. h \in Seq(Symbol)
  BY Words, TwoLong
<1>h. Len(h) = 2
  OBVIOUS
<1>2. t \in Seq(Symbol)
  BY Words, ThreeLong
<1>t. Len(t) = 3 /\ t[2] = kind /\ t[3] = "_"
  OBVIOUS
<1>3. NamePrefix(p, kind) = hp \o t
  BY DEF NamePrefix
<1> HIDE DEF h, t
<1>4. /\ Len(hp) = Len(h) + Len(p)
      /\ \A i \in 1 .. Len(p) : hp[Len(h) + i] = p[i]
  BY <1>1, Joined
<1>s. hp \in Seq(Symbol)
  BY <1>1, Joined
<1> HIDE DEF hp
<1>a. /\ Len(hp) = 2 + Len(p)
      /\ \A i \in 1 .. Len(p) : hp[2 + i] = p[i]
  BY <1>4, <1>h
<1> DEFINE n == hp \o t
<1>b. /\ n \in Seq(Symbol) /\ Len(n) = Len(hp) + Len(t)
      /\ \A i \in 1 .. Len(hp) : n[i] = hp[i]
      /\ \A i \in 1 .. Len(t) : n[Len(hp) + i] = t[i]
  BY <1>2, <1>s, Joined
<1> HIDE DEF n
<1>5. /\ n \in Seq(Symbol) /\ Len(n) = Len(hp) + 3
      /\ \A i \in 1 .. Len(hp) : n[i] = hp[i]
      /\ \A i \in 1 .. 3 : n[Len(hp) + i] = t[i]
  BY <1>b, <1>t
<1>l. Len(p) \in Nat
  OBVIOUS
<1>6. n[Len(p) + 4] = kind /\ n[Len(p) + 5] = "_"
  <2>1. n[Len(hp) + 2] = t[2] /\ n[Len(hp) + 3] = t[3]
    BY <1>5
  <2>2. Len(hp) + 2 = Len(p) + 4 /\ Len(hp) + 3 = Len(p) + 5
    BY <1>a, <1>l
  <2> QED
    BY <1>t, <2>1, <2>2
<1>7. ASSUME NEW i \in 1 .. Len(p) PROVE n[i + 2] = p[i]
  <2>1. i + 2 \in 1 .. Len(hp) /\ i + 2 = 2 + i
    BY <1>a, <1>l
  <2> QED
    BY <1>a, <1>5, <2>1
<1>8. n \in Seq(Symbol) /\ Len(n) = Len(p) + 5
  BY <1>a, <1>5, <1>l
<1>9. n = NamePrefix(p, kind)
  BY <1>3 DEF n
<1> QED
  BY <1>6, <1>7, <1>8, <1>9

\* The last of the places M is one only.
LEMMA LastMark ==
    ASSUME NEW M, NEW a \in Nat, NEW b \in Nat, NEW m \in Nat, NEW n \in Nat, a + m = b + n,
           a \in M, \A i \in 1 .. m : a + i \notin M,
           b \in M, \A i \in 1 .. n : b + i \notin M
    PROVE  a = b
<1>1. ASSUME a < b PROVE FALSE
  <2>1. b - a \in 1 .. m /\ a + (b - a) = b
    BY <1>1
  <2> QED
    BY <2>1
<1>2. ASSUME b < a PROVE FALSE
  <2>1. a - b \in 1 .. n /\ b + (a - b) = a
    BY <1>2
  <2> QED
    BY <2>1
<1> QED
  BY <1>1, <1>2

\* The same, where five symbols lead to the last of the places.
LEMMA Aligned ==
    ASSUME NEW M, NEW a \in Nat, NEW b \in Nat, NEW m \in Nat, NEW n \in Nat,
           a + 5 + m = b + 5 + n,
           a + 5 \in M, \A i \in 1 .. m : a + 5 + i \notin M,
           b + 5 \in M, \A i \in 1 .. n : b + 5 + i \notin M
    PROVE  a = b /\ m = n
<1> DEFINE c == a + 5
           d == b + 5
<1>1. c \in Nat /\ d \in Nat /\ c + m = d + n
  OBVIOUS
<1>2. /\ c \in M /\ \A i \in 1 .. m : c + i \notin M
      /\ d \in M /\ \A i \in 1 .. n : d + i \notin M
  OBVIOUS
<1>3. c = d
  <2> HIDE DEF c, d
  <2> QED
    BY <1>1, <1>2, LastMark, Zenon
<1> QED
  BY <1>3

\* The text x is the name of a database of project p.
Spells(x, p, kind, s) == x = NamePrefix(p, kind) \o s

\* No symbol of s is "_".
Unmarked(s) == \A i \in 1 .. Len(s) : s[i] # "_"

\* A name, symbol by symbol.
NameParts(x, p, kind, s) ==
    /\ x \in Seq(Symbol) /\ Len(x) = Len(p) + 5 + Len(s)
    /\ \A i \in 1 .. Len(p) : x[i + 2] = p[i]
    /\ x[Len(p) + 4] = kind /\ x[Len(p) + 5] = "_"
    /\ \A i \in 1 .. Len(s) : x[Len(p) + 5 + i] = s[i]

LEMMA NameShape ==
    ASSUME NEW p \in Seq(Symbol), NEW kind \in Symbol, NEW s \in Seq(Symbol), NEW x,
           Spells(x, p, kind, s)
    PROVE  NameParts(x, p, kind, s)
<1> DEFINE P == NamePrefix(p, kind)
<1>1. /\ Len(P) = Len(p) + 5 /\ P[Len(p) + 4] = kind /\ P[Len(p) + 5] = "_"
      /\ \A i \in 1 .. Len(p) : P[i + 2] = p[i]
  BY PrefixShape
<1>p. P \in Seq(Symbol)
  BY PrefixShape
<1>2. x = P \o s
  BY DEF Spells
<1> HIDE DEF P
<1>3. /\ x \in Seq(Symbol) /\ Len(x) = Len(P) + Len(s)
      /\ \A i \in 1 .. Len(P) : x[i] = P[i]
      /\ \A i \in 1 .. Len(s) : x[Len(P) + i] = s[i]
  BY <1>p, <1>2, Joined
<1> DEFINE n == Len(p)
<1>4. n \in Nat /\ n = Len(p)
  BY LenProperties
<1> HIDE DEF n
<1>5. /\ n + 4 \in 1 .. n + 5 /\ n + 5 \in 1 .. n + 5
      /\ \A i \in 1 .. n : i + 2 \in 1 .. n + 5
  BY <1>4
<1> QED
  BY <1>1, <1>3, <1>4, <1>5, Zenon DEF NameParts

\* The digits at the end of a name fix the place of the last "_" before them,
\* and with it the project, the kind and the suffix: no two projects share a name.
LEMMA NameUnique ==
    ASSUME NEW p \in Seq(Symbol), NEW q \in Seq(Symbol), NEW j \in Symbol, NEW k \in Symbol,
           NEW s \in Seq(Symbol), NEW t \in Seq(Symbol), NEW x,
           Unmarked(s), Unmarked(t),
           Spells(x, p, j, s), Spells(x, q, k, t)
    PROVE  p = q /\ j = k /\ s = t
<1> DEFINE a == Len(p)
           b == Len(q)
           m == Len(s)
           n == Len(t)
           M == {i \in Nat : x[i] = "_"}
<1>1. a \in Nat /\ b \in Nat /\ m \in Nat /\ n \in Nat
  BY LenProperties, Zenon
<1>n. NameParts(x, p, j, s) /\ NameParts(x, q, k, t)
  BY NameShape, Zenon
<1>2. /\ Len(x) = a + 5 + m
      /\ \A i \in 1 .. a : x[i + 2] = p[i]
      /\ x[a + 4] = j /\ x[a + 5] = "_"
      /\ \A i \in 1 .. m : x[a + 5 + i] = s[i]
  BY <1>n, Zenon DEF NameParts
<1>3. /\ Len(x) = b + 5 + n
      /\ \A i \in 1 .. b : x[i + 2] = q[i]
      /\ x[b + 4] = k /\ x[b + 5] = "_"
      /\ \A i \in 1 .. n : x[b + 5 + i] = t[i]
  BY <1>n, Zenon DEF NameParts
<1>4. /\ \A i \in 1 .. m : x[a + 5 + i] # "_"
      /\ \A i \in 1 .. n : x[b + 5 + i] # "_"
  BY <1>2, <1>3, Zenon DEF Unmarked
<1>s. /\ (Len(p) = Len(q) /\ \A i \in 1 .. Len(p) : p[i] = q[i]) => p = q
      /\ (Len(s) = Len(t) /\ \A i \in 1 .. Len(s) : s[i] = t[i]) => s = t
  BY SeqEqual, Zenon
<1>h. /\ (a = b /\ \A i \in 1 .. a : p[i] = q[i]) => p = q
      /\ (m = n /\ \A i \in 1 .. m : s[i] = t[i]) => s = t
  BY <1>s, Zenon
<1> HIDE DEF a, b, m, n
<1>5. a + 5 + m = b + 5 + n
  BY <1>2, <1>3, Zenon
<1>m. /\ a + 5 \in M /\ b + 5 \in M
      /\ \A i \in 1 .. m : a + 5 + i \notin M
      /\ \A i \in 1 .. n : b + 5 + i \notin M
  <2>1. a + 5 \in Nat /\ b + 5 \in Nat
    BY <1>1
  <2> QED
    BY <1>2, <1>3, <1>4, <2>1, Zenon
<1> HIDE DEF M
<1>6. a = b /\ m = n
  BY <1>1, <1>5, <1>m, Aligned, Zenon
<1>7. j = k
  BY <1>2, <1>3, <1>6, Zenon
<1>8. p = q
  BY <1>2, <1>3, <1>6, <1>h, Zenon
<1>9. s = t
  BY <1>2, <1>3, <1>6, <1>h, Zenon
<1> QED
  BY <1>7, <1>8, <1>9, Zenon

\* A text with a given beginning is that beginning and a rest, and the reverse.
LEMMA PrefixCut ==
    ASSUME NEW S, NEW s \in Seq(S), NEW t \in Seq(S), IsPrefix(s, t)
    PROVE  /\ SubSeq(t, Len(s) + 1, Len(t)) \in Seq(S)
           /\ t = s \o SubSeq(t, Len(s) + 1, Len(t))
<1>1. Len(s) \in Nat /\ Len(t) \in Nat /\ Len(s) <= Len(t)
  BY LenProperties DEF IsPrefix
<1>2. SubSeq(s, 1, Len(s)) = SubSeq(t, 1, Len(s))
  BY DEF IsPrefix
<1>3. SubSeq(s, 1, Len(s)) = s /\ SubSeq(t, 1, Len(t)) = t
  BY SubSeqFull
<1>4. SubSeq(t, 1, Len(s)) \o SubSeq(t, Len(s) + 1, Len(t)) = SubSeq(t, 1, Len(t))
  <2>1. 1 \in 1 .. Len(t) + 1 /\ Len(s) \in 1 - 1 .. Len(t) /\ Len(t) \in Len(s) .. Len(t)
    BY <1>1
  <2> QED
    BY <2>1, ConcatAdjacentSubSeq, Zenon
<1>5. \A i \in Len(s) + 1 .. Len(t) : t[i] \in S
  BY <1>1, ElementOfSeq
<1>6. SubSeq(t, Len(s) + 1, Len(t)) \in Seq(S)
  BY <1>1, <1>5, SubSeqProperties
<1> QED
  BY <1>2, <1>3, <1>4, <1>6, Zenon

LEMMA PrefixOf ==
    ASSUME NEW S, NEW s \in Seq(S), NEW u \in Seq(S), NEW t, t = s \o u
    PROVE  IsPrefix(s, t) /\ SubSeq(t, Len(s) + 1, Len(t)) = u
<1>1. /\ t \in Seq(S) /\ Len(t) = Len(s) + Len(u)
      /\ \A i \in 1 .. Len(s) : t[i] = s[i]
      /\ \A i \in 1 .. Len(u) : t[Len(s) + i] = u[i]
  BY Joined
<1>2. Len(s) \in Nat /\ Len(u) \in Nat
  BY LenProperties
<1> DEFINE h == SubSeq(t, 1, Len(s))
           r == SubSeq(t, Len(s) + 1, Len(t))
           n == Len(s)
           m == Len(u)
<1>e. /\ \A i \in 1 .. n : t[i] \in S
      /\ \A i \in n + 1 .. n + m : t[i] \in S
  <2>1. \A i \in 1 .. Len(t) : t[i] \in S
    BY <1>1, ElementOfSeq
  <2> QED
    BY <1>1, <1>2, <2>1
<1>3. /\ h \in Seq(S) /\ Len(h) = n
      /\ \A i \in 1 .. n : h[i] = t[i]
  <2>1. /\ h \in Seq(S) /\ Len(h) = IF 1 <= n THEN n - 1 + 1 ELSE 0
        /\ \A i \in 1 .. n - 1 + 1 : h[i] = t[1 + i - 1]
    BY <1>2, <1>e, SubSeqProperties
  <2> QED
    BY <1>2, <2>1
<1>4. /\ r \in Seq(S) /\ Len(r) = m
      /\ \A i \in 1 .. m : r[i] = t[n + i]
  <2>1. n + 1 \in Int /\ n + m \in Int /\ Len(t) = n + m
    BY <1>1, <1>2
  <2>2. /\ r \in Seq(S) /\ Len(r) = IF n + 1 <= n + m THEN n + m - (n + 1) + 1 ELSE 0
        /\ \A i \in 1 .. n + m - (n + 1) + 1 : r[i] = t[n + 1 + i - 1]
    BY <1>e, <2>1, SubSeqProperties
  <2> QED
    BY <1>2, <2>2
<1> HIDE DEF h, r
<1>5. h = s
  BY <1>1, <1>3, SeqEqual
<1>6. r = u
  BY <1>1, <1>4, SeqEqual
<1>7. SubSeq(s, 1, Len(s)) = s
  BY SubSeqFull
<1>8. Len(s) <= Len(t)
  BY <1>1, <1>2
<1> QED
  BY <1>5, <1>6, <1>7, <1>8 DEF IsPrefix, h, r

\* What the proofs use of the assumptions on the constants, and nothing else.
NamesAssumed ==
    /\ Digits \subseteq Symbol /\ "_" \notin Digits
    /\ TestSuffix \subseteq [1 .. TestLen -> Digits]
    /\ ShortHex \in [Fingerprint -> [1 .. TemplateLen -> Digits]]
    /\ Project \subseteq Seq(Symbol) /\ ForeignNames \subseteq Seq(Symbol)
    /\ TestLen \in Nat /\ TemplateLen \in Nat

\* A suffix of hexadecimal digits is text without "_".
LEMMA SuffixText ==
    ASSUME NamesAssumed, NEW n \in Nat, NEW s \in [1 .. n -> Digits]
    PROVE  s \in Seq(Symbol) /\ Unmarked(s) /\ ValidHexSuffix(s, n)
<1>1. s \in Seq(Digits)
  OBVIOUS
<1>2. s \in [1 .. n -> Symbol]
  BY DEF NamesAssumed
<1>3. s \in Seq(Symbol)
  BY <1>2
<1>4. Len(s) = n
  OBVIOUS
<1>5. Unmarked(s)
  BY <1>4, Zenon DEF Unmarked, NamesAssumed
<1>6. ValidHexSuffix(s, n)
  BY <1>4, Zenon DEF ValidHexSuffix, Range
<1> QED
  BY <1>3, <1>5, <1>6

\* The reverse.
LEMMA ValidSuffix ==
    ASSUME NEW n \in Nat, NEW s \in Seq(Symbol), ValidHexSuffix(s, n)
    PROVE  s \in [1 .. n -> Digits]
<1>1. Len(s) = n
  BY DEF ValidHexSuffix
<1>2. s \in [1 .. Len(s) -> Symbol] /\ DOMAIN s = 1 .. Len(s)
  BY LenProperties
<1>3. \A i \in 1 .. Len(s) : s[i] \in Digits
  BY <1>2, Zenon DEF ValidHexSuffix, Range
<1> QED
  BY <1>1, <1>2, <1>3

\* A text a project recognises is a name the project could have given, of
\* that kind (FromExisting).
LEMMA Recognised ==
    ASSUME NamesAssumed, NEW p \in Seq(Symbol), NEW text \in Seq(Symbol), FromExisting(p, text) # None
    PROVE  \/ /\ FromExisting(p, text) = [text |-> text, kind |-> "test"]
              /\ \E s \in [1 .. TestLen -> Digits] : Spells(text, p, "test", s)
           \/ /\ FromExisting(p, text) = [text |-> text, kind |-> "template"]
              /\ \E s \in [1 .. TemplateLen -> Digits] : Spells(text, p, "template", s)
<1> DEFINE After(kind) == SubSeq(text, Len(NamePrefix(p, kind)) + 1, Len(text))
           Prefixed(kind) == IsPrefix(NamePrefix(p, kind), text)
<1>1. FromExisting(p, text) =
        IF Prefixed("test")
        THEN IF ValidHexSuffix(After("test"), TestLen)
             THEN [text |-> text, kind |-> "test"] ELSE None
        ELSE IF Prefixed("template") /\ ValidHexSuffix(After("template"), TemplateLen)
             THEN [text |-> text, kind |-> "template"] ELSE None
  BY DEF FromExisting
<1>2. ASSUME NEW kind \in Symbol, Prefixed(kind)
      PROVE  After(kind) \in Seq(Symbol) /\ Spells(text, p, kind, After(kind))
  <2>1. NamePrefix(p, kind) \in Seq(Symbol)
    BY PrefixShape
  <2> QED
    BY <1>2, <2>1, PrefixCut DEF Spells
<1>3. "test" \in Symbol /\ "template" \in Symbol
  BY Words
<1>4. TestLen \in Nat /\ TemplateLen \in Nat
  BY DEF NamesAssumed
<1>5. CASE Prefixed("test") /\ ValidHexSuffix(After("test"), TestLen)
  <2>1. After("test") \in [1 .. TestLen -> Digits]
    BY <1>2, <1>3, <1>4, <1>5, ValidSuffix
  <2> QED
    BY <1>1, <1>2, <1>3, <1>5, <2>1
<1>6. CASE /\ ~Prefixed("test") /\ Prefixed("template")
           /\ ValidHexSuffix(After("template"), TemplateLen)
  <2>1. After("template") \in [1 .. TemplateLen -> Digits]
    BY <1>2, <1>3, <1>4, <1>6, ValidSuffix
  <2> QED
    BY <1>1, <1>2, <1>3, <1>6, <2>1
<1> QED
  BY <1>1, <1>5, <1>6, Zenon

\* The name of a test is recognised as one by its project.
LEMMA OwnTest ==
    ASSUME NamesAssumed, NEW p \in Seq(Symbol), NEW s \in [1 .. TestLen -> Digits], NEW text,
           Spells(text, p, "test", s)
    PROVE  FromExisting(p, text) = [text |-> text, kind |-> "test"]
<1>1. TestLen \in Nat /\ "test" \in Symbol
  BY Words DEF NamesAssumed
<1>2. s \in Seq(Symbol) /\ ValidHexSuffix(s, TestLen)
  BY <1>1, SuffixText
<1>3. NamePrefix(p, "test") \in Seq(Symbol)
  BY <1>1, PrefixShape
<1>4. /\ IsPrefix(NamePrefix(p, "test"), text)
      /\ SubSeq(text, Len(NamePrefix(p, "test")) + 1, Len(text)) = s
  BY <1>2, <1>3, PrefixOf DEF Spells
<1> QED
  BY <1>2, <1>4, Zenon DEF FromExisting

\* The name of a template is recognised as one by its project: it does not have
\* the prefix of a test.
LEMMA OwnTemplate ==
    ASSUME NamesAssumed, NEW p \in Seq(Symbol), NEW s \in [1 .. TemplateLen -> Digits], NEW text,
           Spells(text, p, "template", s)
    PROVE  FromExisting(p, text) = [text |-> text, kind |-> "template"]
<1>1. TemplateLen \in Nat /\ "template" \in Symbol /\ "test" \in Symbol
  BY Words DEF NamesAssumed
<1>2. s \in Seq(Symbol) /\ ValidHexSuffix(s, TemplateLen)
  BY <1>1, SuffixText
<1>3. NamePrefix(p, "template") \in Seq(Symbol)
  BY <1>1, PrefixShape
<1>4. /\ IsPrefix(NamePrefix(p, "template"), text)
      /\ SubSeq(text, Len(NamePrefix(p, "template")) + 1, Len(text)) = s
  BY <1>2, <1>3, PrefixOf DEF Spells
<1>5. ~IsPrefix(NamePrefix(p, "test"), text)
  <2> SUFFICES ASSUME IsPrefix(NamePrefix(p, "test"), text) PROVE FALSE
    OBVIOUS
  <2>1. NameParts(text, p, "template", s)
    BY <1>1, <1>2, NameShape, Zenon
  <2>2. text \in Seq(Symbol) /\ text[Len(p) + 4] = "template"
    BY <2>1 DEF NameParts
  <2> DEFINE r == SubSeq(text, Len(NamePrefix(p, "test")) + 1, Len(text))
  <2>3. NamePrefix(p, "test") \in Seq(Symbol)
    BY <1>1, PrefixShape
  <2>4. r \in Seq(Symbol) /\ Spells(text, p, "test", r)
    BY <2>2, <2>3, PrefixCut DEF Spells
  <2>5. NameParts(text, p, "test", r)
    BY <1>1, <2>4, NameShape, Zenon
  <2>6. text[Len(p) + 4] = "test"
    BY <2>5 DEF NameParts
  <2> QED
    BY <2>2, <2>6
<1> QED
  BY <1>2, <1>4, <1>5, Zenon DEF FromExisting

(***************************************************************************)
(* Comments.                                                               *)
(***************************************************************************)

\* A set of natural numbers has a least element.
LEMMA LeastExists ==
    ASSUME NEW I, I \subseteq Nat, I # {}
    PROVE  \E x \in I : \A y \in I : x <= y
<1>1. PICK x \in I : \A y \in I : ~(<<y, x>> \in OpToRel(<, Nat))
  BY NatLessThanWellFounded, WFMin
<1>2. ASSUME NEW y \in I PROVE x <= y
  <2> DEFINE p == <<y, x>>
  <2>1. p \in Nat \X Nat /\ p[1] = y /\ p[2] = x
    OBVIOUS
  <2>2. ~(p \in OpToRel(<, Nat))
    BY <1>1
  <2> HIDE DEF p
  <2>3. ~(p[1] < p[2])
    BY <2>1, <2>2 DEF OpToRel
  <2> QED
    BY <2>1, <2>3
<1> QED
  BY <1>2

\* Max of a bounded set of natural numbers is one of them.
LEMMA GreatestIn ==
    ASSUME NEW n \in Nat, NEW I, I \subseteq 1 .. n, I # {}
    PROVE  Max(I) \in I
<1> DEFINE J == {n - i : i \in I}
<1>1. \A i \in I : n - i \in Nat
  OBVIOUS
<1>2. J \subseteq Nat /\ J # {}
  BY <1>1
<1>3. PICK j \in J : \A k \in J : j <= k
  BY <1>2, LeastExists
<1>4. PICK i \in I : j = n - i
  OBVIOUS
<1>5. \A y \in I : i >= y
  <2> SUFFICES ASSUME NEW y \in I PROVE i >= y
    OBVIOUS
  <2>1. n - i <= n - y
    BY <1>3, <1>4
  <2> QED
    BY <2>1
<1> QED
  BY <1>5 DEF Max

\* Where the last part with a given key is.
KeyIndex(parts, key) == SelectLastInSeq(parts, LAMBDA part : part[1] = key)

LEMMA KeyFound ==
    ASSUME NEW S, NEW parts \in Seq(S), NEW i \in 1 .. Len(parts)
    PROVE  /\ KeyIndex(parts, parts[i][1]) \in 1 .. Len(parts)
           /\ parts[KeyIndex(parts, parts[i][1])][1] = parts[i][1]
<1> DEFINE key == parts[i][1]
           I == {j \in 1 .. Len(parts) : parts[j][1] = key}
<1>1. KeyIndex(parts, key) = IF I # {} THEN Max(I) ELSE 0
  BY DEF KeyIndex, SelectLastInSeq
<1>2. I # {} /\ I \subseteq 1 .. Len(parts) /\ Len(parts) \in Nat
  BY LenProperties
<1>3. Max(I) \in I
  <2> HIDE DEF I
  <2> QED
    BY <1>2, GreatestIn
<1> QED
  BY <1>1, <1>2, <1>3

\* Every field comes from a part.
LEMMA FieldSource ==
    ASSUME NEW S, NEW parts \in Seq(S), NEW key \in DOMAIN Fields(parts)
    PROVE  \E i \in 1 .. Len(parts) : parts[i][1] = key /\ Fields(parts)[key] = parts[i][2]
<1>1. DOMAIN parts = 1 .. Len(parts)
  BY LenProperties
<1>2. PICK i \in 1 .. Len(parts) : parts[i][1] = key
  BY <1>1 DEF Fields
<1>3. Fields(parts)[key] = parts[KeyIndex(parts, key)][2]
  BY DEF Fields, KeyIndex
<1> QED
  BY <1>2, <1>3, KeyFound

\* Where no key is repeated every part is a field.
LEMMA FieldValue ==
    ASSUME NEW S, NEW parts \in Seq(S), DistinctKeys(parts), NEW i \in 1 .. Len(parts)
    PROVE  parts[i][1] \in DOMAIN Fields(parts) /\ Fields(parts)[parts[i][1]] = parts[i][2]
<1>1. DOMAIN parts = 1 .. Len(parts)
  BY LenProperties
<1>2. parts[i][1] \in DOMAIN Fields(parts)
  BY <1>1 DEF Fields
<1>3. Fields(parts)[parts[i][1]] = parts[KeyIndex(parts, parts[i][1])][2]
  BY <1>2 DEF Fields, KeyIndex
<1>4. KeyIndex(parts, parts[i][1]) = i
  BY <1>1, KeyFound DEF DistinctKeys
<1> QED
  BY <1>2, <1>3, <1>4

\* What a comment must say to be read as the metadata of a test, and of a template.
TestFields(f) ==
    /\ f["kind"] = <<"test">>
    /\ DOMAIN f = {"kind", "project", "owner", "created"}
    /\ ValidProject(f["project"])
    /\ Reads(f["owner"], Key) /\ Reads(f["created"], PrintedTimes)

TemplateFields(f) ==
    /\ f["kind"] = <<"template">>
    /\ \/ DOMAIN f = {"kind", "project", "lock", "fingerprint", "state", "created"}
       \/ /\ DOMAIN f = {"kind", "project", "lock", "fingerprint", "state", "created", "parent"}
          /\ Reads(f["parent"], Fingerprint)
    /\ ValidProject(f["project"])
    /\ Reads(f["lock"], Key) /\ Reads(f["created"], PrintedTimes)
    /\ Reads(f["fingerprint"], Fingerprint)
    /\ f["state"] \in {<<"initializing">>, <<"ready">>}

TestOf(f) ==
    [kind |-> "test", project |-> f["project"], lock |-> f["owner"][1],
     created |-> TimeOf(f["created"])]

TemplateOf(f) ==
    [kind |-> "template", project |-> f["project"], lock |-> f["lock"][1],
     created |-> TimeOf(f["created"]), fingerprint |-> f["fingerprint"][1],
     parent |-> IF "parent" \in DOMAIN f THEN f["parent"][1] ELSE NoParent,
     state |-> f["state"][1]]

\* A comment without a junk part, with the prefix, and no key repeated.
WellFormed(comment) ==
    /\ comment.prefix /\ DistinctKeys(comment.parts)
    /\ \A i \in DOMAIN comment.parts : Len(comment.parts[i]) # 1

LEMMA ParseTestCases ==
    ASSUME NEW f, f["kind"] = <<"test">>
    PROVE  ParseTest(f) = IF TestFields(f) THEN TestOf(f) ELSE None
BY Zenon DEF ParseTest, TestFields, TestOf, OnlyKeys

LEMMA ParseTemplateCases ==
    ASSUME NEW f, f["kind"] = <<"template">>
    PROVE  ParseTemplate(f) = IF TemplateFields(f) THEN TemplateOf(f) ELSE None
<1> DEFINE required == {"kind", "project", "lock", "fingerprint", "state", "created"}
           parent == IF "parent" \in DOMAIN f THEN f["parent"] ELSE <<NoParent>>
           read == /\ OnlyKeys(f, required) \/ OnlyKeys(f, required \cup {"parent"})
                   /\ ValidProject(f["project"])
                   /\ Reads(f["lock"], Key) /\ Reads(f["created"], PrintedTimes)
                   /\ Reads(f["fingerprint"], Fingerprint)
                   /\ "parent" \in DOMAIN f => Reads(parent, Fingerprint)
                   /\ f["state"] \in {<<"initializing">>, <<"ready">>}
<1>1. ParseTemplate(f) =
        IF read
        THEN [kind |-> "template", project |-> f["project"], lock |-> f["lock"][1],
              created |-> TimeOf(f["created"]),
              fingerprint |-> f["fingerprint"][1], parent |-> parent[1],
              state |-> f["state"][1]]
        ELSE None
  BY Zenon DEF ParseTemplate
<1>2. parent[1] = IF "parent" \in DOMAIN f THEN f["parent"][1] ELSE NoParent
  OBVIOUS
<1>3. required \cup {"parent"} = {"kind", "project", "lock", "fingerprint", "state", "created", "parent"}
  OBVIOUS
<1>4. "parent" \notin required
  OBVIOUS
<1>5. read <=> TemplateFields(f)
  <2>1. ASSUME OnlyKeys(f, required)
        PROVE  read <=> TemplateFields(f)
    <3>1. DOMAIN f = required /\ "parent" \notin DOMAIN f
      BY <1>4, <2>1, Zenon DEF OnlyKeys
    <3> QED
      BY <2>1, <3>1, Zenon DEF TemplateFields
  <2>2. ASSUME OnlyKeys(f, required \cup {"parent"})
        PROVE  read <=> TemplateFields(f)
    <3>1. /\ DOMAIN f = {"kind", "project", "lock", "fingerprint", "state", "created", "parent"}
          /\ "parent" \in DOMAIN f /\ DOMAIN f # required
      BY <1>3, <1>4, <2>2, Zenon DEF OnlyKeys
    <3>2. parent = f["parent"]
      BY <3>1, Zenon
    <3> QED
      BY <2>2, <3>1, <3>2, Zenon DEF TemplateFields
  <2>3. ASSUME ~OnlyKeys(f, required), ~OnlyKeys(f, required \cup {"parent"})
        PROVE  read <=> TemplateFields(f)
    BY <1>3, <2>3, Zenon DEF TemplateFields, OnlyKeys
  <2> QED
    BY <2>1, <2>2, <2>3, Zenon
<1> QED
  BY <1>1, <1>2, <1>5, Zenon DEF TemplateOf

\* What Parse makes of a comment.
LEMMA ParseCases ==
    ASSUME NEW comment, Parse(comment) # None
    PROVE  /\ WellFormed(comment)
           /\ \/ TestFields(Fields(comment.parts)) /\ Parse(comment) = TestOf(Fields(comment.parts))
              \/ TemplateFields(Fields(comment.parts)) /\ Parse(comment) = TemplateOf(Fields(comment.parts))
<1> DEFINE f == Fields(comment.parts)
           bad == \/ ~comment.prefix
                  \/ \E i \in DOMAIN comment.parts : Len(comment.parts[i]) = 1
                  \/ ~DistinctKeys(comment.parts)
                  \/ "kind" \notin DOMAIN f
<1>1. Parse(comment) =
        IF bad THEN None
        ELSE CASE f["kind"] = <<"test">> -> ParseTest(f)
               [] f["kind"] = <<"template">> -> ParseTemplate(f)
               [] OTHER -> None
  BY DEF Parse
<1> HIDE DEF f
<1>2. ~bad
  BY <1>1, Zenon
<1>3. WellFormed(comment)
  BY <1>2, Zenon DEF WellFormed
<1>4. <<"test">> # <<"template">>
  OBVIOUS
<1>5. CASE f["kind"] = <<"test">>
  <2>1. Parse(comment) = ParseTest(f)
    BY <1>1, <1>2, <1>4, <1>5
  <2> QED
    BY <1>3, <1>5, <2>1, ParseTestCases, Zenon DEF f
<1>6. CASE f["kind"] = <<"template">>
  <2>1. Parse(comment) = ParseTemplate(f)
    BY <1>1, <1>2, <1>4, <1>6
  <2> QED
    BY <1>3, <1>6, <2>1, ParseTemplateCases, Zenon DEF f
<1>7. CASE f["kind"] # <<"test">> /\ f["kind"] # <<"template">>
  BY <1>1, <1>2, <1>7
<1> QED
  BY <1>5, <1>6, <1>7

\* The reverse.
LEMMA ParseReads ==
    ASSUME NEW comment, WellFormed(comment), "kind" \in DOMAIN Fields(comment.parts)
    PROVE  /\ TestFields(Fields(comment.parts)) => Parse(comment) = TestOf(Fields(comment.parts))
           /\ TemplateFields(Fields(comment.parts)) => Parse(comment) = TemplateOf(Fields(comment.parts))
<1> DEFINE f == Fields(comment.parts)
           bad == \/ ~comment.prefix
                  \/ \E i \in DOMAIN comment.parts : Len(comment.parts[i]) = 1
                  \/ ~DistinctKeys(comment.parts)
                  \/ "kind" \notin DOMAIN f
<1>1. Parse(comment) =
        IF bad THEN None
        ELSE CASE f["kind"] = <<"test">> -> ParseTest(f)
               [] f["kind"] = <<"template">> -> ParseTemplate(f)
               [] OTHER -> None
  BY DEF Parse
<1>2. ~bad
  BY Zenon DEF WellFormed
<1> HIDE DEF f
<1>4. <<"test">> # <<"template">>
  OBVIOUS
<1>5. ASSUME TestFields(f) PROVE Parse(comment) = TestOf(f)
  <2>0. f["kind"] = <<"test">>
    BY <1>5, Zenon DEF TestFields
  <2>1. Parse(comment) = ParseTest(f)
    BY <1>1, <1>2, <1>4, <2>0
  <2> QED
    BY <1>5, <2>0, <2>1, ParseTestCases, Zenon
<1>6. ASSUME TemplateFields(f) PROVE Parse(comment) = TemplateOf(f)
  <2>0. f["kind"] = <<"template">>
    BY <1>6, Zenon DEF TemplateFields
  <2>1. Parse(comment) = ParseTemplate(f)
    BY <1>1, <1>2, <1>4, <2>0
  <2> QED
    BY <1>6, <2>0, <2>1, ParseTemplateCases, Zenon
<1> QED
  BY <1>5, <1>6, Zenon DEF f

\* The parts that occur in comments until the time t: what Encode writes, what
\* others make of it, and what they add.  A project that was respelled is marked,
\* and no creation time is in the future.
Value == Symbol \cup Key \cup Fingerprint \cup PrintedTimes \cup {"initializing", "ready", "1"}
PartKey == {"kind", "project", "owner", "lock", "fingerprint", "parent", "state", "created", "extra"}
ProjectText(value) == value \in Project \/ "alt" \in Range(value)
TimeText(value, t) == Len(value) >= 1 /\ \E n \in Times : n <= t /\ value[1] = ToString(n)
KeyedPart(t) ==
    {part \in PartKey \X Seq(Value) :
        /\ part[1] = "project" => ProjectText(part[2])
        /\ part[1] = "created" => TimeText(part[2], t)}
Part(t) == {<<"junk">>} \cup KeyedPart(t)

\* A part that is not junk is a key and a text.
LEMMA PartOfComment ==
    ASSUME NEW t, NEW part \in Part(t), Len(part) # 1
    PROVE  part \in KeyedPart(t)
BY DEF Part

\* Printed times are read back.
LEMMA TimeRead ==
    ASSUME \A m, n \in Times : ToString(m) = ToString(n) => m = n, NEW text, NEW n \in Times,
           text[1] = ToString(n)
    PROVE  TimeOf(text) = n
BY Zenon DEF TimeOf

\* What a field holds that was read.
LEMMA ReadFirst ==
    ASSUME NEW values, NEW text, Reads(text, values)
    PROVE  text[1] \in values
<1>1. PICK v \in values : text \in {<<v>>, <<v, "alt">>}
  BY DEF Reads
<1> QED
  BY <1>1

\* The fields of a well-formed comment come from its parts.
LEMMA FieldIsPart ==
    ASSUME NEW t, NEW comment, comment.parts \in Seq(Part(t)), WellFormed(comment),
           NEW key \in DOMAIN Fields(comment.parts)
    PROVE  /\ Fields(comment.parts)[key] \in Seq(Value)
           /\ key = "project" => ProjectText(Fields(comment.parts)[key])
           /\ key = "created" => TimeText(Fields(comment.parts)[key], t)
<1> DEFINE parts == comment.parts
<1>1. PICK i \in 1 .. Len(parts) : parts[i][1] = key /\ Fields(parts)[key] = parts[i][2]
  BY FieldSource
<1>2. DOMAIN parts = 1 .. Len(parts) /\ parts[i] \in Part(t)
  BY LenProperties, ElementOfSeq
<1>3. Len(parts[i]) # 1
  BY <1>2 DEF WellFormed
<1>4. parts[i] \in KeyedPart(t)
  BY <1>2, <1>3, PartOfComment
<1> QED
  BY <1>1, <1>4 DEF KeyedPart

\* A project that is read is one that was written as it is.
LEMMA ProjectRead ==
    ASSUME NEW value, ProjectText(value), ValidProject(value)
    PROVE  value \in Project
BY DEF ProjectText, ValidProject

\* A comment that is read gives metadata, and no creation time in the future.
LEMMA ParsedTyped ==
    ASSUME \A m, n \in Times : ToString(m) = ToString(n) => m = n,
           NEW t, NEW comment, comment.parts \in Seq(Part(t)), Parse(comment) # None
    PROVE  /\ Parse(comment) \in Tests \cup Templates
           /\ Parse(comment).created <= t
<1> DEFINE f == Fields(comment.parts)
           T == TestFields(f) /\ Parse(comment) = TestOf(f)
           M == TemplateFields(f) /\ Parse(comment) = TemplateOf(f)
<1>1. WellFormed(comment) /\ (T \/ M)
  BY ParseCases, Zenon
<1>2. ASSUME NEW key \in DOMAIN f
      PROVE  /\ key = "project" => ProjectText(f[key])
             /\ key = "created" => TimeText(f[key], t)
  BY <1>1, FieldIsPart
<1> HIDE DEF f
<1>k. "project" \in DOMAIN f /\ "created" \in DOMAIN f /\ ValidProject(f["project"])
  BY <1>1, Zenon DEF TestFields, TemplateFields
<1>p. f["project"] \in Project
  BY <1>2, <1>k, ProjectRead, Zenon
<1>c. PICK n \in Times : n <= t /\ f["created"][1] = ToString(n)
  BY <1>2, <1>k, Zenon DEF TimeText
<1>t. TimeOf(f["created"]) = n
  BY <1>c, TimeRead, Zenon
<1>3. CASE T
  <2>1. f["owner"][1] \in Key
    BY <1>3, ReadFirst, Zenon DEF TestFields
  <2>2. Parse(comment) = [kind |-> "test", project |-> f["project"], lock |-> f["owner"][1], created |-> n]
    BY <1>3, <1>t, Zenon DEF TestOf
  <2> QED
    BY <1>p, <1>c, <2>1, <2>2 DEF Tests
<1>4. CASE M
  <2>1. f["lock"][1] \in Key /\ f["fingerprint"][1] \in Fingerprint
    BY <1>4, ReadFirst, Zenon DEF TemplateFields
  <2>2. f["state"][1] \in {"initializing", "ready"}
    <3>1. f["state"] = <<"initializing">> \/ f["state"] = <<"ready">>
      BY <1>4, Zenon DEF TemplateFields
    <3> QED
      BY <3>1
  <2>3. ASSUME "parent" \in DOMAIN f PROVE f["parent"][1] \in Fingerprint
    <3>1. "parent" \notin {"kind", "project", "lock", "fingerprint", "state", "created"}
      OBVIOUS
    <3>2. Reads(f["parent"], Fingerprint)
      BY <1>4, <2>3, <3>1, Zenon DEF TemplateFields
    <3> QED
      BY <3>2, ReadFirst, Zenon
  <2> DEFINE parent == IF "parent" \in DOMAIN f THEN f["parent"][1] ELSE NoParent
  <2>4. parent \in Fingerprint \cup {NoParent}
    BY <2>3, Zenon
  <2> HIDE DEF parent
  <2>5. Parse(comment) =
          [kind |-> "template", project |-> f["project"], lock |-> f["lock"][1], created |-> n,
           fingerprint |-> f["fingerprint"][1], parent |-> parent, state |-> f["state"][1]]
    BY <1>4, <1>t, Zenon DEF TemplateOf, parent
  <2> QED
    BY <1>p, <1>c, <2>1, <2>2, <2>4, <2>5 DEF Templates
<1> QED
  BY <1>1, <1>3, <1>4

\* The parts Encode writes, one tuple for each kind of metadata.
TestParts(m) ==
    << <<"kind", <<"test">> >>, <<"project", m.project>>, <<"owner", <<m.lock>> >>,
       <<"created", <<ToString(m.created)>> >> >>

RootParts(m) ==
    << <<"kind", <<"template">> >>, <<"project", m.project>>, <<"lock", <<m.lock>> >>,
       <<"fingerprint", <<m.fingerprint>> >>, <<"state", <<m.state>> >>,
       <<"created", <<ToString(m.created)>> >> >>

DerivedParts(m) ==
    << <<"kind", <<"template">> >>, <<"project", m.project>>, <<"lock", <<m.lock>> >>,
       <<"fingerprint", <<m.fingerprint>> >>, <<"parent", <<m.parent>> >>,
       <<"state", <<m.state>> >>, <<"created", <<ToString(m.created)>> >> >>

\* The sequence r is s followed by t.
Joins(s, t, r) == s \o t = r

LEMMA JoinIs ==
    ASSUME NEW S, NEW s \in Seq(S), NEW t \in Seq(S), NEW r \in Seq(S), Len(r) = Len(s) + Len(t),
           \A i \in 1 .. Len(s) : r[i] = s[i],
           \A i \in 1 .. Len(t) : r[Len(s) + i] = t[i]
    PROVE  Joins(s, t, r)
<1> DEFINE x == s \o t
<1>1. /\ x \in Seq(S) /\ Len(x) = Len(s) + Len(t)
      /\ \A i \in 1 .. Len(s) : x[i] = s[i]
      /\ \A i \in 1 .. Len(t) : x[Len(s) + i] = t[i]
  BY Joined
<1> HIDE DEF x
<1>2. Len(s) \in Nat /\ Len(t) \in Nat
  BY LenProperties
<1>3. ASSUME NEW i \in 1 .. Len(x) PROVE x[i] = r[i]
  <2>1. CASE i <= Len(s)
    BY <1>1, <1>2, <2>1
  <2>2. CASE i > Len(s)
    <3>1. i - Len(s) \in 1 .. Len(t) /\ Len(s) + (i - Len(s)) = i
      BY <1>1, <1>2, <2>2
    <3> QED
      BY <1>1, <3>1
  <2> QED
    BY <1>1, <1>2, <2>1, <2>2
<1>4. x = r
  BY <1>1, <1>3, SeqEqual
<1> QED
  BY <1>4 DEF Joins, x

\* Short sequences joined.
LEMMA Join21 ==
    ASSUME NEW a, NEW b, NEW c
    PROVE  <<a, b>> \o <<c>> = <<a, b, c>>
<1> DEFINE S == {a, b, c}
           s == <<a, b>>
           t == <<c>>
           r == <<a, b, c>>
<1>1. /\ s \in Seq(S) /\ t \in Seq(S) /\ r \in Seq(S)
      /\ Len(r) = Len(s) + Len(t)
      /\ \A i \in 1 .. Len(s) : r[i] = s[i]
      /\ \A i \in 1 .. Len(t) : r[Len(s) + i] = t[i]
  OBVIOUS
<1> HIDE DEF S, s, t, r
<1>2. Joins(s, t, r)
  BY <1>1, JoinIs, Zenon
<1> QED
  BY <1>2 DEF Joins, s, t, r

LEMMA Join31 ==
    ASSUME NEW a, NEW b, NEW c, NEW d
    PROVE  <<a, b, c>> \o <<d>> = <<a, b, c, d>>
<1> DEFINE S == {a, b, c, d}
           s == <<a, b, c>>
           t == <<d>>
           r == <<a, b, c, d>>
<1>1. /\ s \in Seq(S) /\ t \in Seq(S) /\ r \in Seq(S)
      /\ Len(r) = Len(s) + Len(t)
      /\ \A i \in 1 .. Len(s) : r[i] = s[i]
      /\ \A i \in 1 .. Len(t) : r[Len(s) + i] = t[i]
  OBVIOUS
<1> HIDE DEF S, s, t, r
<1>2. Joins(s, t, r)
  BY <1>1, JoinIs, Zenon
<1> QED
  BY <1>2 DEF Joins, s, t, r

LEMMA Join23 ==
    ASSUME NEW a, NEW b, NEW c, NEW d, NEW e
    PROVE  <<a, b>> \o <<c, d, e>> = <<a, b, c, d, e>>
<1> DEFINE S == {a, b, c, d, e}
           s == <<a, b>>
           t == <<c, d, e>>
           r == <<a, b, c, d, e>>
<1>1. /\ s \in Seq(S) /\ t \in Seq(S) /\ r \in Seq(S)
      /\ Len(r) = Len(s) + Len(t)
      /\ \A i \in 1 .. Len(s) : r[i] = s[i]
      /\ \A i \in 1 .. Len(t) : r[Len(s) + i] = t[i]
  OBVIOUS
<1> HIDE DEF S, s, t, r
<1>2. Joins(s, t, r)
  BY <1>1, JoinIs, Zenon
<1> QED
  BY <1>2 DEF Joins, s, t, r

LEMMA Join24 ==
    ASSUME NEW a, NEW b, NEW c, NEW d, NEW e, NEW f
    PROVE  <<a, b>> \o <<c, d, e, f>> = <<a, b, c, d, e, f>>
<1> DEFINE S == {a, b, c, d, e, f}
           s == <<a, b>>
           t == <<c, d, e, f>>
           r == <<a, b, c, d, e, f>>
<1>1. /\ s \in Seq(S) /\ t \in Seq(S) /\ r \in Seq(S)
      /\ Len(r) = Len(s) + Len(t)
      /\ \A i \in 1 .. Len(s) : r[i] = s[i]
      /\ \A i \in 1 .. Len(t) : r[Len(s) + i] = t[i]
  OBVIOUS
<1> HIDE DEF S, s, t, r
<1>2. Joins(s, t, r)
  BY <1>1, JoinIs, Zenon
<1> QED
  BY <1>2 DEF Joins, s, t, r

LEMMA Join51 ==
    ASSUME NEW a, NEW b, NEW c, NEW d, NEW e, NEW f
    PROVE  <<a, b, c, d, e>> \o <<f>> = <<a, b, c, d, e, f>>
<1> DEFINE S == {a, b, c, d, e, f}
           s == <<a, b, c, d, e>>
           t == <<f>>
           r == <<a, b, c, d, e, f>>
<1>1. /\ s \in Seq(S) /\ t \in Seq(S) /\ r \in Seq(S)
      /\ Len(r) = Len(s) + Len(t)
      /\ \A i \in 1 .. Len(s) : r[i] = s[i]
      /\ \A i \in 1 .. Len(t) : r[Len(s) + i] = t[i]
  OBVIOUS
<1> HIDE DEF S, s, t, r
<1>2. Joins(s, t, r)
  BY <1>1, JoinIs, Zenon
<1> QED
  BY <1>2 DEF Joins, s, t, r

LEMMA Join61 ==
    ASSUME NEW a, NEW b, NEW c, NEW d, NEW e, NEW f, NEW g
    PROVE  <<a, b, c, d, e, f>> \o <<g>> = <<a, b, c, d, e, f, g>>
<1> DEFINE S == {a, b, c, d, e, f, g}
           s == <<a, b, c, d, e, f>>
           t == <<g>>
           r == <<a, b, c, d, e, f, g>>
<1>1. /\ s \in Seq(S) /\ t \in Seq(S) /\ r \in Seq(S)
      /\ Len(r) = Len(s) + Len(t)
      /\ \A i \in 1 .. Len(s) : r[i] = s[i]
      /\ \A i \in 1 .. Len(t) : r[Len(s) + i] = t[i]
  OBVIOUS
<1> HIDE DEF S, s, t, r
<1>2. Joins(s, t, r)
  BY <1>1, JoinIs, Zenon
<1> QED
  BY <1>2 DEF Joins, s, t, r

LEMMA Tuple4 ==
    ASSUME NEW a, NEW b, NEW c, NEW d
    PROVE  (<<a, b>> \o <<c>>) \o <<d>> = <<a, b, c, d>>
<1>1. <<a, b>> \o <<c>> = <<a, b, c>>
  BY Join21, Zenon
<1>2. <<a, b, c>> \o <<d>> = <<a, b, c, d>>
  BY Join31, Zenon
<1> QED
  BY <1>1, <1>2, Zenon

LEMMA Tuple6 ==
    ASSUME NEW a, NEW b, NEW c, NEW d, NEW e, NEW f
    PROVE  (<<a, b>> \o ((<<c, d>> \o <<>>) \o <<e>>)) \o <<f>> = <<a, b, c, d, e, f>>
<1>1. <<c, d>> \o <<>> = <<c, d>>
  <2>1. <<c, d>> \in Seq({c, d})
    OBVIOUS
  <2> QED
    BY <2>1, ConcatEmptySeq, Zenon
<1>2. <<c, d>> \o <<e>> = <<c, d, e>>
  BY Join21, Zenon
<1>3. <<a, b>> \o <<c, d, e>> = <<a, b, c, d, e>>
  BY Join23, Zenon
<1>4. <<a, b, c, d, e>> \o <<f>> = <<a, b, c, d, e, f>>
  BY Join51, Zenon
<1> QED
  BY <1>1, <1>2, <1>3, <1>4, Zenon

LEMMA Tuple7 ==
    ASSUME NEW a, NEW b, NEW c, NEW d, NEW e, NEW f, NEW g
    PROVE  (<<a, b>> \o ((<<c, d>> \o <<e>>) \o <<f>>)) \o <<g>> = <<a, b, c, d, e, f, g>>
<1>1. <<c, d>> \o <<e>> = <<c, d, e>>
  BY Join21, Zenon
<1>2. <<c, d, e>> \o <<f>> = <<c, d, e, f>>
  BY Join31, Zenon
<1>3. <<a, b>> \o <<c, d, e, f>> = <<a, b, c, d, e, f>>
  BY Join24
<1>4. <<a, b, c, d, e, f>> \o <<g>> = <<a, b, c, d, e, f, g>>
  BY Join61, Zenon
<1> QED
  BY <1>1, <1>2, <1>3, <1>4, Zenon

LEMMA EncodeTest ==
    ASSUME NEW m, m.kind = "test"
    PROVE  Encode(m) = TestParts(m)
BY Tuple4, Zenon DEF Encode, TestParts

LEMMA EncodeRoot ==
    ASSUME NEW m, m.kind = "template", m.parent = NoParent
    PROVE  Encode(m) = RootParts(m)
<1> DEFINE a == <<"kind", <<m.kind>> >>
           b == <<"project", m.project>>
           c == <<"lock", <<m.lock>> >>
           d == <<"fingerprint", <<m.fingerprint>> >>
           e == <<>>
           f == <<"state", <<m.state>> >>
           g == <<"created", <<ToString(m.created)>> >>
<1>1. m.kind # "test"
  OBVIOUS
<1>2. Encode(m) = (<<a, b>> \o ((<<c, d>> \o e) \o <<f>>)) \o <<g>>
  BY <1>1, Zenon DEF Encode, EncodeParent
<1>3. RootParts(m) = <<a, b, c, d, f, g>>
  BY Zenon DEF RootParts
<1> HIDE DEF a, b, c, d, f, g
<1> QED
  <2>1. (<<a, b>> \o ((<<c, d>> \o <<>>) \o <<f>>)) \o <<g>> = <<a, b, c, d, f, g>>
    BY Tuple6
  <2> QED
    BY <1>2, <1>3, <2>1, Zenon

LEMMA EncodeDerived ==
    ASSUME NEW m, m.kind = "template", m.parent # NoParent
    PROVE  Encode(m) = DerivedParts(m)
<1> DEFINE a == <<"kind", <<m.kind>> >>
           b == <<"project", m.project>>
           c == <<"lock", <<m.lock>> >>
           d == <<"fingerprint", <<m.fingerprint>> >>
           p == <<"parent", <<m.parent>> >>
           f == <<"state", <<m.state>> >>
           g == <<"created", <<ToString(m.created)>> >>
<1>1. m.kind # "test"
  OBVIOUS
<1>2. Encode(m) = (<<a, b>> \o ((<<c, d>> \o <<p>>) \o <<f>>)) \o <<g>>
  BY <1>1, Zenon DEF Encode, EncodeParent
<1>3. DerivedParts(m) = <<a, b, c, d, p, f, g>>
  BY Zenon DEF DerivedParts
<1> HIDE DEF a, b, c, d, p, f, g
<1> QED
  <2>1. (<<a, b>> \o ((<<c, d>> \o <<p>>) \o <<f>>)) \o <<g>> = <<a, b, c, d, p, f, g>>
    BY Tuple7
  <2> QED
    BY <1>2, <1>3, <2>1, Zenon

\* One value alone, a key with its value, and short sequences of parts.
LEMMA OneLong ==
    ASSUME NEW S, NEW a \in S
    PROVE  <<a>> \in Seq(S) /\ Len(<<a>>) = 1 /\ <<a>>[1] = a
OBVIOUS

LEMMA KeyValue ==
    ASSUME NEW t, NEW k \in PartKey, NEW v \in Seq(Value),
           k = "project" => ProjectText(v), k = "created" => TimeText(v, t)
    PROVE  <<k, v>> \in Part(t) /\ <<k, v>>[1] = k /\ <<k, v>>[2] = v /\ Len(<<k, v>>) = 2
<1>1. <<k, v>> \in PartKey \X Seq(Value) /\ <<k, v>>[1] = k /\ <<k, v>>[2] = v /\ Len(<<k, v>>) = 2
  OBVIOUS
<1> QED
  BY <1>1, Zenon DEF Part, KeyedPart

LEMMA FourParts ==
    ASSUME NEW S, NEW a \in S, NEW b \in S, NEW c \in S, NEW d \in S
    PROVE  <<a, b, c, d>> \in Seq(S)
OBVIOUS

LEMMA SixParts ==
    ASSUME NEW S, NEW a \in S, NEW b \in S, NEW c \in S, NEW d \in S, NEW e \in S, NEW f \in S
    PROVE  <<a, b, c, d, e, f>> \in Seq(S)
OBVIOUS

LEMMA SevenParts ==
    ASSUME NEW S, NEW a \in S, NEW b \in S, NEW c \in S, NEW d \in S, NEW e \in S, NEW f \in S,
           NEW g \in S
    PROVE  <<a, b, c, d, e, f, g>> \in Seq(S)
OBVIOUS

\* What the comment of new metadata consists of.
LEMMA TagParts ==
    ASSUME Project \subseteq Seq(Symbol), NEW m \in Tests \cup Templates, NEW t \in Times, m.created <= t
    PROVE  Encode(m) \in Seq(Part(t))
<1>1. /\ {"test", "template"} \subseteq Value /\ Key \subseteq Value /\ Fingerprint \subseteq Value
      /\ PrintedTimes \subseteq Value /\ {"initializing", "ready"} \subseteq Value
      /\ Symbol \subseteq Value
  BY Words DEF Value
<1>2. Seq(Symbol) \subseteq Seq(Value)
  BY <1>1, SeqMonotonic
<1>3. ASSUME NEW x \in Value, NEW k \in PartKey, k # "project", k # "created"
      PROVE  <<k, <<x>> >> \in Part(t)
  <2>1. <<x>> \in Seq(Value)
    BY OneLong, Zenon
  <2> QED
    BY <1>3, <2>1, KeyValue, Zenon
<1>4. m.project \in Project /\ m.lock \in Key /\ m.created \in Times
  BY DEF Tests, Templates
<1>5. <<"project", m.project>> \in Part(t)
  <2>1. m.project \in Seq(Value)
    BY <1>2, <1>4, Zenon
  <2>2. "project" \in PartKey /\ "project" # "created"
    BY DEF PartKey
  <2>3. ProjectText(m.project)
    BY <1>4, Zenon DEF ProjectText
  <2> QED
    BY <2>1, <2>2, <2>3, KeyValue, Zenon
<1>6. <<"created", <<ToString(m.created)>> >> \in Part(t)
  <2> DEFINE v == <<ToString(m.created)>>
  <2>1. ToString(m.created) \in Value
    BY <1>1, <1>4, Zenon DEF PrintedTimes
  <2>2. v \in Seq(Value) /\ Len(v) = 1 /\ v[1] = ToString(m.created)
    BY <2>1, OneLong, Zenon
  <2> HIDE DEF v
  <2>3. Len(v) >= 1
    BY <2>2
  <2>4. TimeText(v, t)
    BY <1>4, <2>2, <2>3, Zenon DEF TimeText
  <2>5. "created" \in PartKey /\ "project" # "created"
    BY DEF PartKey
  <2>6. <<"created", v>> \in Part(t)
    BY <2>2, <2>4, <2>5, KeyValue, Zenon
  <2> QED
    BY <2>6 DEF v
<1>7. CASE m \in Tests
  <2>1. m.kind = "test"
    BY <1>7 DEF Tests
  <2>2. <<"kind", <<"test">> >> \in Part(t)
    BY <1>1, <1>3 DEF PartKey
  <2>3. <<"owner", <<m.lock>> >> \in Part(t)
    BY <1>1, <1>3, <1>4 DEF PartKey
  <2>4. TestParts(m) \in Seq(Part(t))
    BY <1>5, <1>6, <2>2, <2>3, FourParts, Zenon DEF TestParts
  <2> QED
    BY <2>1, <2>4, EncodeTest, Zenon
<1>8. CASE m \in Templates
  <2>1. /\ m.kind = "template" /\ m.fingerprint \in Fingerprint
        /\ m.parent \in Fingerprint \cup {NoParent} /\ m.state \in {"initializing", "ready"}
    BY <1>8 DEF Templates
  <2>2. <<"kind", <<"template">> >> \in Part(t)
    BY <1>1, <1>3 DEF PartKey
  <2>3. /\ <<"lock", <<m.lock>> >> \in Part(t)
        /\ <<"fingerprint", <<m.fingerprint>> >> \in Part(t)
        /\ <<"state", <<m.state>> >> \in Part(t)
    BY <1>1, <1>3, <1>4, <2>1 DEF PartKey
  <2>4. CASE m.parent = NoParent
    <3>1. RootParts(m) \in Seq(Part(t))
      BY <1>5, <1>6, <2>2, <2>3, SixParts, Zenon DEF RootParts
    <3> QED
      BY <2>1, <2>4, <3>1, EncodeRoot, Zenon
  <2>5. CASE m.parent # NoParent
    <3>1. <<"parent", <<m.parent>> >> \in Part(t)
      BY <1>1, <1>3, <2>1, <2>5 DEF PartKey
    <3>2. DerivedParts(m) \in Seq(Part(t))
      BY <1>5, <1>6, <2>2, <2>3, <3>1, SevenParts, Zenon DEF DerivedParts
    <3> QED
      BY <2>1, <2>5, <3>2, EncodeDerived, Zenon
  <2> QED
    BY <2>4, <2>5
<1> QED
  BY <1>7, <1>8

\* What others do to a comment leaves it a sequence of such parts.
LEMMA RespelledPart ==
    ASSUME NEW t, NEW part \in Part(t), Len(part) = 2
    PROVE  Respelled(part) \in Part(t)
<1>1. part \in KeyedPart(t)
  BY PartOfComment
<1> DEFINE k == part[1]
           v == part[2]
           w == Append(v, "alt")
<1>2. /\ k \in PartKey /\ v \in Seq(Value)
      /\ k = "project" => ProjectText(v)
      /\ k = "created" => TimeText(v, t)
  BY <1>1 DEF KeyedPart
<1>3. "alt" \in Value
  BY Words DEF Value
<1> HIDE DEF k, v
<1>4. /\ w \in Seq(Value) /\ Len(w) = Len(v) + 1 /\ DOMAIN w = 1 .. Len(v) + 1
      /\ \A i \in 1 .. Len(v) : w[i] = v[i]
      /\ w[Len(v) + 1] = "alt"
  BY <1>2, <1>3, AppendProperties, LenProperties
<1> HIDE DEF w
<1>5. Len(v) \in Nat
  BY <1>2, LenProperties
<1>6. ProjectText(w)
  <2>1. Len(v) + 1 \in DOMAIN w
    BY <1>4, <1>5
  <2> QED
    BY <1>4, <2>1 DEF ProjectText, Range
<1>7. ASSUME k = "created" PROVE TimeText(w, t)
  <2>1. PICK n \in Times : n <= t /\ v[1] = ToString(n)
    BY <1>2, <1>7, Zenon DEF TimeText
  <2>2. Len(v) >= 1
    BY <1>2, <1>7, Zenon DEF TimeText
  <2>3. Len(w) >= 1 /\ 1 \in 1 .. Len(v)
    BY <1>4, <1>5, <2>2
  <2>4. w[1] = v[1]
    BY <1>4, <2>3, Zenon
  <2> QED
    BY <2>1, <2>3, <2>4, Zenon DEF TimeText
<1>8. <<k, w>> \in Part(t)
  BY <1>2, <1>4, <1>6, <1>7, KeyValue, Zenon
<1> QED
  BY <1>8 DEF Respelled, k, v, w

LEMMA SequenceEdits ==
    ASSUME NEW S, NEW s \in Seq(S), NEW e \in S
    PROVE  /\ \A i \in 1 .. Len(s) : RemoveAt(s, i) \in Seq(S) /\ ReplaceAt(s, i, e) \in Seq(S)
           /\ Append(s, e) \in Seq(S) /\ Reverse(s) \in Seq(S)
<1>1. Len(s) \in Nat /\ \A i \in 1 .. Len(s) : s[i] \in S
  BY LenProperties, ElementOfSeq
<1>2. ASSUME NEW i \in 1 .. Len(s) PROVE RemoveAt(s, i) \in Seq(S)
  <2>1. SubSeq(s, 1, i - 1) \in Seq(S)
    BY <1>1, SubSeqProperties
  <2>2. SubSeq(s, i + 1, Len(s)) \in Seq(S)
    BY <1>1, SubSeqProperties
  <2> QED
    BY <2>1, <2>2, ConcatProperties DEF RemoveAt
<1>3. ASSUME NEW i \in 1 .. Len(s) PROVE ReplaceAt(s, i, e) \in Seq(S)
  BY ExceptSeq DEF ReplaceAt
<1>4. Reverse(s) \in Seq(S)
  <2>1. \A i \in 1 .. Len(s) : s[(Len(s) - i) + 1] \in S
    BY <1>1
  <2>2. Reverse(s) \in [1 .. Len(s) -> S]
    BY <2>1 DEF Reverse
  <2> QED
    BY <1>1, <2>2
<1> QED
  BY <1>2, <1>3, <1>4, AppendProperties

LEMMA EditedParts ==
    ASSUME NEW t, NEW text \in DOMAIN catalog, NEW parts \in Edited(text),
           \A other \in DOMAIN catalog : catalog[other].parts \in Seq(Part(t))
    PROVE  parts \in Seq(Part(t))
<1> DEFINE old == catalog[text].parts
<1>1. old \in Seq(Part(t))
  OBVIOUS
<1>2. DOMAIN old = 1 .. Len(old) /\ \A i \in 1 .. Len(old) : old[i] \in Part(t)
  BY <1>1, LenProperties, ElementOfSeq
<1>3. <<"junk">> \in Part(t)
  BY DEF Part
<1>4. <<"extra", <<"1">> >> \in Part(t)
  <2>1. "1" \in Value /\ "extra" \in PartKey /\ "extra" # "project" /\ "extra" # "created"
    BY DEF Value, PartKey
  <2>2. <<"1">> \in Seq(Value)
    BY <2>1, OneLong, Zenon
  <2> QED
    BY <2>1, <2>2, KeyValue, Zenon
<1>5. \/ \E i \in DOMAIN old : parts = RemoveAt(old, i)
      \/ \E i \in DOMAIN old : parts = Append(old, old[i])
      \/ \E i \in DOMAIN old : Len(old[i]) = 2 /\ parts = ReplaceAt(old, i, Respelled(old[i]))
      \/ parts = Append(old, <<"junk">>)
      \/ parts = Append(old, <<"extra", <<"1">> >>)
      \/ parts = Reverse(old)
      \/ \E other \in DOMAIN catalog : parts = catalog[other].parts
  BY Zenon DEF Edited
<1> HIDE DEF old
<1>6. ASSUME NEW i \in DOMAIN old, parts = RemoveAt(old, i) PROVE parts \in Seq(Part(t))
  BY <1>1, <1>2, <1>3, <1>6, SequenceEdits, Zenon
<1>7. ASSUME NEW i \in DOMAIN old, parts = Append(old, old[i]) PROVE parts \in Seq(Part(t))
  BY <1>1, <1>2, <1>7, SequenceEdits, Zenon
<1>8. ASSUME NEW i \in DOMAIN old, Len(old[i]) = 2, parts = ReplaceAt(old, i, Respelled(old[i]))
      PROVE  parts \in Seq(Part(t))
  <2>1. Respelled(old[i]) \in Part(t)
    BY <1>2, <1>8, RespelledPart, Zenon
  <2> QED
    BY <1>1, <1>2, <1>8, <2>1, SequenceEdits, Zenon
<1>9. /\ Append(old, <<"junk">>) \in Seq(Part(t))
      /\ Append(old, <<"extra", <<"1">> >>) \in Seq(Part(t))
      /\ Reverse(old) \in Seq(Part(t))
  BY <1>1, <1>3, <1>4, SequenceEdits, Zenon
<1> QED
  BY <1>5, <1>6, <1>7, <1>8, <1>9, Zenon

-----------------------------------------------------------------------------
(***************************************************************************)
(* The inductive invariant.                                                *)
(***************************************************************************)

\* The name of a database fits what it really is.
Describes(text, truth) ==
    \/ truth = Foreign /\ text \in ForeignNames
    \/ truth \in Tests /\ \E s \in TestSuffix : Spells(text, truth.project, "test", s)
    \/ truth \in Templates /\ Spells(text, truth.project, "template", ShortHex[truth.fingerprint])

IdentityInv ==
    /\ now \in Times /\ edits \in 0 .. MaxEdits
    /\ DOMAIN catalog \subseteq DOMAIN made
    /\ \A text \in DOMAIN made : Describes(text, made[text])
    /\ \A text \in DOMAIN catalog : catalog[text].parts \in Seq(Part(now))
    /\ \A d \in dropped : d.by \in Project /\ d.text \in DOMAIN made
    /\ SweepOwn

\* What the assumption on the constants says.
LEMMA Assumed ==
    ASSUME IdentityAssumption
    PROVE  /\ NamesAssumed
           /\ NoParent \notin Fingerprint /\ Parent \subseteq Fingerprint
           /\ \A project \in Project : ValidProject(project)
           /\ \A text \in ForeignNames, project \in Project : ~NameOf(text, project)
           /\ StaleAfter \in Nat /\ MaxTime \in Nat /\ MaxEdits \in Nat
           /\ \A m, n \in Times : ToString(m) = ToString(n) => m = n
           /\ "alt" \notin Key \cup Fingerprint \cup PrintedTimes
BY Zenon DEF IdentityAssumption, NamesAssumed

\* The three kinds of truth are told apart.
LEMMA Kinds ==
    /\ \A m \in Tests : m # Foreign /\ m # None /\ m.kind = "test" /\ m.project \in Project
    /\ \A m \in Templates : /\ m # Foreign /\ m # None /\ m.kind = "template"
                            /\ m.project \in Project /\ m.fingerprint \in Fingerprint
    /\ Foreign # None
BY DEF Tests, Templates, Foreign, None

\* A new entry of the catalog.
LEMMA Added ==
    ASSUME NEW f, NEW x, NEW v, NEW g, x \notin DOMAIN f,
           g = [name \in DOMAIN f \cup {x} |-> IF name = x THEN v ELSE f[name]]
    PROVE  DOMAIN g = DOMAIN f \cup {x} /\ g[x] = v /\ \A y \in DOMAIN f : g[y] = f[y]
OBVIOUS

\* A name that fits its database is recognised by its project, as what it is,
\* and by nobody else.
LEMMA DescribedName ==
    ASSUME IdentityAssumption, NEW text, NEW truth, Describes(text, truth), NEW project \in Project
    PROVE  IF truth = Foreign THEN FromExisting(project, text) = None
           ELSE IF truth.project # project THEN FromExisting(project, text) = None
           ELSE /\ FromExisting(project, text) = [text |-> text, kind |-> truth.kind]
                /\ FromExisting(project, text) # None
<1> DEFINE name == FromExisting(project, text)
<1>0. NamesAssumed
  BY Assumed
<1>p. project \in Seq(Symbol)
  BY <1>0 DEF NamesAssumed
<1>w. "test" \in Symbol /\ "template" \in Symbol /\ "test" # "template"
  BY Words
<1>1. CASE truth = Foreign /\ text \in ForeignNames
  <2> SUFFICES ASSUME name # None PROVE FALSE
    BY <1>1
  <2>1. text \in Seq(Symbol)
    BY <1>0, <1>1 DEF NamesAssumed
  <2>2. \/ \E s \in [1 .. TestLen -> Digits] : Spells(text, project, "test", s)
        \/ \E s \in [1 .. TemplateLen -> Digits] : Spells(text, project, "template", s)
    BY <1>0, <1>p, <2>1, Recognised, Zenon
  <2>3. NameOf(text, project)
    BY <2>2, Zenon DEF NameOf, Spells
  <2> QED
    BY <1>1, <2>3, Assumed, Zenon
<1>2. ASSUME NEW k \in {"test", "template"}, truth # Foreign, truth.kind = k, truth.project \in Project,
             NEW n \in {TestLen, TemplateLen}, k = "test" => n = TestLen, k = "template" => n = TemplateLen,
             NEW s \in [1 .. n -> Digits], Spells(text, truth.project, k, s)
      PROVE  IF truth.project # project THEN name = None
             ELSE name = [text |-> text, kind |-> truth.kind] /\ name # None
  <2>1. n \in Nat /\ truth.project \in Seq(Symbol) /\ k \in Symbol
    BY <1>0, <1>2, <1>w DEF NamesAssumed
  <2>2. s \in Seq(Symbol) /\ Unmarked(s)
    BY <1>0, <2>1, SuffixText, Zenon
  <2>3. text \in Seq(Symbol)
    <3>1. NameParts(text, truth.project, k, s)
      BY <1>2, <2>1, <2>2, NameShape, Zenon
    <3> QED
      BY <3>1 DEF NameParts
  <2>4. ASSUME name # None PROVE truth.project = project
    <3>1. PICK j \in {"test", "template"}, m \in {TestLen, TemplateLen} :
            \E u \in [1 .. m -> Digits] : Spells(text, project, j, u)
      BY <1>0, <1>p, <2>3, <2>4, Recognised, Zenon
    <3>2. PICK u \in [1 .. m -> Digits] : Spells(text, project, j, u)
      BY <3>1
    <3>3. m \in Nat /\ j \in Symbol
      BY <1>0, <1>w DEF NamesAssumed
    <3>4. u \in Seq(Symbol) /\ Unmarked(u)
      BY <1>0, <3>3, SuffixText, Zenon
    <3> DEFINE own == truth.project
    <3>5. own \in Seq(Symbol) /\ Spells(text, own, k, s)
      BY <1>2, <2>1, Zenon
    <3> HIDE DEF own
    <3>6. own = project
      BY <1>p, <2>1, <2>2, <3>2, <3>3, <3>4, <3>5, NameUnique
    <3> QED
      BY <3>6 DEF own
  <2>5. ASSUME truth.project = project
        PROVE  name = [text |-> text, kind |-> truth.kind]
    <3>1. CASE k = "test"
      BY <1>0, <1>p, <1>2, <2>5, <3>1, OwnTest, Zenon
    <3>2. CASE k = "template"
      BY <1>0, <1>p, <1>2, <2>5, <3>2, OwnTemplate, Zenon
    <3> QED
      BY <3>1, <3>2
  <2>6. [text |-> text, kind |-> k] # None
    BY DEF None
  <2> QED
    BY <1>2, <2>4, <2>5, <2>6, Zenon
<1>3. CASE truth \in Tests /\ \E s \in TestSuffix : Spells(text, truth.project, "test", s)
  <2>1. PICK s \in TestSuffix : Spells(text, truth.project, "test", s)
    BY <1>3
  <2>2. s \in [1 .. TestLen -> Digits]
    BY <1>0 DEF NamesAssumed
  <2>3. truth # Foreign /\ truth.kind = "test" /\ truth.project \in Project
    BY <1>3, Kinds
  <2> QED
    BY <1>2, <1>w, <2>1, <2>2, <2>3, Zenon
<1>4. CASE truth \in Templates /\ Spells(text, truth.project, "template", ShortHex[truth.fingerprint])
  <2>1. truth # Foreign /\ truth.kind = "template" /\ truth.project \in Project
    BY <1>4, Kinds
  <2>2. ShortHex[truth.fingerprint] \in [1 .. TemplateLen -> Digits]
    BY <1>0, <1>4, Kinds DEF NamesAssumed
  <2> QED
    BY <1>2, <1>4, <1>w, <2>1, <2>2, Zenon
<1> QED
  BY <1>1, <1>3, <1>4 DEF Describes

\* See NamesDisjoint.
LEMMA InvNames ==
    ASSUME IdentityAssumption, IdentityInv
    PROVE  NamesDisjoint
<1> SUFFICES ASSUME NEW text \in DOMAIN made, NEW project \in Project
             PROVE  LET name == FromExisting(project, text)
                    IN  IF made[text] = Foreign THEN name = None
                        ELSE IF made[text].project # project THEN name = None
                        ELSE name # None /\ name.kind = made[text].kind
  BY DEF NamesDisjoint
<1>1. Describes(text, made[text])
  BY DEF IdentityInv
<1> DEFINE name == FromExisting(project, text)
           k == made[text].kind
<1>2. IF made[text] = Foreign THEN name = None
      ELSE IF made[text].project # project THEN name = None
      ELSE name = [text |-> text, kind |-> k] /\ name # None
  BY <1>1, DescribedName, Zenon
<1> HIDE DEF name, k
<1>3. name = [text |-> text, kind |-> k] => name.kind = k
  OBVIOUS
<1> QED
  BY <1>2, <1>3, Zenon DEF name, k

\* Parts stay what they are as time goes on.
LEMMA PartsGrow ==
    ASSUME NEW t \in Times, NEW u \in Times, t <= u, NEW parts \in Seq(Part(t))
    PROVE  parts \in Seq(Part(u))
<1>1. ASSUME NEW v, TimeText(v, t) PROVE TimeText(v, u)
  <2>1. PICK n \in Times : n <= t /\ v[1] = ToString(n)
    BY <1>1, Zenon DEF TimeText
  <2>2. n <= u
    BY <2>1 DEF Times
  <2> QED
    BY <1>1, <2>1, <2>2, Zenon DEF TimeText
<1>2. Part(t) \subseteq Part(u)
  BY <1>1, Zenon DEF Part, KeyedPart
<1> QED
  BY <1>2, SeqMonotonic

\* One new database.
LEMMA CreateStep ==
    ASSUME IdentityAssumption, IdentityInv, NEW text, NEW comment, NEW truth,
           Create(text, comment, truth), Describes(text, truth), comment.parts \in Seq(Part(now))
    PROVE  IdentityInv'
<1>1. /\ text \notin DOMAIN made /\ text \notin DOMAIN catalog
      /\ UNCHANGED <<dropped, now, edits>>
  BY DEF Create, IdentityInv
<1>2. DOMAIN made' = DOMAIN made \cup {text} /\ made'[text] = truth /\ \A y \in DOMAIN made : made'[y] = made[y]
  <2>1. made' = [name \in DOMAIN made \cup {text} |-> IF name = text THEN truth ELSE made[name]]
    BY DEF Create
  <2> QED
    BY <1>1, <2>1, Added, Zenon
<1>3. /\ DOMAIN catalog' = DOMAIN catalog \cup {text} /\ catalog'[text] = comment
      /\ \A y \in DOMAIN catalog : catalog'[y] = catalog[y]
  <2>1. catalog' = [name \in DOMAIN catalog \cup {text} |-> IF name = text THEN comment ELSE catalog[name]]
    BY DEF Create
  <2> QED
    BY <1>1, <2>1, Added, Zenon
<1>4. /\ now' \in Times /\ edits' \in 0 .. MaxEdits
      /\ DOMAIN catalog' \subseteq DOMAIN made'
      /\ \A d \in dropped' : d.by \in Project /\ d.text \in DOMAIN made'
  BY <1>1, <1>2, <1>3, Zenon DEF IdentityInv
<1>5. \A y \in DOMAIN made' : Describes(y, made'[y])
  BY <1>2, Zenon DEF IdentityInv
<1>6. \A y \in DOMAIN catalog' : catalog'[y].parts \in Seq(Part(now'))
  BY <1>1, <1>3, Zenon DEF IdentityInv
<1>7. SweepOwn'
  <2>1. \A d \in dropped : d.text \in DOMAIN made /\ made'[d.text] = made[d.text]
    BY <1>2, Zenon DEF IdentityInv
  <2> SUFFICES ASSUME NEW d \in dropped
               PROVE  /\ made[d.text] # Foreign /\ made[d.text].project = d.by
                      /\ Parse(d.comment) # None /\ Parse(d.comment).project = d.by
                      /\ Parse(d.comment).kind = made[d.text].kind
                      /\ Parse(d.comment).created + StaleAfter <= d.at
                      /\ Parse(d.comment).kind = "template" =>
                            ShortHex[Parse(d.comment).fingerprint] = ShortHex[made[d.text].fingerprint]
    BY <1>1, <2>1, Zenon DEF SweepOwn
  <2> QED
    BY Zenon DEF IdentityInv, SweepOwn
<1> QED
  BY <1>4, <1>5, <1>6, <1>7 DEF IdentityInv

\* attempt_managed_database_creation for a test.
LEMMA CreateTestStep ==
    ASSUME IdentityAssumption, IdentityInv, CreateTest
    PROVE  IdentityInv'
<1>1. PICK project \in Project, suffix \in TestSuffix, key \in Key :
        LET metadata == [kind |-> "test", project |-> project, lock |-> key, created |-> now]
        IN  Create(TestName(project, suffix), Tag(metadata), metadata)
  BY DEF CreateTest
<1> DEFINE m == [kind |-> "test", project |-> project, lock |-> key, created |-> now]
           text == TestName(project, suffix)
<1>2. Create(text, Tag(m), m)
  BY <1>1
<1>3. now \in Times
  BY DEF IdentityInv
<1>4. m \in Tests /\ m.project = project /\ m.created = now
  BY <1>3 DEF Tests
<1> HIDE DEF m
<1>5. Describes(text, m)
  BY <1>4, Zenon DEF Describes, Spells, TestName
<1>6. Tag(m).parts = Encode(m)
  BY DEF Tag
<1>7. Project \subseteq Seq(Symbol)
  BY Assumed, Zenon DEF NamesAssumed
<1>n. now <= now
  BY <1>3 DEF Times
<1>8. Tag(m).parts \in Seq(Part(now))
  BY <1>3, <1>4, <1>6, <1>7, <1>n, TagParts
<1> QED
  BY <1>2, <1>5, <1>8, CreateStep, Zenon

\* The same for a template.
LEMMA CreateTemplateStep ==
    ASSUME IdentityAssumption, IdentityInv, CreateTemplate
    PROVE  IdentityInv'
<1>1. PICK project \in Project, f \in Fingerprint, parent \in Parent \cup {NoParent}, key \in Key,
           state \in {"initializing", "ready"} :
        LET metadata == [kind |-> "template", project |-> project, lock |-> key,
                         created |-> now, fingerprint |-> f, parent |-> parent,
                         state |-> state]
        IN  Create(TemplateName(project, f), Tag(metadata), metadata)
  BY DEF CreateTemplate
<1> DEFINE m == [kind |-> "template", project |-> project, lock |-> key, created |-> now,
                 fingerprint |-> f, parent |-> parent, state |-> state]
           text == TemplateName(project, f)
<1>2. Create(text, Tag(m), m)
  BY <1>1
<1>3. now \in Times /\ parent \in Fingerprint \cup {NoParent}
  BY Assumed DEF IdentityInv
<1>4. m \in Templates /\ m.project = project /\ m.created = now /\ m.fingerprint = f
  BY <1>3 DEF Templates
<1> HIDE DEF m
<1>5. Describes(text, m)
  BY <1>4, Zenon DEF Describes, Spells, TemplateName
<1>6. Tag(m).parts = Encode(m)
  BY DEF Tag
<1>7. Project \subseteq Seq(Symbol)
  BY Assumed, Zenon DEF NamesAssumed
<1>n. now <= now
  BY <1>3 DEF Times
<1>8. Tag(m).parts \in Seq(Part(now))
  BY <1>3, <1>4, <1>6, <1>7, <1>n, TagParts
<1> QED
  BY <1>2, <1>5, <1>8, CreateStep, Zenon

\* A database of someone else.
LEMMA CreateForeignStep ==
    ASSUME IdentityAssumption, IdentityInv, CreateForeign
    PROVE  IdentityInv'
<1>1. PICK text \in ForeignNames : Create(text, Untagged, Foreign)
  BY DEF CreateForeign
<1>2. Describes(text, Foreign)
  BY Zenon DEF Describes
<1>3. Untagged.parts \in Seq(Part(now))
  <2>1. Untagged.parts = << >>
    BY DEF Untagged
  <2> QED
    BY <2>1, EmptySeq, Zenon
<1> QED
  BY <1>1, <1>2, <1>3, CreateStep, Zenon

\* A comment changed by others.
LEMMA EditStep ==
    ASSUME IdentityAssumption, IdentityInv, EditComment
    PROVE  IdentityInv'
<1>0. PICK text \in DOMAIN catalog, prefix \in BOOLEAN : \E parts \in Edited(text) :
        catalog' = [catalog EXCEPT ![text] = [prefix |-> prefix, parts |-> parts]]
  BY DEF EditComment
<1>1. PICK parts \in Edited(text) :
        catalog' = [catalog EXCEPT ![text] = [prefix |-> prefix, parts |-> parts]]
  BY <1>0
<1>2. edits < MaxEdits /\ edits' = edits + 1 /\ UNCHANGED <<made, dropped, now>>
  BY DEF EditComment
<1>3. parts \in Seq(Part(now))
  BY EditedParts, Zenon DEF IdentityInv
<1>4. edits' \in 0 .. MaxEdits
  BY <1>2, Assumed DEF IdentityInv
<1> DEFINE new == [prefix |-> prefix, parts |-> parts]
<1>5. new.parts = parts
  OBVIOUS
<1> HIDE DEF new
<1>6. /\ DOMAIN catalog' = DOMAIN catalog
      /\ \A y \in DOMAIN catalog :
          catalog'[y] = IF y = text THEN new ELSE catalog[y]
  BY <1>1 DEF new
<1>7. \A y \in DOMAIN catalog' : catalog'[y].parts \in Seq(Part(now'))
  BY <1>2, <1>3, <1>5, <1>6, Zenon DEF IdentityInv
<1>8. SweepOwn'
  BY <1>2, Zenon DEF IdentityInv, SweepOwn
<1> QED
  BY <1>2, <1>4, <1>6, <1>7, <1>8, Zenon DEF IdentityInv

\* Time passes.
LEMMA TickStep ==
    ASSUME IdentityAssumption, IdentityInv, Tick
    PROVE  IdentityInv'
<1>1. now < MaxTime /\ now' = now + 1 /\ UNCHANGED <<catalog, made, dropped, edits>>
  BY DEF Tick
<1>2. now \in Times /\ now' \in Times /\ now <= now'
  BY <1>1, Assumed DEF IdentityInv, Times
<1>3. \A y \in DOMAIN catalog' : catalog'[y].parts \in Seq(Part(now'))
  BY <1>1, <1>2, PartsGrow, Zenon DEF IdentityInv
<1>4. SweepOwn'
  BY <1>1, Zenon DEF IdentityInv, SweepOwn
<1> QED
  BY <1>1, <1>2, <1>3, <1>4, Zenon DEF IdentityInv

\* What a candidate of a sweep is.
LEMMA Candidate ==
    ASSUME NEW project, NEW text, NEW comment, NEW time,
           Classify(project, text, comment, time) = "candidate"
    PROVE  /\ FromExisting(project, text) # None
           /\ Parse(comment) # None
           /\ Parse(comment).project = project
           /\ MatchesName(Parse(comment), FromExisting(project, text))
           /\ StaleAt(Parse(comment), time)
<1> DEFINE name == FromExisting(project, text)
           metadata == Parse(comment)
<1>1. Classify(project, text, comment, time) =
        IF name = None THEN "ignore"
        ELSE IF metadata = None THEN "unrecognized"
        ELSE IF metadata.project # project \/ ~MatchesName(metadata, name) THEN "unrecognized"
        ELSE IF ~StaleAt(metadata, time) THEN "fresh"
        ELSE "candidate"
  BY Zenon DEF Classify
<1> HIDE DEF name, metadata
<1>2. "ignore" # "candidate" /\ "unrecognized" # "candidate" /\ "fresh" # "candidate"
  OBVIOUS
<1> QED
  BY <1>1, <1>2, Zenon DEF name, metadata

\* Two templates of one project with one name have the same short fingerprint.
LEMMA SameShortHex ==
    ASSUME NamesAssumed, NEW project \in Project, NEW f \in Fingerprint, NEW g \in Fingerprint, NEW text,
           text = TemplateName(project, f), Spells(text, project, "template", ShortHex[g])
    PROVE  ShortHex[f] = ShortHex[g]
<1> DEFINE s == ShortHex[f]
           t == ShortHex[g]
<1>1. s \in [1 .. TemplateLen -> Digits] /\ t \in [1 .. TemplateLen -> Digits] /\ TemplateLen \in Nat
  BY DEF NamesAssumed
<1>2. Spells(text, project, "template", s) /\ Spells(text, project, "template", t)
  BY Zenon DEF Spells, TemplateName
<1> HIDE DEF s, t
<1>3. s \in Seq(Symbol) /\ Unmarked(s) /\ t \in Seq(Symbol) /\ Unmarked(t)
  BY <1>1, SuffixText, Zenon
<1>4. project \in Seq(Symbol) /\ "template" \in Symbol
  BY Words DEF NamesAssumed
<1>5. s = t
  BY <1>2, <1>3, <1>4, NameUnique
<1> QED
  BY <1>5 DEF s, t

\* cleanup_stale_blocking.
LEMMA SweepStep ==
    ASSUME IdentityAssumption, IdentityInv, NEW project \in Project, Sweep(project)
    PROVE  IdentityInv'
<1> DEFINE candidates == {text \in DOMAIN catalog :
                              Classify(project, text, catalog[text], now) = "candidate"}
           new == {[by |-> project, text |-> text, comment |-> catalog[text], at |-> now] :
                       text \in candidates}
<1>1. /\ catalog' = [text \in DOMAIN catalog \ candidates |-> catalog[text]]
      /\ dropped' = dropped \cup new
      /\ UNCHANGED <<made, now, edits>>
  BY DEF Sweep
<1>2. /\ DOMAIN catalog' \subseteq DOMAIN catalog
      /\ \A y \in DOMAIN catalog' : catalog'[y] = catalog[y]
  BY <1>1
<1>3. ASSUME NEW text \in candidates
      PROVE  /\ text \in DOMAIN made
             /\ made[text] # Foreign /\ made[text].project = project
             /\ Parse(catalog[text]) # None /\ Parse(catalog[text]).project = project
             /\ Parse(catalog[text]).kind = made[text].kind
             /\ Parse(catalog[text]).created + StaleAfter <= now
             /\ Parse(catalog[text]).kind = "template" =>
                    ShortHex[Parse(catalog[text]).fingerprint] = ShortHex[made[text].fingerprint]
  <2> DEFINE claim == Parse(catalog[text])
             truth == made[text]
             name == FromExisting(project, text)
  <2>1. /\ name # None /\ claim # None /\ claim.project = project
        /\ MatchesName(claim, name) /\ StaleAt(claim, now)
    <3>1. Classify(project, text, catalog[text], now) = "candidate"
      OBVIOUS
    <3> HIDE DEF claim, name
    <3>2. /\ FromExisting(project, text) # None
          /\ Parse(catalog[text]) # None
          /\ Parse(catalog[text]).project = project
          /\ MatchesName(Parse(catalog[text]), FromExisting(project, text))
          /\ StaleAt(Parse(catalog[text]), now)
      BY <3>1, Candidate
    <3> QED
      BY <3>2 DEF claim, name
  <2>2. text \in DOMAIN catalog /\ text \in DOMAIN made /\ Describes(text, truth)
    BY <1>3, Zenon DEF IdentityInv
  <2>3. /\ truth # Foreign /\ truth.project = project
        /\ name = [text |-> text, kind |-> truth.kind]
    BY <2>1, <2>2, DescribedName, Zenon
  <2>4. catalog[text].parts \in Seq(Part(now)) /\ now \in Times
    BY <2>2, Zenon DEF IdentityInv
  <2>5. \A m, n \in Times : ToString(m) = ToString(n) => m = n
    BY Assumed, Zenon
  <2>6. claim \in Tests \cup Templates /\ claim.created <= now
    BY <2>1, <2>4, <2>5, ParsedTyped, Zenon
  <2> HIDE DEF claim, truth, name
  <2>7. name.kind = truth.kind /\ name.text = text
    BY <2>3
  <2>8. claim.kind = truth.kind
    BY <2>1, <2>7, Zenon DEF MatchesName
  <2>9. claim.created + StaleAfter <= now
    <3>1. claim.created \in Times
      BY <2>6 DEF Tests, Templates
    <3>2. StaleAfter \in Nat /\ MaxTime \in Nat
      BY Assumed, Zenon
    <3> DEFINE c == claim.created
    <3>3. (IF now < c THEN 0 ELSE now - c) >= StaleAfter
      BY <2>1 DEF StaleAt
    <3>4. c \in Times /\ c <= now
      BY <2>6, <3>1
    <3> HIDE DEF c
    <3>5. c + StaleAfter <= now
      BY <2>4, <3>2, <3>3, <3>4 DEF Times
    <3> QED
      BY <3>5 DEF c
  <2>10. ASSUME claim.kind = "template" PROVE ShortHex[claim.fingerprint] = ShortHex[truth.fingerprint]
    <3>1. claim.fingerprint \in Fingerprint
      <4>1. claim \notin Tests
        BY <2>10, Kinds
      <4> QED
        BY <2>6, <4>1, Kinds, Zenon
    <3>2. /\ truth.fingerprint \in Fingerprint
          /\ Spells(text, project, "template", ShortHex[truth.fingerprint])
      <4>1. truth.kind = "template" /\ "template" # "test"
        BY <2>8, <2>10
      <4>2. truth \notin Tests
        BY <4>1, Kinds, Zenon
      <4> QED
        BY <2>2, <2>3, <4>2, Kinds, Zenon DEF Describes
    <3>3. text = TemplateName(project, claim.fingerprint)
      BY <2>1, <2>7, <2>10, Zenon DEF MatchesName
    <3>4. NamesAssumed
      BY Assumed, Zenon
    <3> QED
      BY <3>1, <3>2, <3>3, <3>4, SameShortHex, Zenon
  <2> QED
    BY <2>1, <2>2, <2>3, <2>8, <2>9, <2>10, Zenon DEF claim, truth
<1>4. ASSUME NEW d \in new
      PROVE  \E text \in candidates :
                 d.by = project /\ d.text = text /\ d.comment = catalog[text] /\ d.at = now
  <2>1. PICK text \in candidates :
          d = [by |-> project, text |-> text, comment |-> catalog[text], at |-> now]
    BY <1>4, Zenon
  <2> HIDE DEF candidates
  <2> QED
    BY <2>1
<1> HIDE DEF candidates, new
<1>5. \A d \in dropped' : d.by \in Project /\ d.text \in DOMAIN made'
  <2>1. ASSUME NEW d \in new PROVE d.by \in Project /\ d.text \in DOMAIN made'
    BY <1>1, <1>3, <1>4, Zenon
  <2> QED
    BY <1>1, <2>1, Zenon DEF IdentityInv
<1>6. \A y \in DOMAIN catalog' : catalog'[y].parts \in Seq(Part(now'))
  BY <1>1, <1>2, Zenon DEF IdentityInv
<1>7. SweepOwn'
  <2> SUFFICES ASSUME NEW d \in dropped'
               PROVE  /\ made[d.text] # Foreign /\ made[d.text].project = d.by
                      /\ Parse(d.comment) # None /\ Parse(d.comment).project = d.by
                      /\ Parse(d.comment).kind = made[d.text].kind
                      /\ Parse(d.comment).created + StaleAfter <= d.at
                      /\ Parse(d.comment).kind = "template" =>
                            ShortHex[Parse(d.comment).fingerprint] = ShortHex[made[d.text].fingerprint]
    BY <1>1, Zenon DEF SweepOwn
  <2>1. CASE d \in dropped
    BY <2>1, Zenon DEF IdentityInv, SweepOwn
  <2>2. CASE d \in new
    <3>1. PICK text \in candidates :
            d.by = project /\ d.text = text /\ d.comment = catalog[text] /\ d.at = now
      BY <1>4, <2>2, Zenon
    <3> QED
      BY <1>3, <3>1, Zenon
  <2> QED
    BY <1>1, <2>1, <2>2, Zenon
<1>8. /\ now' \in Times /\ edits' \in 0 .. MaxEdits
      /\ DOMAIN catalog' \subseteq DOMAIN made'
      /\ \A y \in DOMAIN made' : Describes(y, made'[y])
  BY <1>1, <1>2, Zenon DEF IdentityInv
<1> QED
  BY <1>5, <1>6, <1>7, <1>8, Zenon DEF IdentityInv

LEMMA IdentityStart ==
    ASSUME IdentityAssumption, NamesInit
    PROVE  IdentityInv
<1>1. MaxTime \in Nat /\ MaxEdits \in Nat
  BY Assumed, Zenon
<1>2. now \in Times /\ edits \in 0 .. MaxEdits
  BY <1>1 DEF NamesInit, Times
<1>3. DOMAIN catalog = {} /\ DOMAIN made = {} /\ dropped = {}
  BY DEF NamesInit
<1> QED
  BY <1>2, <1>3, Zenon DEF IdentityInv, SweepOwn

LEMMA IdentityStep ==
    ASSUME IdentityAssumption, IdentityInv, [NamesNext]_namesVars
    PROVE  IdentityInv'
<1>1. CASE CreateTest
  BY <1>1, CreateTestStep
<1>2. CASE CreateTemplate
  BY <1>2, CreateTemplateStep
<1>3. CASE CreateForeign
  BY <1>3, CreateForeignStep
<1>4. CASE EditComment
  BY <1>4, EditStep
<1>5. CASE \E project \in Project : Sweep(project)
  BY <1>5, SweepStep, Zenon
<1>6. CASE Tick
  BY <1>6, TickStep
<1>7. CASE UNCHANGED namesVars
  BY <1>7, Zenon DEF namesVars, IdentityInv, SweepOwn
<1> QED
  BY <1>1, <1>2, <1>3, <1>4, <1>5, <1>6, <1>7, Zenon DEF NamesNext

\* Whatever the names of the projects, and however they extend one another:
\* the name of a database is recognised by the project that gave it, as what it
\* is, and by no other (DatabaseName::from_existing).
THEOREM NamesOfOneProject ==
    ASSUME IdentityAssumption
    PROVE  NamesSpec => []NamesDisjoint
<1>1. NamesInit => IdentityInv
  BY IdentityStart
<1>2. IdentityInv /\ [NamesNext]_namesVars => IdentityInv'
  BY IdentityStep
<1>3. IdentityInv => NamesDisjoint
  BY InvNames
<1> QED
  BY <1>1, <1>2, <1>3, PTL DEF NamesSpec

\* Whatever happened to comments, a sweep drops only what its own project made
\* and what is old enough (classify_cleanup_record), StaleAfter = 0 included.
THEOREM SweepsOfOneProject ==
    ASSUME IdentityAssumption
    PROVE  NamesSpec => []SweepOwn
<1>1. NamesInit => IdentityInv
  BY IdentityStart
<1>2. IdentityInv /\ [NamesNext]_namesVars => IdentityInv'
  BY IdentityStep
<1>3. IdentityInv => SweepOwn
  BY DEF IdentityInv
<1> QED
  BY <1>1, <1>2, <1>3, PTL DEF NamesSpec

-----------------------------------------------------------------------------
(***************************************************************************)
(* Comments are read back, and nothing else is read.                       *)
(***************************************************************************)

\* The parts are those of the fields, each once.
Plain(parts, fields) ==
    /\ DistinctKeys(parts)
    /\ \A i \in DOMAIN parts : Len(parts[i]) # 1
    /\ Fields(parts) = fields

\* The fields of the parts of a test.
LEMMA TestRecord ==
    ASSUME NEW v1, NEW v2, NEW v3, NEW v4
    PROVE  Plain(<< <<"kind", v1>>, <<"project", v2>>, <<"owner", v3>>, <<"created", v4>> >>,
                 [kind |-> v1, project |-> v2, owner |-> v3, created |-> v4])
<1> DEFINE k1 == "kind"
           k2 == "project"
           k3 == "owner"
           k4 == "created"
           S == {<<k1, v1>>, <<k2, v2>>, <<k3, v3>>, <<k4, v4>>}
           parts == << <<k1, v1>>, <<k2, v2>>, <<k3, v3>>, <<k4, v4>> >>
<1>0. /\ k1 # k2 /\ k1 # k3 /\ k1 # k4
      /\ k2 # k3 /\ k2 # k4
      /\ k3 # k4
  OBVIOUS
<1> HIDE DEF k1, k2, k3, k4
<1>1. parts \in Seq(S)
  OBVIOUS
<1>2. Len(parts) = 4 /\ DOMAIN parts = 1 .. 4
  OBVIOUS
<1>3. /\ parts[1][1] = k1 /\ parts[1][2] = v1 /\ Len(parts[1]) = 2
      /\ parts[2][1] = k2 /\ parts[2][2] = v2 /\ Len(parts[2]) = 2
      /\ parts[3][1] = k3 /\ parts[3][2] = v3 /\ Len(parts[3]) = 2
      /\ parts[4][1] = k4 /\ parts[4][2] = v4 /\ Len(parts[4]) = 2
  OBVIOUS
<1> HIDE DEF S, parts
<1>4. \A i \in 1 .. 4 : i = 1 \/ i = 2 \/ i = 3 \/ i = 4
  OBVIOUS
<1>5. DistinctKeys(parts)
  BY <1>0, <1>2, <1>3, <1>4 DEF DistinctKeys
<1>6. \A i \in DOMAIN parts : Len(parts[i]) # 1
  BY <1>2, <1>3, <1>4
<1>7. DOMAIN Fields(parts) = {k1, k2, k3, k4}
  <2>1. DOMAIN Fields(parts) = {parts[i][1] : i \in 1 .. 4}
    BY <1>2 DEF Fields
  <2> QED
    BY <1>3, <1>4, <2>1
<1>8. \A i \in 1 .. 4 : Fields(parts)[parts[i][1]] = parts[i][2]
  <2>1. \A i \in 1 .. Len(parts) : Fields(parts)[parts[i][1]] = parts[i][2]
    BY <1>1, <1>5, FieldValue, Zenon
  <2> QED
    BY <1>2, <2>1
<1>9. 1 \in 1 .. 4 /\ 2 \in 1 .. 4 /\ 3 \in 1 .. 4 /\ 4 \in 1 .. 4
  OBVIOUS
<1>10. Fields(parts)[k1] = v1 /\ Fields(parts)[k2] = v2 /\ Fields(parts)[k3] = v3 /\ Fields(parts)[k4] = v4
  BY <1>3, <1>8, <1>9, Zenon
<1>11. Fields(parts) = [key \in DOMAIN Fields(parts) |-> Fields(parts)[key]]
  BY DEF Fields
<1>12. Fields(parts) = [kind |-> v1, project |-> v2, owner |-> v3, created |-> v4]
  BY <1>7, <1>10, <1>11 DEF k1, k2, k3, k4
<1> QED
  BY <1>5, <1>6, <1>12 DEF Plain, parts, k1, k2, k3, k4

\* The fields of the parts of a template.
LEMMA RootRecord ==
    ASSUME NEW v1, NEW v2, NEW v3, NEW v4, NEW v5, NEW v6
    PROVE  Plain(<< <<"kind", v1>>, <<"project", v2>>, <<"lock", v3>>, <<"fingerprint", v4>>,
                    <<"state", v5>>, <<"created", v6>> >>,
                 [kind |-> v1, project |-> v2, lock |-> v3, fingerprint |-> v4, state |-> v5,
                  created |-> v6])
<1> DEFINE k1 == "kind"
           k2 == "project"
           k3 == "lock"
           k4 == "fingerprint"
           k5 == "state"
           k6 == "created"
           S == {<<k1, v1>>, <<k2, v2>>, <<k3, v3>>, <<k4, v4>>, <<k5, v5>>, <<k6, v6>>}
           parts == << <<k1, v1>>, <<k2, v2>>, <<k3, v3>>, <<k4, v4>>, <<k5, v5>>, <<k6, v6>> >>
<1>0. /\ k1 # k2 /\ k1 # k3 /\ k1 # k4 /\ k1 # k5 /\ k1 # k6
      /\ k2 # k3 /\ k2 # k4 /\ k2 # k5 /\ k2 # k6
      /\ k3 # k4 /\ k3 # k5 /\ k3 # k6
      /\ k4 # k5 /\ k4 # k6
      /\ k5 # k6
  OBVIOUS
<1> HIDE DEF k1, k2, k3, k4, k5, k6
<1>1. parts \in Seq(S)
  OBVIOUS
<1>2. Len(parts) = 6 /\ DOMAIN parts = 1 .. 6
  OBVIOUS
<1>3. /\ parts[1][1] = k1 /\ parts[1][2] = v1 /\ Len(parts[1]) = 2
      /\ parts[2][1] = k2 /\ parts[2][2] = v2 /\ Len(parts[2]) = 2
      /\ parts[3][1] = k3 /\ parts[3][2] = v3 /\ Len(parts[3]) = 2
      /\ parts[4][1] = k4 /\ parts[4][2] = v4 /\ Len(parts[4]) = 2
      /\ parts[5][1] = k5 /\ parts[5][2] = v5 /\ Len(parts[5]) = 2
      /\ parts[6][1] = k6 /\ parts[6][2] = v6 /\ Len(parts[6]) = 2
  OBVIOUS
<1> HIDE DEF S, parts
<1>4. \A i \in 1 .. 6 : i = 1 \/ i = 2 \/ i = 3 \/ i = 4 \/ i = 5 \/ i = 6
  OBVIOUS
<1>5. DistinctKeys(parts)
  BY <1>0, <1>2, <1>3, <1>4 DEF DistinctKeys
<1>6. \A i \in DOMAIN parts : Len(parts[i]) # 1
  BY <1>2, <1>3, <1>4
<1>7. DOMAIN Fields(parts) = {k1, k2, k3, k4, k5, k6}
  <2>1. DOMAIN Fields(parts) = {parts[i][1] : i \in 1 .. 6}
    BY <1>2 DEF Fields
  <2> QED
    BY <1>3, <1>4, <2>1
<1>8. \A i \in 1 .. 6 : Fields(parts)[parts[i][1]] = parts[i][2]
  <2>1. \A i \in 1 .. Len(parts) : Fields(parts)[parts[i][1]] = parts[i][2]
    BY <1>1, <1>5, FieldValue, Zenon
  <2> QED
    BY <1>2, <2>1
<1>9. 1 \in 1 .. 6 /\ 2 \in 1 .. 6 /\ 3 \in 1 .. 6 /\ 4 \in 1 .. 6 /\ 5 \in 1 .. 6 /\ 6 \in 1 .. 6
  OBVIOUS
<1>10. /\ Fields(parts)[k1] = v1 /\ Fields(parts)[k2] = v2 /\ Fields(parts)[k3] = v3
       /\ Fields(parts)[k4] = v4
       /\ Fields(parts)[k5] = v5 /\ Fields(parts)[k6] = v6
  BY <1>3, <1>8, <1>9, Zenon
<1>11. Fields(parts) = [key \in DOMAIN Fields(parts) |-> Fields(parts)[key]]
  BY DEF Fields
<1>12. Fields(parts) = [kind |-> v1, project |-> v2, lock |-> v3, fingerprint |-> v4, state |-> v5, created |-> v6]
  BY <1>7, <1>10, <1>11 DEF k1, k2, k3, k4, k5, k6
<1> QED
  BY <1>5, <1>6, <1>12 DEF Plain, parts, k1, k2, k3, k4, k5, k6

\* The fields of the parts of a derived template.
LEMMA DerivedRecord ==
    ASSUME NEW v1, NEW v2, NEW v3, NEW v4, NEW v5, NEW v6, NEW v7
    PROVE  Plain(<< <<"kind", v1>>, <<"project", v2>>, <<"lock", v3>>, <<"fingerprint", v4>>,
                    <<"parent", v5>>, <<"state", v6>>, <<"created", v7>> >>,
                 [kind |-> v1, project |-> v2, lock |-> v3, fingerprint |-> v4, parent |-> v5,
                  state |-> v6, created |-> v7])
<1> DEFINE k1 == "kind"
           k2 == "project"
           k3 == "lock"
           k4 == "fingerprint"
           k5 == "parent"
           k6 == "state"
           k7 == "created"
           S == {<<k1, v1>>, <<k2, v2>>, <<k3, v3>>, <<k4, v4>>, <<k5, v5>>, <<k6, v6>>, <<k7, v7>>}
           parts == << <<k1, v1>>, <<k2, v2>>, <<k3, v3>>, <<k4, v4>>, <<k5, v5>>, <<k6, v6>>, <<k7, v7>> >>
<1>0. /\ k1 # k2 /\ k1 # k3 /\ k1 # k4 /\ k1 # k5 /\ k1 # k6 /\ k1 # k7
      /\ k2 # k3 /\ k2 # k4 /\ k2 # k5 /\ k2 # k6 /\ k2 # k7
      /\ k3 # k4 /\ k3 # k5 /\ k3 # k6 /\ k3 # k7
      /\ k4 # k5 /\ k4 # k6 /\ k4 # k7
      /\ k5 # k6 /\ k5 # k7
      /\ k6 # k7
  OBVIOUS
<1> HIDE DEF k1, k2, k3, k4, k5, k6, k7
<1>1. parts \in Seq(S)
  OBVIOUS
<1>2. Len(parts) = 7 /\ DOMAIN parts = 1 .. 7
  OBVIOUS
<1>3. /\ parts[1][1] = k1 /\ parts[1][2] = v1 /\ Len(parts[1]) = 2
      /\ parts[2][1] = k2 /\ parts[2][2] = v2 /\ Len(parts[2]) = 2
      /\ parts[3][1] = k3 /\ parts[3][2] = v3 /\ Len(parts[3]) = 2
      /\ parts[4][1] = k4 /\ parts[4][2] = v4 /\ Len(parts[4]) = 2
      /\ parts[5][1] = k5 /\ parts[5][2] = v5 /\ Len(parts[5]) = 2
      /\ parts[6][1] = k6 /\ parts[6][2] = v6 /\ Len(parts[6]) = 2
      /\ parts[7][1] = k7 /\ parts[7][2] = v7 /\ Len(parts[7]) = 2
  OBVIOUS
<1> HIDE DEF S, parts
<1>4. \A i \in 1 .. 7 : i = 1 \/ i = 2 \/ i = 3 \/ i = 4 \/ i = 5 \/ i = 6 \/ i = 7
  OBVIOUS
<1>5. DistinctKeys(parts)
  BY <1>0, <1>2, <1>3, <1>4 DEF DistinctKeys
<1>6. \A i \in DOMAIN parts : Len(parts[i]) # 1
  BY <1>2, <1>3, <1>4
<1>7. DOMAIN Fields(parts) = {k1, k2, k3, k4, k5, k6, k7}
  <2>1. DOMAIN Fields(parts) = {parts[i][1] : i \in 1 .. 7}
    BY <1>2 DEF Fields
  <2> QED
    BY <1>3, <1>4, <2>1
<1>8. \A i \in 1 .. 7 : Fields(parts)[parts[i][1]] = parts[i][2]
  <2>1. \A i \in 1 .. Len(parts) : Fields(parts)[parts[i][1]] = parts[i][2]
    BY <1>1, <1>5, FieldValue, Zenon
  <2> QED
    BY <1>2, <2>1
<1>9. /\ 1 \in 1 .. 7 /\ 2 \in 1 .. 7 /\ 3 \in 1 .. 7
      /\ 4 \in 1 .. 7 /\ 5 \in 1 .. 7 /\ 6 \in 1 .. 7 /\ 7 \in 1 .. 7
  OBVIOUS
<1>10. /\ Fields(parts)[k1] = v1 /\ Fields(parts)[k2] = v2 /\ Fields(parts)[k3] = v3
       /\ Fields(parts)[k4] = v4
       /\ Fields(parts)[k5] = v5 /\ Fields(parts)[k6] = v6 /\ Fields(parts)[k7] = v7
  BY <1>3, <1>8, <1>9, Zenon
<1>11. Fields(parts) = [key \in DOMAIN Fields(parts) |-> Fields(parts)[key]]
  BY DEF Fields
<1>12. Fields(parts) = [kind |-> v1, project |-> v2, lock |-> v3, fingerprint |-> v4,
                         parent |-> v5, state |-> v6, created |-> v7]
  BY <1>7, <1>10, <1>11 DEF k1, k2, k3, k4, k5, k6, k7
<1> QED
  BY <1>5, <1>6, <1>12 DEF Plain, parts, k1, k2, k3, k4, k5, k6, k7

\* A value alone is read.
LEMMA ReadsOne ==
    ASSUME NEW values, NEW v \in values
    PROVE  Reads(<<v>>, values)
BY DEF Reads

\* Metadata that is written is read back whole (encode and parse).
LEMMA ReadBack ==
    ASSUME IdentityAssumption, NEW m \in Tests \cup Templates
    PROVE  Parse(Tag(m)) = m
<1> DEFINE parts == Encode(m)
           f == Fields(parts)
           time == <<ToString(m.created)>>
<1>1. /\ m.project \in Project /\ m.lock \in Key /\ m.created \in Times
  BY DEF Tests, Templates
<1>2. ValidProject(m.project) /\ \A a, b \in Times : ToString(a) = ToString(b) => a = b
  BY <1>1, Assumed, Zenon
<1>3. Tag(m).parts = parts /\ Tag(m).prefix = TRUE
  BY DEF Tag
<1>4. Reads(time, PrintedTimes) /\ TimeOf(time) = m.created
  <2>1. ToString(m.created) \in PrintedTimes
    BY <1>1, Zenon DEF PrintedTimes
  <2>2. time[1] = ToString(m.created)
    OBVIOUS
  <2> QED
    BY <1>1, <1>2, <2>1, <2>2, ReadsOne, TimeRead, Zenon
<1>5. Reads(<<m.lock>>, Key) /\ <<m.lock>>[1] = m.lock
  BY <1>1, ReadsOne
<1> HIDE DEF time
<1>6. CASE m \in Tests
  <2>1. m.kind = "test"
    BY <1>6 DEF Tests
  <2>2. parts = << <<"kind", <<"test">> >>, <<"project", m.project>>, <<"owner", <<m.lock>> >>,
                   <<"created", time>> >>
    BY <2>1, EncodeTest, Zenon DEF TestParts, time
  <2> HIDE DEF parts
  <2>3. Plain(parts, [kind |-> <<"test">>, project |-> m.project, owner |-> <<m.lock>>, created |-> time])
    BY <2>2, TestRecord, Zenon
  <2>4. /\ DistinctKeys(parts) /\ \A i \in DOMAIN parts : Len(parts[i]) # 1
        /\ DOMAIN f = {"kind", "project", "owner", "created"}
        /\ f["kind"] = <<"test">> /\ f["project"] = m.project
        /\ f["owner"] = <<m.lock>> /\ f["created"] = time
    BY <2>3 DEF Plain
  <2>5. WellFormed(Tag(m)) /\ "kind" \in DOMAIN Fields(Tag(m).parts)
    BY <1>3, <2>4, Zenon DEF WellFormed
  <2> HIDE DEF f
  <2>6. TestFields(f)
    BY <1>2, <1>4, <1>5, <2>4, Zenon DEF TestFields
  <2>7. Parse(Tag(m)) = TestOf(f)
    BY <1>3, <2>5, <2>6, ParseReads, Zenon DEF f
  <2>8. TestOf(f) = [kind |-> "test", project |-> m.project, lock |-> m.lock, created |-> m.created]
    BY <1>4, <1>5, <2>4, Zenon DEF TestOf
  <2>9. m = [kind |-> "test", project |-> m.project, lock |-> m.lock, created |-> m.created]
    BY <1>6 DEF Tests
  <2> QED
    BY <2>7, <2>8, <2>9, Zenon
<1>7. CASE m \in Templates
  <2>1. /\ m.kind = "template" /\ m.fingerprint \in Fingerprint
        /\ m.parent \in Fingerprint \cup {NoParent} /\ m.state \in {"initializing", "ready"}
    BY <1>7 DEF Templates
  <2>2. /\ Reads(<<m.fingerprint>>, Fingerprint) /\ <<m.fingerprint>>[1] = m.fingerprint
        /\ <<m.state>>[1] = m.state /\ <<m.state>> \in {<<"initializing">>, <<"ready">>}
    BY <2>1, ReadsOne
  <2>3. "parent" \notin {"kind", "project", "lock", "fingerprint", "state", "created"}
    OBVIOUS
  <2>4. m = [kind |-> "template", project |-> m.project, lock |-> m.lock, created |-> m.created,
             fingerprint |-> m.fingerprint, parent |-> m.parent, state |-> m.state]
    BY <1>7 DEF Templates
  <2>5. ASSUME DistinctKeys(parts), \A i \in DOMAIN parts : Len(parts[i]) # 1,
               "kind" \in DOMAIN f, TemplateFields(f), TemplateOf(f) = m
        PROVE  Parse(Tag(m)) = m
    <3>1. WellFormed(Tag(m)) /\ "kind" \in DOMAIN Fields(Tag(m).parts)
      BY <1>3, <2>5, Zenon DEF WellFormed
    <3>2. Parse(Tag(m)) = TemplateOf(f)
      BY <1>3, <2>5, <3>1, ParseReads, Zenon
    <3> QED
      BY <2>5, <3>2, Zenon
  <2>6. CASE m.parent = NoParent
    <3>1. parts = << <<"kind", <<"template">> >>, <<"project", m.project>>, <<"lock", <<m.lock>> >>,
                     <<"fingerprint", <<m.fingerprint>> >>, <<"state", <<m.state>> >>,
                     <<"created", time>> >>
      BY <2>1, <2>6, EncodeRoot, Zenon DEF RootParts, time
    <3> HIDE DEF parts
    <3>l. Plain(parts, [kind |-> <<"template">>, project |-> m.project, lock |-> <<m.lock>>,
                        fingerprint |-> <<m.fingerprint>>, state |-> <<m.state>>, created |-> time])
      BY <3>1, RootRecord, Zenon
    <3>2. /\ DistinctKeys(parts) /\ \A i \in DOMAIN parts : Len(parts[i]) # 1
          /\ DOMAIN f = {"kind", "project", "lock", "fingerprint", "state", "created"}
          /\ f["kind"] = <<"template">> /\ f["project"] = m.project
          /\ f["lock"] = <<m.lock>> /\ f["fingerprint"] = <<m.fingerprint>>
          /\ f["state"] = <<m.state>> /\ f["created"] = time
      BY <3>l DEF Plain
    <3> HIDE DEF f
    <3>3. TemplateFields(f)
      BY <1>2, <1>4, <1>5, <2>2, <3>2, Zenon DEF TemplateFields
    <3>4. "parent" \notin DOMAIN f /\ "kind" \in DOMAIN f
      BY <2>3, <3>2, Zenon
    <3>5. TemplateOf(f) = m
      BY <1>4, <1>5, <2>2, <2>4, <2>6, <3>2, <3>4, Zenon DEF TemplateOf
    <3> QED
      BY <2>5, <3>2, <3>3, <3>4, <3>5, Zenon
  <2>7. CASE m.parent # NoParent
    <3>1. parts = << <<"kind", <<"template">> >>, <<"project", m.project>>, <<"lock", <<m.lock>> >>,
                     <<"fingerprint", <<m.fingerprint>> >>, <<"parent", <<m.parent>> >>,
                     <<"state", <<m.state>> >>, <<"created", time>> >>
      BY <2>1, <2>7, EncodeDerived, Zenon DEF DerivedParts, time
    <3> HIDE DEF parts
    <3>l. Plain(parts, [kind |-> <<"template">>, project |-> m.project, lock |-> <<m.lock>>,
                        fingerprint |-> <<m.fingerprint>>, parent |-> <<m.parent>>,
                        state |-> <<m.state>>, created |-> time])
      BY <3>1, DerivedRecord, Zenon
    <3>2. /\ DistinctKeys(parts) /\ \A i \in DOMAIN parts : Len(parts[i]) # 1
          /\ DOMAIN f = {"kind", "project", "lock", "fingerprint", "parent", "state", "created"}
          /\ f["kind"] = <<"template">> /\ f["project"] = m.project
          /\ f["lock"] = <<m.lock>> /\ f["fingerprint"] = <<m.fingerprint>>
          /\ f["parent"] = <<m.parent>>
          /\ f["state"] = <<m.state>> /\ f["created"] = time
      BY <3>l DEF Plain
    <3> HIDE DEF f
    <3>p. Reads(<<m.parent>>, Fingerprint) /\ <<m.parent>>[1] = m.parent
      BY <2>1, <2>7, ReadsOne
    <3>d. DOMAIN f = {"kind", "project", "lock", "fingerprint", "state", "created", "parent"}
      BY <3>2
    <3>3. TemplateFields(f)
      BY <1>2, <1>4, <1>5, <2>2, <3>2, <3>p, <3>d, Zenon DEF TemplateFields
    <3>4. "parent" \in DOMAIN f /\ "kind" \in DOMAIN f
      BY <3>2, Zenon
    <3>5. TemplateOf(f) = m
      BY <1>4, <1>5, <2>2, <2>4, <3>p, <3>2, <3>4, Zenon DEF TemplateOf
    <3> QED
      BY <2>5, <3>2, <3>3, <3>4, <3>5, Zenon
  <2> QED
    BY <2>6, <2>7
<1> QED
  BY <1>6, <1>7

\* How often keys occur.
LEMMA KeyCount ==
    ASSUME NEW S, NEW parts \in Seq(S), DistinctKeys(parts)
    PROVE  Len(parts) = Cardinality(DOMAIN Fields(parts))
<1> DEFINE n == Len(parts)
           T == DOMAIN Fields(parts)
           g == [i \in 1 .. n |-> parts[i][1]]
<1>1. n \in Nat /\ DOMAIN parts = 1 .. n
  BY LenProperties
<1>2. T = {parts[i][1] : i \in 1 .. n}
  BY <1>1 DEF Fields
<1>3. \A i, j \in 1 .. n : parts[i][1] = parts[j][1] => i = j
  BY <1>1 DEF DistinctKeys
<1> HIDE DEF T, n
<1>4. g \in Bijection(1 .. n, T)
  <2>1. g \in [1 .. n -> T]
    BY <1>2
  <2>2. \A i, j \in 1 .. n : g[i] = g[j] => i = j
    BY <1>3
  <2>3. \A k \in T : \E i \in 1 .. n : g[i] = k
    BY <1>2
  <2> HIDE DEF g
  <2>4. IsInjective(g)
    BY <2>1, <2>2 DEF IsInjective
  <2> QED
    BY <2>1, <2>3, <2>4 DEF Bijection, Injection, Surjection
<1>5. IsFiniteSet(1 .. n) /\ Cardinality(1 .. n) = n
  <2>1. /\ IsFiniteSet(1 .. n)
        /\ Cardinality(1 .. n) = IF 1 > n THEN 0 ELSE n - 1 + 1
    BY <1>1, FS_Interval
  <2> QED
    BY <1>1, <2>1
<1>6. Cardinality(T) = n
  <2>1. ExistsBijection(1 .. n, T)
    BY <1>4, Zenon DEF ExistsBijection
  <2> QED
    BY <1>5, <2>1, FS_Bijection, Zenon
<1> QED
  BY <1>6 DEF T, n

\* The parts of a comment are its fields.
LEMMA PartsAreFields ==
    ASSUME NEW t, NEW parts \in Seq(Part(t)), NEW f, Plain(parts, f)
    PROVE  Range(parts) = {<<k, f[k]>> : k \in DOMAIN f}
<1>1. /\ DistinctKeys(parts) /\ f = Fields(parts)
      /\ \A i \in DOMAIN parts : Len(parts[i]) # 1
  BY Zenon DEF Plain
<1>2. DOMAIN parts = 1 .. Len(parts) /\ \A i \in 1 .. Len(parts) : parts[i] \in Part(t)
  BY LenProperties, ElementOfSeq
<1>3. ASSUME NEW i \in 1 .. Len(parts) PROVE parts[i] = <<parts[i][1], parts[i][2]>>
  <2>1. parts[i] \in KeyedPart(t)
    BY <1>1, <1>2, PartOfComment, Zenon
  <2>2. parts[i] \in PartKey \X Seq(Value)
    BY <2>1, Zenon DEF KeyedPart
  <2> QED
    BY <2>2
<1>4. ASSUME NEW i \in 1 .. Len(parts) PROVE parts[i][1] \in DOMAIN f /\ f[parts[i][1]] = parts[i][2]
  BY <1>1, FieldValue, Zenon
<1>5. ASSUME NEW k \in DOMAIN f PROVE \E i \in 1 .. Len(parts) : parts[i][1] = k /\ f[k] = parts[i][2]
  BY <1>1, FieldSource, Zenon
<1>6. ASSUME NEW x \in Range(parts) PROVE x \in {<<k, f[k]>> : k \in DOMAIN f}
  <2>1. PICK i \in 1 .. Len(parts) : x = parts[i]
    BY <1>2, Zenon DEF Range
  <2> QED
    BY <1>3, <1>4, <2>1, Zenon
<1>7. ASSUME NEW k \in DOMAIN f PROVE <<k, f[k]>> \in Range(parts)
  <2>1. PICK i \in 1 .. Len(parts) : parts[i][1] = k /\ f[k] = parts[i][2]
    BY <1>5, Zenon
  <2>2. parts[i] = <<k, f[k]>>
    BY <1>3, <2>1, Zenon
  <2> QED
    BY <1>2, <2>2, Zenon DEF Range
<1> QED
  BY <1>6, <1>7, Zenon

\* A part as it would be written again.
Written(part) ==
    IF part[1] = "project" THEN part
    ELSE <<part[1], IF Last(part[2]) = "alt" THEN Front(part[2]) ELSE part[2]>>

\* Two comments with the same fields, one of them perhaps spelled differently.
LEMMA SameParts ==
    ASSUME NEW t, NEW p \in Seq(Part(t)), NEW e \in Seq(Part(t)), NEW f, NEW g,
           Plain(p, f), Plain(e, g), DOMAIN f = DOMAIN g,
           \A k \in DOMAIN f : Written(<<k, f[k]>>) = <<k, g[k]>>
    PROVE  /\ Len(p) = Len(e)
           /\ {Written(part) : part \in Range(p)} = Range(e)
<1>1. Len(p) = Cardinality(DOMAIN f) /\ Len(e) = Cardinality(DOMAIN g)
  BY KeyCount, Zenon DEF Plain
<1>2. Range(p) = {<<k, f[k]>> : k \in DOMAIN f} /\ Range(e) = {<<k, g[k]>> : k \in DOMAIN g}
  <2>1. Range(p) = {<<k, f[k]>> : k \in DOMAIN f}
    BY PartsAreFields
  <2>2. Range(e) = {<<k, g[k]>> : k \in DOMAIN g}
    BY PartsAreFields
  <2> QED
    BY <2>1, <2>2
<1>3. Len(p) = Len(e)
  BY <1>1, Zenon
<1>4. {Written(part) : part \in Range(p)} = {<<k, g[k]>> : k \in DOMAIN g}
  BY <1>2, Zenon
<1> QED
  BY <1>2, <1>3, <1>4, Zenon

\* The front of a pair.
LEMMA FrontOfPair ==
    ASSUME NEW S, NEW a \in S, NEW b \in S
    PROVE  Front(<<a, b>>) = <<a>>
<1> DEFINE v == <<a, b>>
           u == SubSeq(v, 1, 1)
<1>1. v \in Seq(S) /\ Len(v) = 2 /\ v[1] = a
  OBVIOUS
<1>2. <<a>> \in Seq(S) /\ Len(<<a>>) = 1 /\ <<a>>[1] = a
  OBVIOUS
<1> HIDE DEF v
<1>3. /\ u \in Seq(S) /\ Len(u) = 1 /\ u[1] = v[1]
  BY <1>1
<1>4. Front(v) = u
  BY <1>1 DEF Front
<1> HIDE DEF u
<1>5. u = <<a>>
  BY <1>1, <1>2, <1>3, SeqEqual
<1> QED
  BY <1>4, <1>5 DEF v

\* What was read is written again as its first symbol.
LEMMA WrittenRead ==
    ASSUME NEW values, "alt" \notin values, NEW key, key # "project", NEW v, Reads(v, values)
    PROVE  Written(<<key, v>>) = <<key, <<v[1]>> >>
<1>1. PICK a \in values : v = <<a>> \/ v = <<a, "alt">>
  BY DEF Reads
<1>2. a # "alt" /\ v[1] = a
  BY <1>1
<1>3. CASE v = <<a>>
  <2>1. Last(v) = a
    BY <1>3 DEF Last
  <2> QED
    BY <1>2, <1>3, <2>1 DEF Written
<1>4. CASE v = <<a, "alt">>
  <2>1. Last(v) = "alt"
    BY <1>4 DEF Last
  <2>2. Front(v) = <<a>>
    BY <1>4, FrontOfPair, a \in {a, "alt"}, "alt" \in {a, "alt"}, Zenon
  <2> QED
    BY <1>2, <1>4, <2>1, <2>2 DEF Written
<1> QED
  BY <1>1, <1>3, <1>4

\* A word stays as it is.
LEMMA WrittenWord ==
    ASSUME NEW key, NEW a, a # "alt"
    PROVE  Written(<<key, <<a>> >>) = <<key, <<a>> >>
<1>1. Last(<<a>>) = a
  BY DEF Last
<1> QED
  BY <1>1 DEF Written

\* One set of fields is another as it would be written.
Rewritten(f, g) == DOMAIN f = DOMAIN g /\ \A k \in DOMAIN f : Written(<<k, f[k]>>) = <<k, g[k]>>

\* A creation time that was read is printed as it was.
LEMMA TimePrinted ==
    ASSUME \A m, n \in Times : ToString(m) = ToString(n) => m = n, NEW text,
           Reads(text, PrintedTimes)
    PROVE  ToString(TimeOf(text)) = text[1]
<1>1. text[1] \in PrintedTimes
  BY ReadFirst, Zenon
<1>2. PICK n \in Times : text[1] = ToString(n)
  BY <1>1, Zenon DEF PrintedTimes
<1>3. TimeOf(text) = n
  BY <1>2, TimeRead, Zenon
<1> QED
  BY <1>2, <1>3, Zenon

\* What is written never ends with the mark of another spelling.
LEMMA WrittenFields ==
    ASSUME IdentityAssumption
    PROVE  /\ \A v : Written(<<"project", v>>) = <<"project", v>>
           /\ \A v : Reads(v, Key) => /\ Written(<<"owner", v>>) = <<"owner", <<v[1]>> >>
                                      /\ Written(<<"lock", v>>) = <<"lock", <<v[1]>> >>
           /\ \A v : Reads(v, Fingerprint) =>
                         /\ Written(<<"fingerprint", v>>) = <<"fingerprint", <<v[1]>> >>
                         /\ Written(<<"parent", v>>) = <<"parent", <<v[1]>> >>
           /\ \A v : Reads(v, PrintedTimes) => Written(<<"created", v>>) = <<"created", <<v[1]>> >>
           /\ Written(<<"kind", <<"test">> >>) = <<"kind", <<"test">> >>
           /\ Written(<<"kind", <<"template">> >>) = <<"kind", <<"template">> >>
           /\ \A v \in {<<"initializing">>, <<"ready">>} :
                  /\ Written(<<"state", v>>) = <<"state", v>>
                  /\ v = <<v[1]>>
<1>1. "alt" \notin Key /\ "alt" \notin Fingerprint /\ "alt" \notin PrintedTimes
  BY Assumed, Zenon
<1>2. /\ "owner" # "project" /\ "lock" # "project" /\ "fingerprint" # "project"
      /\ "parent" # "project" /\ "created" # "project"
      /\ "test" # "alt" /\ "template" # "alt" /\ "initializing" # "alt" /\ "ready" # "alt"
  OBVIOUS
<1>3. \A v : Written(<<"project", v>>) = <<"project", v>>
  BY DEF Written
<1>4. ASSUME NEW v, Reads(v, Key)
      PROVE  /\ Written(<<"owner", v>>) = <<"owner", <<v[1]>> >>
             /\ Written(<<"lock", v>>) = <<"lock", <<v[1]>> >>
  BY <1>1, <1>2, <1>4, WrittenRead, Zenon
<1>5. ASSUME NEW v, Reads(v, Fingerprint)
      PROVE  /\ Written(<<"fingerprint", v>>) = <<"fingerprint", <<v[1]>> >>
             /\ Written(<<"parent", v>>) = <<"parent", <<v[1]>> >>
  BY <1>1, <1>2, <1>5, WrittenRead, Zenon
<1>6. ASSUME NEW v, Reads(v, PrintedTimes)
      PROVE  Written(<<"created", v>>) = <<"created", <<v[1]>> >>
  BY <1>1, <1>2, <1>6, WrittenRead, Zenon
<1>7. /\ Written(<<"kind", <<"test">> >>) = <<"kind", <<"test">> >>
      /\ Written(<<"kind", <<"template">> >>) = <<"kind", <<"template">> >>
  BY <1>2, WrittenWord, Zenon
<1>8. ASSUME NEW v \in {<<"initializing">>, <<"ready">>}
      PROVE  Written(<<"state", v>>) = <<"state", v>> /\ v = <<v[1]>>
  <2>1. PICK a \in {"initializing", "ready"} : v = <<a>>
    BY <1>8
  <2>2. a # "alt"
    BY <1>2
  <2>3. Written(<<"state", v>>) = <<"state", v>>
    BY <2>1, <2>2, WrittenWord, Zenon
  <2>4. v = <<v[1]>>
    BY <2>1
  <2> QED
    BY <2>3, <2>4
<1> QED
  BY <1>3, <1>4, <1>5, <1>6, <1>7, <1>8, Zenon

\* What is read as a test, written again.
LEMMA TestRewritten ==
    ASSUME IdentityAssumption, NEW f, TestFields(f), NEW m, m = TestOf(f)
    PROVE  Rewritten(f, [kind |-> <<"test">>, project |-> m.project, owner |-> <<m.lock>>,
                         created |-> <<ToString(m.created)>>])
<1> DEFINE g == [kind |-> <<"test">>, project |-> m.project, owner |-> <<m.lock>>,
                 created |-> <<ToString(m.created)>>]
<1>1. m.project = f["project"] /\ m.lock = f["owner"][1] /\ m.created = TimeOf(f["created"])
  BY DEF TestOf
<1>2. ToString(m.created) = f["created"][1]
  BY <1>1, Assumed, TimePrinted, Zenon DEF TestFields
<1>3. /\ DOMAIN g = {"kind", "project", "owner", "created"}
      /\ g["kind"] = <<"test">> /\ g["project"] = m.project
      /\ g["owner"] = <<m.lock>> /\ g["created"] = <<ToString(m.created)>>
  OBVIOUS
<1> HIDE DEF g
<1>4. /\ DOMAIN f = {"kind", "project", "owner", "created"} /\ f["kind"] = <<"test">>
      /\ Reads(f["owner"], Key) /\ Reads(f["created"], PrintedTimes)
  BY Zenon DEF TestFields
<1>w. /\ Written(<<"kind", f["kind"]>>) = <<"kind", f["kind"]>>
      /\ Written(<<"project", f["project"]>>) = <<"project", f["project"]>>
      /\ Written(<<"owner", f["owner"]>>) = <<"owner", <<f["owner"][1]>> >>
      /\ Written(<<"created", f["created"]>>) = <<"created", <<f["created"][1]>> >>
  BY <1>4, WrittenFields, Zenon
<1>5. /\ Written(<<"kind", f["kind"]>>) = <<"kind", g["kind"]>>
      /\ Written(<<"project", f["project"]>>) = <<"project", g["project"]>>
      /\ Written(<<"owner", f["owner"]>>) = <<"owner", g["owner"]>>
      /\ Written(<<"created", f["created"]>>) = <<"created", g["created"]>>
  BY <1>1, <1>2, <1>3, <1>4, <1>w, Zenon
<1>6. Rewritten(f, g)
  BY <1>3, <1>4, <1>5, Zenon DEF Rewritten
<1> QED
  BY <1>6 DEF g

\* What is read as a template that derives from none, written again.
LEMMA RootRewritten ==
    ASSUME IdentityAssumption, NEW f, TemplateFields(f), "parent" \notin DOMAIN f,
           NEW m, m = TemplateOf(f)
    PROVE  /\ m.parent = NoParent
           /\ Rewritten(f, [kind |-> <<"template">>, project |-> m.project, lock |-> <<m.lock>>,
                            fingerprint |-> <<m.fingerprint>>, state |-> <<m.state>>,
                            created |-> <<ToString(m.created)>>])
<1> DEFINE g == [kind |-> <<"template">>, project |-> m.project, lock |-> <<m.lock>>,
                 fingerprint |-> <<m.fingerprint>>, state |-> <<m.state>>,
                 created |-> <<ToString(m.created)>>]
<1>1. /\ m.project = f["project"] /\ m.lock = f["lock"][1] /\ m.created = TimeOf(f["created"])
      /\ m.fingerprint = f["fingerprint"][1] /\ m.state = f["state"][1] /\ m.parent = NoParent
  BY DEF TemplateOf
<1>2. ToString(m.created) = f["created"][1]
  BY <1>1, Assumed, TimePrinted, Zenon DEF TemplateFields
<1>3. /\ DOMAIN g = {"kind", "project", "lock", "fingerprint", "state", "created"}
      /\ g["kind"] = <<"template">> /\ g["project"] = m.project
      /\ g["lock"] = <<m.lock>> /\ g["fingerprint"] = <<m.fingerprint>>
      /\ g["state"] = <<m.state>> /\ g["created"] = <<ToString(m.created)>>
  OBVIOUS
<1> HIDE DEF g
<1>4. /\ f["kind"] = <<"template">>
      /\ Reads(f["lock"], Key) /\ Reads(f["created"], PrintedTimes)
      /\ Reads(f["fingerprint"], Fingerprint)
      /\ f["state"] \in {<<"initializing">>, <<"ready">>}
  BY Zenon DEF TemplateFields
<1>d. DOMAIN f = {"kind", "project", "lock", "fingerprint", "state", "created"}
  <2>1. "parent" \in {"kind", "project", "lock", "fingerprint", "state", "created", "parent"}
    OBVIOUS
  <2> QED
    BY <2>1, Zenon DEF TemplateFields
<1>w. /\ Written(<<"kind", f["kind"]>>) = <<"kind", f["kind"]>>
      /\ Written(<<"project", f["project"]>>) = <<"project", f["project"]>>
      /\ Written(<<"lock", f["lock"]>>) = <<"lock", <<f["lock"][1]>> >>
      /\ Written(<<"fingerprint", f["fingerprint"]>>) = <<"fingerprint", <<f["fingerprint"][1]>> >>
      /\ Written(<<"created", f["created"]>>) = <<"created", <<f["created"][1]>> >>
  BY <1>4, WrittenFields, Zenon
<1>5. /\ Written(<<"kind", f["kind"]>>) = <<"kind", g["kind"]>>
      /\ Written(<<"project", f["project"]>>) = <<"project", g["project"]>>
      /\ Written(<<"lock", f["lock"]>>) = <<"lock", g["lock"]>>
      /\ Written(<<"fingerprint", f["fingerprint"]>>) = <<"fingerprint", g["fingerprint"]>>
      /\ Written(<<"created", f["created"]>>) = <<"created", g["created"]>>
  BY <1>1, <1>2, <1>3, <1>4, <1>w, Zenon
<1>s. Written(<<"state", f["state"]>>) = <<"state", g["state"]>>
  BY <1>1, <1>3, <1>4, WrittenFields
<1>6. Rewritten(f, g)
  BY <1>3, <1>d, <1>5, <1>s DEF Rewritten
<1> QED
  BY <1>1, <1>6 DEF g

\* What is read as a derived template, written again.
LEMMA DerivedRewritten ==
    ASSUME IdentityAssumption, NEW f, TemplateFields(f), "parent" \in DOMAIN f,
           NEW m, m = TemplateOf(f)
    PROVE  /\ m.parent # NoParent
           /\ Rewritten(f, [kind |-> <<"template">>, project |-> m.project, lock |-> <<m.lock>>,
                            fingerprint |-> <<m.fingerprint>>, parent |-> <<m.parent>>,
                            state |-> <<m.state>>, created |-> <<ToString(m.created)>>])
<1> DEFINE g == [kind |-> <<"template">>, project |-> m.project, lock |-> <<m.lock>>,
                 fingerprint |-> <<m.fingerprint>>, parent |-> <<m.parent>>,
                 state |-> <<m.state>>, created |-> <<ToString(m.created)>>]
<1>1. /\ m.project = f["project"] /\ m.lock = f["lock"][1] /\ m.created = TimeOf(f["created"])
      /\ m.fingerprint = f["fingerprint"][1] /\ m.state = f["state"][1]
      /\ m.parent = f["parent"][1]
  BY DEF TemplateOf
<1>2. ToString(m.created) = f["created"][1]
  BY <1>1, Assumed, TimePrinted, Zenon DEF TemplateFields
<1>3. /\ DOMAIN g = {"kind", "project", "lock", "fingerprint", "parent", "state", "created"}
      /\ g["kind"] = <<"template">> /\ g["project"] = m.project
      /\ g["lock"] = <<m.lock>> /\ g["fingerprint"] = <<m.fingerprint>>
      /\ g["parent"] = <<m.parent>>
      /\ g["state"] = <<m.state>> /\ g["created"] = <<ToString(m.created)>>
  OBVIOUS
<1> HIDE DEF g
<1>4. /\ f["kind"] = <<"template">>
      /\ Reads(f["lock"], Key) /\ Reads(f["created"], PrintedTimes)
      /\ Reads(f["fingerprint"], Fingerprint)
      /\ f["state"] \in {<<"initializing">>, <<"ready">>}
  BY Zenon DEF TemplateFields
<1>d. DOMAIN f = DOMAIN g /\ Reads(f["parent"], Fingerprint)
  <2>1. "parent" \notin {"kind", "project", "lock", "fingerprint", "state", "created"}
    OBVIOUS
  <2>2. /\ DOMAIN f = {"kind", "project", "lock", "fingerprint", "state", "created", "parent"}
        /\ Reads(f["parent"], Fingerprint)
    BY <2>1, Zenon DEF TemplateFields
  <2> QED
    BY <1>3, <2>2
<1>n. m.parent # NoParent
  BY <1>1, <1>d, Assumed, ReadFirst, Zenon
<1>w. /\ Written(<<"kind", f["kind"]>>) = <<"kind", f["kind"]>>
      /\ Written(<<"project", f["project"]>>) = <<"project", f["project"]>>
      /\ Written(<<"lock", f["lock"]>>) = <<"lock", <<f["lock"][1]>> >>
      /\ Written(<<"fingerprint", f["fingerprint"]>>) = <<"fingerprint", <<f["fingerprint"][1]>> >>
      /\ Written(<<"parent", f["parent"]>>) = <<"parent", <<f["parent"][1]>> >>
      /\ Written(<<"created", f["created"]>>) = <<"created", <<f["created"][1]>> >>
  BY <1>4, <1>d, WrittenFields, Zenon
<1>5. /\ Written(<<"kind", f["kind"]>>) = <<"kind", g["kind"]>>
      /\ Written(<<"project", f["project"]>>) = <<"project", g["project"]>>
      /\ Written(<<"lock", f["lock"]>>) = <<"lock", g["lock"]>>
      /\ Written(<<"fingerprint", f["fingerprint"]>>) = <<"fingerprint", g["fingerprint"]>>
      /\ Written(<<"parent", f["parent"]>>) = <<"parent", g["parent"]>>
      /\ Written(<<"created", f["created"]>>) = <<"created", g["created"]>>
  BY <1>1, <1>2, <1>3, <1>4, <1>w, Zenon
<1>s. Written(<<"state", f["state"]>>) = <<"state", g["state"]>>
  BY <1>1, <1>3, <1>4, WrittenFields
<1>6. Rewritten(f, g)
  BY <1>3, <1>d, <1>5, <1>s DEF Rewritten
<1> QED
  BY <1>n, <1>6 DEF g

\* A comment says again what was read from it.
Repeats(parts, again) ==
    Len(parts) = Len(again) /\ {Written(part) : part \in Range(parts)} = Range(again)

\* The parts of two comments with the same fields, one of them perhaps spelled
\* differently.
LEMMA RewrittenParts ==
    ASSUME NEW t, NEW p \in Seq(Part(t)), NEW e \in Seq(Part(t)), NEW f, NEW g,
           Plain(p, f), Plain(e, g), Rewritten(f, g)
    PROVE  Repeats(p, e)
<1>1. DOMAIN f = DOMAIN g /\ \A k \in DOMAIN f : Written(<<k, f[k]>>) = <<k, g[k]>>
  BY Zenon DEF Rewritten
<1> QED
  BY <1>1, SameParts DEF Repeats

\* A comment that is read says what writing its metadata would say, and no more.
LEMMA ReadIsWritten ==
    ASSUME IdentityAssumption, NEW t \in Times, NEW comment,
           comment.parts \in Seq(Part(t)), Parse(comment) # None
    PROVE  Repeats(comment.parts, Encode(Parse(comment)))
<1> DEFINE m == Parse(comment)
           p == comment.parts
           e == Encode(m)
           f == Fields(p)
           T == TestFields(f) /\ m = TestOf(f)
           M == TemplateFields(f) /\ m = TemplateOf(f)
           time == <<ToString(m.created)>>
<1>1. WellFormed(comment) /\ (T \/ M)
  BY ParseCases, Zenon
<1>2. Plain(p, f)
  BY <1>1, Zenon DEF WellFormed, Plain
<1>3. m \in Tests \cup Templates /\ m.created <= t
  BY Assumed, ParsedTyped, Zenon
<1>4. Project \subseteq Seq(Symbol)
  BY Assumed, Zenon DEF NamesAssumed
<1> HIDE DEF m, p, f
<1>5. e \in Seq(Part(t))
  BY <1>3, <1>4, TagParts, Zenon
<1>6. CASE T
  <2>1. m.kind = "test"
    BY <1>6 DEF TestOf
  <2>2. e = << <<"kind", <<"test">> >>, <<"project", m.project>>, <<"owner", <<m.lock>> >>,
               <<"created", time>> >>
    BY <2>1, EncodeTest, Zenon DEF TestParts
  <2> DEFINE g == [kind |-> <<"test">>, project |-> m.project, owner |-> <<m.lock>>, created |-> time]
  <2>3. Plain(e, g)
    BY <2>2, TestRecord, Zenon
  <2>4. Rewritten(f, g)
    BY <1>6, TestRewritten, Zenon
  <2> HIDE DEF e, g
  <2>5. Repeats(p, e)
    BY <1>2, <1>5, <2>3, <2>4, RewrittenParts, Zenon DEF p
  <2> QED
    BY <2>5 DEF p, e, m
<1>7. CASE M /\ "parent" \notin DOMAIN f
  <2>1. m.kind = "template"
    BY <1>7 DEF TemplateOf
  <2> DEFINE g == [kind |-> <<"template">>, project |-> m.project, lock |-> <<m.lock>>,
                   fingerprint |-> <<m.fingerprint>>, state |-> <<m.state>>, created |-> time]
  <2>2. m.parent = NoParent /\ Rewritten(f, g)
    BY <1>7, RootRewritten, Zenon
  <2>3. e = << <<"kind", <<"template">> >>, <<"project", m.project>>, <<"lock", <<m.lock>> >>,
               <<"fingerprint", <<m.fingerprint>> >>, <<"state", <<m.state>> >>, <<"created", time>> >>
    BY <2>1, <2>2, EncodeRoot, Zenon DEF RootParts
  <2>4. Plain(e, g)
    BY <2>3, RootRecord, Zenon
  <2> HIDE DEF e, g
  <2>5. Repeats(p, e)
    BY <1>2, <1>5, <2>2, <2>4, RewrittenParts, Zenon DEF p
  <2> QED
    BY <2>5 DEF p, e, m
<1>8. CASE M /\ "parent" \in DOMAIN f
  <2>1. m.kind = "template"
    BY <1>8 DEF TemplateOf
  <2> DEFINE g == [kind |-> <<"template">>, project |-> m.project, lock |-> <<m.lock>>,
                   fingerprint |-> <<m.fingerprint>>, parent |-> <<m.parent>>,
                   state |-> <<m.state>>, created |-> time]
  <2>2. m.parent # NoParent /\ Rewritten(f, g)
    BY <1>8, DerivedRewritten, Zenon
  <2>3. e = << <<"kind", <<"template">> >>, <<"project", m.project>>, <<"lock", <<m.lock>> >>,
               <<"fingerprint", <<m.fingerprint>> >>, <<"parent", <<m.parent>> >>,
               <<"state", <<m.state>> >>, <<"created", time>> >>
    BY <2>1, <2>2, EncodeDerived, Zenon DEF DerivedParts
  <2>4. Plain(e, g)
    BY <2>3, DerivedRecord, Zenon
  <2> HIDE DEF e, g
  <2>5. Repeats(p, e)
    BY <1>2, <1>5, <2>2, <2>4, RewrittenParts, Zenon DEF p
  <2> QED
    BY <2>5 DEF p, e, m
<1> QED
  BY <1>1, <1>6, <1>7, <1>8, Zenon

\* See CommentsFaithful.
LEMMA InvComments ==
    ASSUME IdentityAssumption, IdentityInv
    PROVE  CommentsFaithful
<1>1. ASSUME NEW text \in DOMAIN made
      PROVE  made[text] = Foreign \/ made[text] \in Tests \cup Templates
  <2>1. Describes(text, made[text])
    BY DEF IdentityInv
  <2> QED
    BY <2>1, Zenon DEF Describes
<1>2. now \in Times /\ \A text \in DOMAIN catalog : catalog[text].parts \in Seq(Part(now))
  BY Zenon DEF IdentityInv
<1>3. ASSUME NEW text \in DOMAIN catalog
      PROVE  Parse(catalog[text]) \in Tests \cup Templates \cup {None}
  BY <1>2, Assumed, ParsedTyped, Zenon
<1>4. NamesTypeOK
  <2>1. /\ DOMAIN catalog \subseteq DOMAIN made
        /\ \A d \in dropped : d.by \in Project /\ d.text \in DOMAIN made
        /\ now \in 0..MaxTime /\ edits \in 0..MaxEdits
    BY DEF IdentityInv, Times
  <2> QED
    BY <1>1, <1>3, <2>1, Zenon DEF NamesTypeOK
<1>5. RoundTrip
  BY <1>1, ReadBack, Zenon DEF RoundTrip
<1>6. ParseStrict
  <2> SUFFICES ASSUME NEW text \in DOMAIN catalog, Parse(catalog[text]) # None
               PROVE  /\ Len(catalog[text].parts) = Len(Encode(Parse(catalog[text])))
                      /\ {Written(part) : part \in Range(catalog[text].parts)}
                             = Range(Encode(Parse(catalog[text])))
    BY DEF ParseStrict, Written
  <2>1. Repeats(catalog[text].parts, Encode(Parse(catalog[text])))
    BY <1>2, ReadIsWritten, Zenon
  <2> QED
    BY <2>1 DEF Repeats
<1> QED
  BY <1>4, <1>5, <1>6 DEF CommentsFaithful

\* Whatever others make of the comments: metadata that was written is read back
\* whole, and what is read as metadata has exactly the parts that writing it
\* again would give (ResourceMetadata::encode and parse).
THEOREM CommentsReadBack ==
    ASSUME IdentityAssumption
    PROVE  NamesSpec => []CommentsFaithful
<1>1. NamesInit => IdentityInv
  BY IdentityStart
<1>2. IdentityInv /\ [NamesNext]_namesVars => IdentityInv'
  BY IdentityStep
<1>3. IdentityInv => CommentsFaithful
  BY InvComments
<1> QED
  BY <1>1, <1>2, <1>3, PTL DEF NamesSpec

-----------------------------------------------------------------------------
(***************************************************************************)
(* Fingerprints (TemplateIdentity): what was hashed can be told from the   *)
(* fingerprint, frame by frame and ancestor by ancestor.                   *)
(***************************************************************************)
\* What a digest and a length are taken to be: SHA-256 has no collisions, and a
\* length is printed as one byte.  The byte strings are finite sequences of Byte,
\* whatever Byte is; what callers give to new and add is made of them.
HashAssumption ==
    /\ Domain \subseteq Seq(Byte) /\ Label \subseteq Seq(Byte) /\ Content \subseteq Seq(Byte)
    /\ {"template-v1", "derived-template-v1"} \subseteq Byte
    /\ \A n \in Nat : ToString(n) \in Byte
    /\ \A m, n \in Nat : ToString(m) = ToString(n) => m = n
    /\ \A s \in Seq(Byte) : ToString(s) \in Byte \ {"none"}
    /\ \A s, t \in Seq(Byte) : ToString(s) = ToString(t) => s = t

\* The frames of the byte strings q follow one another in fed, after a tag; the
\* frame of q[i] begins after at[i] bytes.
Offsets(tag, fed, q, at) ==
    /\ Len(fed) >= 2 /\ at[1] = 2 /\ at[Len(q) + 1] = Len(fed)
    /\ fed[1] = ToString(1) /\ fed[2] = tag
    /\ \A i \in 1 .. Len(q) :
           /\ at[i + 1] = at[i] + 1 + Len(q[i]) /\ at[i] < Len(fed)
           /\ fed[at[i] + 1] = ToString(Len(q[i]))
           /\ \A j \in 1 .. Len(q[i]) : fed[at[i] + 1 + j] = q[i][j]
    /\ \A k \in 1 .. Len(fed) : k > 2 => \E i \in 1 .. Len(q) : at[i] < k /\ k <= at[i + 1]
Framing(tag, fed, q) == \E at \in [1 .. Len(q) + 1 -> Nat] : Offsets(tag, fed, q, at)

\* A frame is a length and the bytes.
LEMMA FrameShape ==
    ASSUME HashAssumption, NEW b \in Seq(Byte)
    PROVE  /\ Frame(b) \in Seq(Byte) /\ Len(Frame(b)) = Len(b) + 1
           /\ Frame(b)[1] = ToString(Len(b))
           /\ \A j \in 1 .. Len(b) : Frame(b)[j + 1] = b[j]
<1> DEFINE h == <<ToString(Len(b))>>
<1>1. Len(b) \in Nat /\ ToString(Len(b)) \in Byte
  BY LenProperties DEF HashAssumption
<1>2. h \in Seq(Byte)
  BY <1>1
<1>3. Len(h) = 1 /\ h[1] = ToString(Len(b))
  OBVIOUS
<1> DEFINE f == Frame(b)
<1>4. f = h \o b
  BY Zenon DEF Frame
<1> HIDE DEF h, f
<1>5. /\ f \in Seq(Byte) /\ Len(f) = Len(h) + Len(b)
      /\ \A i \in 1 .. Len(h) : f[i] = h[i]
      /\ \A i \in 1 .. Len(b) : f[Len(h) + i] = b[i]
  BY <1>2, <1>4, Joined
<1>6. Len(f) = Len(b) + 1 /\ f[1] = ToString(Len(b))
  BY <1>1, <1>3, <1>5
<1>7. ASSUME NEW j \in 1 .. Len(b) PROVE f[j + 1] = b[j]
  <2>1. f[1 + j] = b[j]
    BY <1>3, <1>5
  <2>2. 1 + j = j + 1
    BY <1>1
  <2> QED
    BY <2>1, <2>2
<1> QED
  BY <1>5, <1>6, <1>7 DEF f

\* A frame that begins before the end has its length before the end.
LEMMA FrameBegins ==
    ASSUME NEW a \in Nat, NEW m \in Nat, a < m
    PROVE  a + 1 \in 1 .. m
OBVIOUS

\* A byte of a frame comes before the end of the frame.
LEMMA WithinFrame ==
    ASSUME NEW a \in Nat, NEW l \in Nat, NEW m \in Nat, NEW j \in 1 .. l, a + 1 + l <= m
    PROVE  a + 1 + j \in 1 .. m
OBVIOUS

\* Another frame.
LEMMA FrameMore ==
    ASSUME HashAssumption, NEW tag, NEW fed \in Seq(Byte), NEW q \in Seq(Seq(Byte)), NEW b \in Seq(Byte),
           Framing(tag, fed, q)
    PROVE  /\ fed \o Frame(b) \in Seq(Byte)
           /\ Framing(tag, fed \o Frame(b), Append(q, b))
<1> DEFINE f == Frame(b)
           n == Len(q)
           more == fed \o f
           r == Append(q, b)
           m == Len(fed)
           l == Len(b)
<1>1. f \in Seq(Byte) /\ Len(f) = l + 1 /\ f[1] = ToString(l) /\ \A j \in 1 .. l : f[j + 1] = b[j]
  BY FrameShape, Zenon
<1>t. f \in Seq(Byte)
  BY <1>1
<1> HIDE DEF f
<1>2. /\ more \in Seq(Byte) /\ Len(more) = m + Len(f)
      /\ \A k \in 1 .. m : more[k] = fed[k]
      /\ \A k \in 1 .. Len(f) : more[m + k] = f[k]
  BY <1>t, Joined
<1>3. r \in Seq(Seq(Byte)) /\ Len(r) = n + 1 /\ r[n + 1] = b /\ \A i \in 1 .. n : r[i] = q[i]
  BY AppendProperties
<1>4. n \in Nat /\ m \in Nat /\ l \in Nat
  BY LenProperties
<1>q. \A i \in 1 .. n : Len(q[i]) \in Nat
  BY LenProperties, ElementOfSeq
<1>e. Len(f) = l + 1 /\ Len(more) = m + 1 + l
  BY <1>1, <1>2, <1>4
<1> HIDE DEF n, more, r, m, l
<1>5. PICK at \in [1 .. n + 1 -> Nat] : Offsets(tag, fed, q, at)
  BY Zenon DEF Framing, n
<1> DEFINE bt == [i \in 1 .. n + 2 |-> IF i = n + 2 THEN m + 1 + l ELSE at[i]]
<1>6. bt \in [1 .. Len(r) + 1 -> Nat]
  BY <1>3, <1>4
<1>7. /\ m >= 2 /\ at[1] = 2 /\ at[n + 1] = m /\ fed[1] = ToString(1) /\ fed[2] = tag
  BY <1>5 DEF Offsets, n, m
<1>8. \A i \in 1 .. n : /\ at[i + 1] = at[i] + 1 + Len(q[i]) /\ at[i] < m
                        /\ fed[at[i] + 1] = ToString(Len(q[i]))
                        /\ \A j \in 1 .. Len(q[i]) : fed[at[i] + 1 + j] = q[i][j]
  BY <1>5 DEF Offsets, n, m
<1>9. \A k \in 1 .. m : k > 2 => \E i \in 1 .. n : at[i] < k /\ k <= at[i + 1]
  BY <1>5 DEF Offsets, n, m
<1>10. \A i \in 1 .. n + 1 : bt[i] = at[i] /\ at[i] \in Nat
  BY <1>4
<1>11. bt[n + 2] = m + 1 + l
  BY <1>4
<1> HIDE DEF bt
<1>12. Offsets(tag, more, r, bt)
  <2>1. bt[1] = 2 /\ bt[Len(r) + 1] = Len(more) /\ m + 1 + l = Len(more)
    <3>1. 1 \in 1 .. n + 1 /\ Len(r) + 1 = n + 2
      BY <1>3, <1>4
    <3> QED
      BY <1>e, <1>7, <1>10, <1>11, <3>1
  <2>2. Len(more) >= 2 /\ more[1] = ToString(1) /\ more[2] = tag
    <3>1. 1 \in 1 .. m /\ 2 \in 1 .. m /\ Len(more) >= 2
      BY <1>1, <1>2, <1>4, <1>7
    <3> QED
      BY <1>2, <1>7, <3>1
  <2>3. ASSUME NEW i \in 1 .. n
        PROVE  /\ bt[i + 1] = bt[i] + 1 + Len(r[i]) /\ bt[i] < Len(more)
               /\ more[bt[i] + 1] = ToString(Len(r[i]))
               /\ \A j \in 1 .. Len(r[i]) : more[bt[i] + 1 + j] = r[i][j]
    <3>1. r[i] = q[i] /\ bt[i] = at[i] /\ bt[i + 1] = at[i + 1] /\ at[i] \in Nat /\ at[i + 1] \in Nat
      BY <1>3, <1>4, <1>10
    <3>2. at[i + 1] = at[i] + 1 + Len(q[i]) /\ at[i] < m /\ Len(q[i]) \in Nat
      BY <1>q, <1>8
    <3>3. at[i + 1] <= m
      <4>1. CASE i = n
        BY <1>7, <4>1
      <4>2. CASE i # n
        <5>1. i + 1 \in 1 .. n
          BY <1>4, <4>2
        <5> QED
          BY <1>4, <1>8, <3>1, <5>1
      <4> QED
        BY <4>1, <4>2
    <3>4. at[i] + 1 \in 1 .. m
      BY <1>4, <3>1, <3>2, FrameBegins, Zenon
    <3>5. ASSUME NEW j \in 1 .. Len(q[i]) PROVE at[i] + 1 + j \in 1 .. m
      <4>2. at[i] + 1 + Len(q[i]) <= m
        BY <3>2, <3>3
      <4>3. at[i] \in Nat /\ Len(q[i]) \in Nat
        BY <3>1, <3>2
      <4> QED
        BY <1>4, <4>2, <4>3, WithinFrame, Zenon
    <3>6. more[at[i] + 1] = ToString(Len(q[i]))
      BY <1>2, <1>8, <3>4
    <3>7. ASSUME NEW j \in 1 .. Len(q[i]) PROVE more[at[i] + 1 + j] = q[i][j]
      BY <1>2, <1>8, <3>5
    <3>8. at[i] < Len(more)
      BY <1>1, <1>2, <1>4, <3>1, <3>2
    <3> QED
      BY <3>1, <3>2, <3>6, <3>7, <3>8
  <2>4. LET i == n + 1
        IN  /\ bt[i + 1] = bt[i] + 1 + Len(r[i]) /\ bt[i] < Len(more)
            /\ more[bt[i] + 1] = ToString(Len(r[i]))
            /\ \A j \in 1 .. Len(r[i]) : more[bt[i] + 1 + j] = r[i][j]
    <3>1. bt[n + 1] = m /\ bt[n + 1 + 1] = m + 1 + l /\ r[n + 1] = b /\ Len(b) = l
      BY <1>3, <1>4, <1>7, <1>10, <1>11 DEF l
    <3>2. more[m + 1] = ToString(l)
      <4>1. 1 \in 1 .. Len(f)
        BY <1>4, <1>e
      <4> QED
        BY <1>1, <1>2, <4>1
    <3>3. ASSUME NEW j \in 1 .. l PROVE more[m + 1 + j] = b[j]
      <4>1. j + 1 \in 1 .. Len(f) /\ m + (j + 1) = m + 1 + j
        BY <1>1, <1>4
      <4>2. more[m + (j + 1)] = f[j + 1] /\ f[j + 1] = b[j]
        BY <1>1, <1>2, <4>1
      <4> QED
        BY <4>1, <4>2
    <3>4. m < Len(more)
      BY <1>1, <1>2, <1>4
    <3> QED
      BY <3>1, <3>2, <3>3, <3>4
  <2>5. ASSUME NEW k \in 1 .. Len(more), k > 2
        PROVE  \E i \in 1 .. n + 1 : bt[i] < k /\ k <= bt[i + 1]
    <3>1. CASE k <= m
      <4>1. PICK i \in 1 .. n : at[i] < k /\ k <= at[i + 1]
        BY <1>4, <1>9, <2>5, <3>1
      <4>2. i \in 1 .. n + 1 /\ bt[i] = at[i] /\ bt[i + 1] = at[i + 1]
        BY <1>4, <1>10
      <4> QED
        BY <4>1, <4>2
    <3>2. CASE k > m
      <4>1. n + 1 \in 1 .. n + 1 /\ bt[n + 1] = m /\ bt[n + 1 + 1] = m + 1 + l
        <5>1. n + 1 \in 1 .. n + 1 /\ n + 1 + 1 = n + 2
          BY <1>4
        <5> QED
          BY <1>7, <1>10, <1>11, <5>1
      <4>2. bt[n + 1] < k /\ k <= bt[n + 1 + 1]
        BY <1>1, <1>2, <1>4, <2>5, <3>2, <4>1
      <4> QED
        BY <4>1, <4>2
    <3> QED
      BY <1>1, <1>2, <1>4, <3>1, <3>2
  <2>6. ASSUME NEW i \in 1 .. Len(r)
        PROVE  /\ bt[i + 1] = bt[i] + 1 + Len(r[i]) /\ bt[i] < Len(more)
               /\ more[bt[i] + 1] = ToString(Len(r[i]))
               /\ \A j \in 1 .. Len(r[i]) : more[bt[i] + 1 + j] = r[i][j]
    <3>1. i \in 1 .. n \/ i = n + 1
      BY <1>3, <1>4
    <3> QED
      BY <2>3, <2>4, <3>1
  <2> QED
    BY <1>3, <2>1, <2>2, <2>5, <2>6 DEF Offsets
<1> QED
  BY <1>2, <1>6, <1>12, Zenon DEF Framing, more, r, f

\* Two functions are alike up to n.
Alike(a, b, n) == \A i \in 1 .. n : a[i] = b[i]

\* Two functions that begin alike and continue alike.
LEMMA Stepwise ==
    ASSUME NEW n \in Nat, NEW a, NEW b, a[1] = b[1],
           \A i \in 1 .. n : a[i] = b[i] => a[i + 1] = b[i + 1]
    PROVE  Alike(a, b, n + 1)
<1> DEFINE I == {i \in 1 .. n + 1 : a[i] # b[i]}
<1>1. SUFFICES ASSUME I # {} PROVE FALSE
  BY DEF Alike
<1>2. I \subseteq Nat
  OBVIOUS
<1>3. PICK i \in I : \A j \in I : i <= j
  BY <1>1, <1>2, LeastExists
<1>4. i # 1 /\ i \in 1 .. n + 1 /\ a[i] # b[i]
  OBVIOUS
<1>5. i - 1 \in 1 .. n /\ i - 1 \in 1 .. n + 1 /\ (i - 1) + 1 = i /\ ~(i <= i - 1)
  BY <1>4
<1>6. i - 1 \notin I
  BY <1>3, <1>5
<1>7. a[i - 1] = b[i - 1]
  BY <1>5, <1>6
<1> QED
  BY <1>4, <1>5, <1>7

\* What Offsets says of the frame of q[i].
FramedAt(fed, q, at, i) ==
    /\ at[i] \in Nat /\ at[i + 1] \in Nat /\ Len(q[i]) \in Nat /\ q[i] \in Seq(Byte)
    /\ at[i + 1] = at[i] + 1 + Len(q[i]) /\ at[i] < Len(fed)
    /\ fed[at[i] + 1] = ToString(Len(q[i]))
    /\ \A j \in 1 .. Len(q[i]) : fed[at[i] + 1 + j] = q[i][j]

LEMMA FrameAt ==
    ASSUME NEW tag, NEW fed, NEW q \in Seq(Seq(Byte)), NEW at \in [1 .. Len(q) + 1 -> Nat],
           Offsets(tag, fed, q, at), NEW i \in 1 .. Len(q)
    PROVE  FramedAt(fed, q, at, i)
<1>1. Len(q) \in Nat /\ q[i] \in Seq(Byte)
  BY LenProperties, ElementOfSeq
<1>2. i \in 1 .. Len(q) + 1 /\ i + 1 \in 1 .. Len(q) + 1
  BY <1>1
<1>3. Len(q[i]) \in Nat /\ at[i] \in Nat /\ at[i + 1] \in Nat
  BY <1>1, <1>2, LenProperties
<1> QED
  BY <1>1, <1>3 DEF Offsets, FramedAt

\* The first n frames agree.
Agree(p, q, at, bt, n) ==
    /\ \A i \in 1 .. n + 1 : at[i] = bt[i]
    /\ \A i \in 1 .. n : p[i] = q[i]

\* The same bytes have frames of the same lengths, as far as both go.
LEMMA SameOffsets ==
    ASSUME HashAssumption, NEW tag, NEW tag2, NEW fed, NEW p \in Seq(Seq(Byte)), NEW q \in Seq(Seq(Byte)),
           NEW at \in [1 .. Len(p) + 1 -> Nat], NEW bt \in [1 .. Len(q) + 1 -> Nat],
           Offsets(tag, fed, p, at), Offsets(tag2, fed, q, bt),
           NEW n \in Nat, n <= Len(p), n <= Len(q)
    PROVE  Agree(p, q, at, bt, n)
<1>1. Len(p) \in Nat /\ Len(q) \in Nat
  BY LenProperties
<1>2. at[1] = bt[1]
  BY DEF Offsets
<1>3. ASSUME NEW i \in 1 .. n PROVE i \in 1 .. Len(p) /\ i \in 1 .. Len(q)
  BY <1>1
<1>4. ASSUME NEW i \in 1 .. n, at[i] = bt[i]
      PROVE  Len(p[i]) = Len(q[i]) /\ at[i + 1] = bt[i + 1]
  <2>1. /\ Len(p[i]) \in Nat /\ at[i + 1] = at[i] + 1 + Len(p[i])
        /\ fed[at[i] + 1] = ToString(Len(p[i]))
    <3>1. FramedAt(fed, p, at, i)
      BY <1>3, FrameAt, Zenon
    <3> QED
      BY <3>1 DEF FramedAt
  <2>2. /\ Len(q[i]) \in Nat /\ bt[i + 1] = bt[i] + 1 + Len(q[i])
        /\ fed[bt[i] + 1] = ToString(Len(q[i]))
    <3>1. FramedAt(fed, q, bt, i)
      BY <1>3, FrameAt, Zenon
    <3> QED
      BY <3>1 DEF FramedAt
  <2>3. ToString(Len(p[i])) = ToString(Len(q[i]))
    BY <1>4, <2>1, <2>2
  <2>4. Len(p[i]) = Len(q[i])
    BY <2>1, <2>2, <2>3 DEF HashAssumption
  <2> QED
    BY <1>4, <2>1, <2>2, <2>4
<1>5. \A i \in 1 .. n + 1 : at[i] = bt[i]
  <2>1. \A i \in 1 .. n : at[i] = bt[i] => at[i + 1] = bt[i + 1]
    BY <1>4, Zenon
  <2>2. Alike(at, bt, n + 1)
    BY <1>2, <2>1, Stepwise, Zenon
  <2> QED
    BY <2>2, Zenon DEF Alike
<1>6. ASSUME NEW i \in 1 .. n PROVE p[i] = q[i]
  <2>1. i \in 1 .. n + 1
    OBVIOUS
  <2>2. at[i] = bt[i] /\ Len(p[i]) = Len(q[i])
    BY <1>4, <1>5, <2>1
  <2>3. /\ p[i] \in Seq(Byte) /\ q[i] \in Seq(Byte)
        /\ \A j \in 1 .. Len(p[i]) : fed[at[i] + 1 + j] = p[i][j]
        /\ \A j \in 1 .. Len(q[i]) : fed[bt[i] + 1 + j] = q[i][j]
    <3>1. FramedAt(fed, p, at, i)
      BY <1>3, FrameAt, Zenon
    <3>2. FramedAt(fed, q, bt, i)
      BY <1>3, FrameAt, Zenon
    <3> QED
      BY <3>1, <3>2 DEF FramedAt
  <2>4. \A j \in 1 .. Len(p[i]) : p[i][j] = q[i][j]
    BY <2>2, <2>3
  <2> QED
    BY <2>2, <2>3, <2>4, SeqEqual
<1> QED
  BY <1>5, <1>6, Zenon DEF Agree

\* One cannot end where the other goes on.
LEMMA NoShorter ==
    ASSUME HashAssumption, NEW tag, NEW tag2, NEW fed, NEW p \in Seq(Seq(Byte)), NEW q \in Seq(Seq(Byte)),
           NEW at \in [1 .. Len(p) + 1 -> Nat], NEW bt \in [1 .. Len(q) + 1 -> Nat],
           Offsets(tag, fed, p, at), Offsets(tag2, fed, q, bt)
    PROVE  ~(Len(p) < Len(q))
<1> SUFFICES ASSUME Len(p) < Len(q) PROVE FALSE
  OBVIOUS
<1> DEFINE n == Len(p)
<1>1. n \in Nat /\ Len(q) \in Nat
  BY LenProperties
<1>2. n <= Len(p) /\ n <= Len(q) /\ n + 1 \in 1 .. n + 1 /\ n + 1 \in 1 .. Len(q)
  BY <1>1
<1>3. at[n + 1] = bt[n + 1]
  <2>1. Agree(p, q, at, bt, n)
    BY <1>1, <1>2, SameOffsets, Zenon
  <2> QED
    BY <1>2, <2>1, Zenon DEF Agree
<1>4. at[n + 1] = Len(fed)
  BY DEF Offsets
<1>5. bt[n + 1] \in Nat /\ bt[n + 1] < Len(fed)
  <2>1. FramedAt(fed, q, bt, n + 1)
    BY <1>2, FrameAt, Zenon
  <2> QED
    BY <2>1 DEF FramedAt
<1> HIDE DEF n
<1> QED
  BY <1>3, <1>4, <1>5

\* The bytes that were fed tell what was added.
LEMMA FramesDecode ==
    ASSUME HashAssumption, NEW tag, NEW tag2, NEW fed, NEW p \in Seq(Seq(Byte)), NEW q \in Seq(Seq(Byte)),
           Framing(tag, fed, p), Framing(tag2, fed, q)
    PROVE  p = q
<1>1. PICK at \in [1 .. Len(p) + 1 -> Nat] : Offsets(tag, fed, p, at)
  BY Zenon DEF Framing
<1>2. PICK bt \in [1 .. Len(q) + 1 -> Nat] : Offsets(tag2, fed, q, bt)
  BY Zenon DEF Framing
<1>3. Len(p) \in Nat /\ Len(q) \in Nat
  BY LenProperties
<1>4. ~(Len(p) < Len(q)) /\ ~(Len(q) < Len(p))
  BY <1>1, <1>2, NoShorter, Zenon
<1>5. Len(p) = Len(q) /\ Len(p) <= Len(p) /\ Len(p) <= Len(q)
  BY <1>3, <1>4
<1>6. \A i \in 1 .. Len(p) : p[i] = q[i]
  <2>1. Agree(p, q, at, bt, Len(p))
    BY <1>1, <1>2, <1>3, <1>5, SameOffsets, Zenon
  <2> QED
    BY <2>1, Zenon DEF Agree
<1> QED
  BY <1>5, <1>6, SeqEqual

\* The place in its frame of a byte that is no length.
LEMMA FrameRest ==
    ASSUME NEW a \in Nat, NEW l \in Nat, NEW k \in Nat, a < k, k <= a + 1 + l, k # a + 1
    PROVE  k - a - 1 \in 1 .. l /\ a + 1 + (k - a - 1) = k
OBVIOUS

\* What was added tells the bytes that were fed.
LEMMA FramesEncode ==
    ASSUME NEW tag, NEW fed \in Seq(Byte), NEW fed2 \in Seq(Byte), NEW q \in Seq(Seq(Byte)),
           Framing(tag, fed, q), Framing(tag, fed2, q)
    PROVE  fed = fed2
<1>1. PICK at \in [1 .. Len(q) + 1 -> Nat] : Offsets(tag, fed, q, at)
  BY Zenon DEF Framing
<1>2. PICK bt \in [1 .. Len(q) + 1 -> Nat] : Offsets(tag, fed2, q, bt)
  BY Zenon DEF Framing
<1>3. Len(q) \in Nat /\ Len(fed) \in Nat /\ Len(fed2) \in Nat
  BY LenProperties
<1>4. \A i \in 1 .. Len(q) + 1 : at[i] = bt[i]
  <2>1. at[1] = bt[1]
    BY <1>1, <1>2 DEF Offsets
  <2>2. ASSUME NEW i \in 1 .. Len(q), at[i] = bt[i] PROVE at[i + 1] = bt[i + 1]
    <3>1. at[i + 1] = at[i] + 1 + Len(q[i])
      <4>1. FramedAt(fed, q, at, i)
        BY <1>1, FrameAt, Zenon
      <4> QED
        BY <4>1 DEF FramedAt
    <3>2. bt[i + 1] = bt[i] + 1 + Len(q[i])
      <4>1. FramedAt(fed2, q, bt, i)
        BY <1>2, FrameAt, Zenon
      <4> QED
        BY <4>1 DEF FramedAt
    <3> QED
      BY <2>2, <3>1, <3>2
  <2>3. \A i \in 1 .. Len(q) : at[i] = bt[i] => at[i + 1] = bt[i + 1]
    BY <2>2, Zenon
  <2>4. Alike(at, bt, Len(q) + 1)
    BY <1>3, <2>1, <2>3, Stepwise, Zenon
  <2> QED
    BY <2>4, Zenon DEF Alike
<1>5. Len(fed) = Len(fed2)
  <2>1. Len(q) + 1 \in 1 .. Len(q) + 1
    BY <1>3
  <2> QED
    BY <1>1, <1>2, <1>4, <2>1 DEF Offsets
<1>6. ASSUME NEW k \in 1 .. Len(fed) PROVE fed[k] = fed2[k]
  <2>1. CASE k <= 2
    <3>1. k = 1 \/ k = 2
      BY <2>1
    <3> QED
      BY <1>1, <1>2, <3>1 DEF Offsets
  <2>2. CASE k > 2
    <3>1. PICK i \in 1 .. Len(q) : at[i] < k /\ k <= at[i + 1]
      BY <1>1, <2>2 DEF Offsets
    <3>2. /\ at[i] \in Nat /\ Len(q[i]) \in Nat /\ at[i + 1] = at[i] + 1 + Len(q[i])
          /\ fed[at[i] + 1] = ToString(Len(q[i]))
          /\ \A j \in 1 .. Len(q[i]) : fed[at[i] + 1 + j] = q[i][j]
      <4>1. FramedAt(fed, q, at, i)
        BY <1>1, FrameAt, Zenon
      <4> QED
        BY <4>1 DEF FramedAt
    <3>3. /\ fed2[bt[i] + 1] = ToString(Len(q[i]))
          /\ \A j \in 1 .. Len(q[i]) : fed2[bt[i] + 1 + j] = q[i][j]
      <4>1. FramedAt(fed2, q, bt, i)
        BY <1>2, FrameAt, Zenon
      <4> QED
        BY <4>1 DEF FramedAt
    <3>4. at[i] = bt[i]
      BY <1>3, <1>4
    <3>5. CASE k = at[i] + 1
      BY <3>2, <3>3, <3>4, <3>5
    <3>6. CASE k # at[i] + 1
      <4>1. k - at[i] - 1 \in 1 .. Len(q[i]) /\ at[i] + 1 + (k - at[i] - 1) = k
        <5>1. at[i] \in Nat /\ Len(q[i]) \in Nat /\ k \in Nat
          BY <3>2
        <5>2. at[i] < k /\ k <= at[i] + 1 + Len(q[i]) /\ k # at[i] + 1
          BY <3>1, <3>2, <3>6
        <5> QED
          BY <5>1, <5>2, FrameRest, Zenon
      <4> QED
        BY <3>2, <3>3, <3>4, <4>1
    <3> QED
      BY <3>5, <3>6
  <2> QED
    BY <2>1, <2>2
<1> QED
  BY <1>5, <1>6, SeqEqual

\* The bytes that derived_fingerprint hashes, for a parent and a step of one byte.
DerivedBytes(x, y) ==
    Frame(<<"derived-template-v1">>) \o Frame(<<x>>) \o Frame(<<y>>)

\* r is s and then t, element by element.
Follows(S, s, t, r) ==
    /\ r \in Seq(S) /\ Len(r) = Len(s) + Len(t)
    /\ \A i \in 1 .. Len(s) : r[i] = s[i]
    /\ \A i \in 1 .. Len(t) : r[Len(s) + i] = t[i]

LEMMA JoinedSeq ==
    ASSUME NEW S, NEW s \in Seq(S), NEW t \in Seq(S), NEW r, Joins(s, t, r)
    PROVE  Follows(S, s, t, r)
<1>1. r = s \o t
  BY DEF Joins
<1> QED
  BY <1>1, Joined DEF Follows

\* The frame of one byte.
LEMMA FrameOfOne ==
    ASSUME HashAssumption, NEW b \in Byte
    PROVE  /\ Frame(<<b>>) \in Seq(Byte) /\ Len(Frame(<<b>>)) = 2
           /\ Frame(<<b>>)[2] = b
<1> DEFINE one == <<b>>
<1>1. one \in Seq(Byte)
  OBVIOUS
<1>2. Len(one) = 1 /\ one[1] = b
  OBVIOUS
<1> HIDE DEF one
<1>3. /\ Frame(one) \in Seq(Byte) /\ Len(Frame(one)) = Len(one) + 1
      /\ \A j \in 1 .. Len(one) : Frame(one)[j + 1] = one[j]
  BY <1>1, FrameShape, Zenon
<1> QED
  BY <1>2, <1>3 DEF one

\* Where the second elements of three pairs are.
SecondOfEach(S, f1, f2, f3, w) ==
    w \in Seq(S) /\ w[2] = f1[2] /\ w[4] = f2[2] /\ w[6] = f3[2]

\* Three sequences of two elements, one after the other.
LEMMA ThreePairs ==
    ASSUME NEW S, NEW f1 \in Seq(S), NEW f2 \in Seq(S), NEW f3 \in Seq(S), NEW u, NEW w,
           Joins(f1, f2, u), Joins(u, f3, w), Len(f1) = 2, Len(f2) = 2, Len(f3) = 2
    PROVE  SecondOfEach(S, f1, f2, f3, w)
<1>1. /\ u \in Seq(S) /\ Len(u) = Len(f1) + Len(f2)
      /\ \A i \in 1 .. Len(f1) : u[i] = f1[i]
      /\ \A i \in 1 .. Len(f2) : u[Len(f1) + i] = f2[i]
  <2>1. Follows(S, f1, f2, u)
    BY JoinedSeq, Zenon
  <2> QED
    BY <2>1, Zenon DEF Follows
<1>2. u \in Seq(S)
  BY <1>1
<1>3. /\ w \in Seq(S)
      /\ \A i \in 1 .. Len(u) : w[i] = u[i]
      /\ \A i \in 1 .. Len(f3) : w[Len(u) + i] = f3[i]
  <2>1. Follows(S, u, f3, w)
    BY <1>2, JoinedSeq, Zenon
  <2> QED
    BY <2>1, Zenon DEF Follows
<1>4. Len(u) = 4 /\ 2 \in 1 .. 2 /\ 2 \in 1 .. 4 /\ 4 \in 1 .. 4 /\ 2 + 2 = 4 /\ 4 + 2 = 6
  BY <1>1
<1>5. u[2] = f1[2] /\ u[4] = f2[2]
  BY <1>1, <1>4
<1>6. w[2] = u[2] /\ w[4] = u[4] /\ w[6] = f3[2]
  BY <1>3, <1>4
<1> QED
  BY <1>3, <1>5, <1>6, Zenon DEF SecondOfEach

\* What was hashed for a derived template tells its parent and its step, and is
\* not what was hashed for a root.
LEMMA DerivedDecode ==
    ASSUME HashAssumption, NEW x \in Byte, NEW y \in Byte
    PROVE  /\ DerivedBytes(x, y) \in Seq(Byte) /\ DerivedBytes(x, y)[2] = "derived-template-v1"
           /\ DerivedBytes(x, y)[4] = x /\ DerivedBytes(x, y)[6] = y
<1> DEFINE d == "derived-template-v1"
           f1 == Frame(<<d>>)
           f2 == Frame(<<x>>)
           f3 == Frame(<<y>>)
           u == f1 \o f2
           w == DerivedBytes(x, y)
<1>1. d \in Byte
  BY DEF HashAssumption
<1>2. Joins(f1, f2, u) /\ Joins(u, f3, w)
  BY Zenon DEF Joins, DerivedBytes
<1>3. /\ f1 \in Seq(Byte) /\ f2 \in Seq(Byte) /\ f3 \in Seq(Byte)
      /\ Len(f1) = 2 /\ Len(f2) = 2 /\ Len(f3) = 2
      /\ f1[2] = d /\ f2[2] = x /\ f3[2] = y
  <2> HIDE DEF d
  <2> QED
    BY <1>1, FrameOfOne, Zenon
<1> HIDE DEF d, f1, f2, f3, u, w
<1>4. w \in Seq(Byte) /\ w[2] = f1[2] /\ w[4] = f2[2] /\ w[6] = f3[2]
  <2>1. SecondOfEach(Byte, f1, f2, f3, w)
    BY <1>2, <1>3, ThreePairs, Zenon
  <2> QED
    BY <2>1, Zenon DEF SecondOfEach
<1> QED
  BY <1>3, <1>4, Zenon DEF d, w

\* How the newest identity id comes from the inputs in l: fed[i] are the bytes of
\* step i, and g[i] is its fingerprint.
ChainOf(l, id, g, fed) ==
    /\ Len(l) >= 1
    /\ g \in [1 .. Len(l) -> Byte] /\ fed \in [1 .. Len(l) -> Seq(Byte)]
    /\ \A i \in 1 .. Len(l) : Framing("template-v1", fed[i], l[i])
    /\ g[1] = ToString(fed[1])
    /\ \A i \in 1 .. Len(l) - 1 : g[i + 1] = ToString(DerivedBytes(g[i], ToString(fed[i + 1])))
    /\ id = [fingerprint |-> <<g[Len(l)]>>,
             parent |-> IF Len(l) = 1 THEN NoFingerprint ELSE <<g[Len(l) - 1]>>]
Chain(l, id) == \E g \in [1 .. Len(l) -> Byte], fed \in [1 .. Len(l) -> Seq(Byte)] : ChainOf(l, id, g, fed)

\* One step of a chain.
Derives(g, fed, i) ==
    /\ i \in Nat /\ g[i] \in Byte /\ g[i + 1] \in Byte /\ fed[i + 1] \in Seq(Byte)
    /\ ToString(fed[i + 1]) \in Byte
    /\ g[i + 1] = ToString(DerivedBytes(g[i], ToString(fed[i + 1])))

LEMMA ChainStep ==
    ASSUME HashAssumption, NEW l \in Seq(Seq(Seq(Byte))), NEW id, NEW g, NEW fed, ChainOf(l, id, g, fed),
           NEW i \in 1 .. Len(l) - 1
    PROVE  Derives(g, fed, i)
<1>1. Len(l) \in Nat
  BY LenProperties
<1>2. i \in Nat /\ i \in 1 .. Len(l) /\ i + 1 \in 1 .. Len(l)
  BY <1>1
<1>3. g[i] \in Byte /\ g[i + 1] \in Byte /\ fed[i + 1] \in Seq(Byte)
  BY <1>2 DEF ChainOf
<1>4. ToString(fed[i + 1]) \in Byte
  BY <1>3 DEF HashAssumption
<1>5. g[i + 1] = ToString(DerivedBytes(g[i], ToString(fed[i + 1])))
  BY Zenon DEF ChainOf
<1> QED
  BY <1>2, <1>3, <1>4, <1>5, Zenon DEF Derives

\* Two steps start from the same fingerprint with the same bytes.
SameStep(g, fed, i, h, fed2, j) == g[i] = h[j] /\ fed[i + 1] = fed2[j + 1]

\* Equal fingerprints of derived templates come from equal parents and steps.
LEMMA DerivesBack ==
    ASSUME HashAssumption, NEW g, NEW fed, NEW i, NEW h, NEW fed2, NEW j,
           Derives(g, fed, i), Derives(h, fed2, j), g[i + 1] = h[j + 1]
    PROVE  SameStep(g, fed, i, h, fed2, j)
<1> DEFINE x == g[i]
           y == ToString(fed[i + 1])
           u == h[j]
           v == ToString(fed2[j + 1])
<1>1. /\ x \in Byte /\ y \in Byte /\ u \in Byte /\ v \in Byte
      /\ ToString(DerivedBytes(x, y)) = ToString(DerivedBytes(u, v))
      /\ fed[i + 1] \in Seq(Byte) /\ fed2[j + 1] \in Seq(Byte)
  BY Zenon DEF Derives
<1> HIDE DEF x, u
<1>2. /\ DerivedBytes(x, y) \in Seq(Byte) /\ DerivedBytes(u, v) \in Seq(Byte)
      /\ DerivedBytes(x, y)[4] = x /\ DerivedBytes(x, y)[6] = y
      /\ DerivedBytes(u, v)[4] = u /\ DerivedBytes(u, v)[6] = v
  <2> HIDE DEF y, v
  <2> QED
    BY <1>1, DerivedDecode, Zenon DEF HashAssumption
<1>3. DerivedBytes(x, y) = DerivedBytes(u, v)
  BY <1>1, <1>2, Zenon DEF HashAssumption
<1>4. x = u /\ y = v
  BY <1>2, <1>3, Zenon
<1> QED
  BY <1>1, <1>4, Zenon DEF HashAssumption, x, u, SameStep

\* The fingerprint of a root is not that of a derived template.
LEMMA RootNotDerived ==
    ASSUME HashAssumption, NEW q, NEW bytes \in Seq(Byte), Framing("template-v1", bytes, q),
           NEW h, NEW fed, NEW j, Derives(h, fed, j), h[j + 1] = ToString(bytes)
    PROVE  FALSE
<1> DEFINE x == h[j]
           y == ToString(fed[j + 1])
<1>1. x \in Byte /\ y \in Byte /\ ToString(DerivedBytes(x, y)) = ToString(bytes)
  BY Zenon DEF Derives
<1> HIDE DEF x, y
<1>2. DerivedBytes(x, y) \in Seq(Byte) /\ DerivedBytes(x, y)[2] = "derived-template-v1"
  BY <1>1, DerivedDecode, Zenon
<1>3. DerivedBytes(x, y) = bytes
  BY <1>1, <1>2, Zenon DEF HashAssumption
<1>4. bytes[2] = "template-v1"
  BY Zenon DEF Framing, Offsets
<1>5. "template-v1" # "derived-template-v1"
  OBVIOUS
<1> QED
  BY <1>2, <1>3, <1>4, <1>5, Zenon

\* Two chains agree r steps before their ends.
SameBack(l, g, k, h, r) == g[Len(l) - r] = h[Len(k) - r]

\* Two chains with the same newest fingerprint have the same fingerprints, going
\* back as far as both go.
LEMMA ChainBack ==
    ASSUME HashAssumption,
           NEW l \in Seq(Seq(Seq(Byte))), NEW id, NEW g, NEW fed, ChainOf(l, id, g, fed),
           NEW k \in Seq(Seq(Seq(Byte))), NEW jd, NEW h, NEW fed2, ChainOf(k, jd, h, fed2),
           g[Len(l)] = h[Len(k)],
           NEW r \in Nat, r < Len(l), r < Len(k)
    PROVE  SameBack(l, g, k, h, r)
<1> DEFINE n == Len(l)
           m == Len(k)
           a == [i \in 1 .. r + 1 |-> g[n + 1 - i]]
           b == [i \in 1 .. r + 1 |-> h[m + 1 - i]]
<1>1. n \in Nat /\ m \in Nat
  BY LenProperties
<1>0. r < n /\ r < m /\ g[n] = h[m]
  OBVIOUS
<1>s. /\ \A i \in 1 .. n - 1 : Derives(g, fed, i)
      /\ \A i \in 1 .. m - 1 : Derives(h, fed2, i)
  BY ChainStep, Zenon
<1> HIDE DEF n, m
<1>2. a[1] = b[1]
  <2>1. 1 \in 1 .. r + 1 /\ n + 1 - 1 = n /\ m + 1 - 1 = m
    BY <1>1
  <2> QED
    BY <1>0, <2>1
<1>3. ASSUME NEW i \in 1 .. r, a[i] = b[i] PROVE a[i + 1] = b[i + 1]
  <2>1. i \in 1 .. r + 1 /\ i + 1 \in 1 .. r + 1
    OBVIOUS
  <2>2. /\ n - i \in 1 .. n - 1 /\ m - i \in 1 .. m - 1
        /\ n + 1 - i = (n - i) + 1 /\ m + 1 - i = (m - i) + 1
        /\ n + 1 - (i + 1) = n - i /\ m + 1 - (i + 1) = m - i
    BY <1>1, <1>0
  <2>3. g[(n - i) + 1] = h[(m - i) + 1]
    BY <1>3, <2>1, <2>2
  <2>4. Derives(g, fed, n - i) /\ Derives(h, fed2, m - i)
    BY <1>s, <2>2
  <2>5. g[n - i] = h[m - i]
    <3>1. SameStep(g, fed, n - i, h, fed2, m - i)
      BY <2>3, <2>4, DerivesBack, Zenon
    <3> QED
      BY <3>1, Zenon DEF SameStep
  <2> QED
    BY <2>1, <2>2, <2>5
<1> HIDE DEF a, b
<1>4. \A i \in 1 .. r : a[i] = b[i] => a[i + 1] = b[i + 1]
  BY <1>3, Zenon
<1>5. Alike(a, b, r + 1)
  BY <1>2, <1>4, Stepwise, Zenon
<1>6. a[r + 1] = b[r + 1]
  <2>1. r + 1 \in 1 .. r + 1
    OBVIOUS
  <2> QED
    BY <1>5, <2>1, Zenon DEF Alike
<1>7. n + 1 - (r + 1) = n - r /\ m + 1 - (r + 1) = m - r /\ r + 1 \in 1 .. r + 1
  BY <1>1
<1> QED
  BY <1>6, <1>7 DEF a, b, n, m, SameBack

\* One chain cannot end at a root where the other goes on.
LEMMA NoShorterChain ==
    ASSUME HashAssumption,
           NEW l \in Seq(Seq(Seq(Byte))), NEW id, NEW g, NEW fed, ChainOf(l, id, g, fed),
           NEW k \in Seq(Seq(Seq(Byte))), NEW jd, NEW h, NEW fed2, ChainOf(k, jd, h, fed2),
           g[Len(l)] = h[Len(k)]
    PROVE  ~(Len(l) < Len(k))
<1> SUFFICES ASSUME Len(l) < Len(k) PROVE FALSE
  OBVIOUS
<1> DEFINE n == Len(l)
           m == Len(k)
           r == n - 1
<1>1. n \in Nat /\ m \in Nat /\ n >= 1 /\ n < m
  BY LenProperties DEF ChainOf
<1>2. r \in Nat /\ r < n /\ r < m
  BY <1>1
<1>3. g[n - r] = h[m - r]
  <2> HIDE DEF r
  <2>1. SameBack(l, g, k, h, r)
    BY <1>2, ChainBack, Zenon
  <2> QED
    BY <2>1, Zenon DEF SameBack
<1>4. n - r = 1 /\ m - r = (m - n) + 1 /\ m - n \in 1 .. m - 1
  BY <1>1
<1>5. Derives(h, fed2, m - n)
  BY <1>4, ChainStep, Zenon
<1>6. 1 \in 1 .. n
  BY <1>1
<1>7. g[1] = ToString(fed[1]) /\ fed[1] \in Seq(Byte) /\ Framing("template-v1", fed[1], l[1])
  BY <1>6 DEF ChainOf
<1>8. h[(m - n) + 1] = ToString(fed[1])
  BY <1>3, <1>4, <1>7
<1> QED
  BY <1>5, <1>7, <1>8, RootNotDerived, Zenon

\* Equal fingerprints: equal inputs all along, and the same identity.
LEMMA PrintsDecode ==
    ASSUME HashAssumption,
           NEW l \in Seq(Seq(Seq(Byte))), NEW id, Chain(l, id),
           NEW k \in Seq(Seq(Seq(Byte))), NEW jd, Chain(k, jd),
           id.fingerprint = jd.fingerprint
    PROVE  l = k /\ id.parent = jd.parent
<1>1. PICK g \in [1 .. Len(l) -> Byte], fed \in [1 .. Len(l) -> Seq(Byte)] : ChainOf(l, id, g, fed)
  BY Zenon DEF Chain
<1>2. PICK h \in [1 .. Len(k) -> Byte], fed2 \in [1 .. Len(k) -> Seq(Byte)] : ChainOf(k, jd, h, fed2)
  BY Zenon DEF Chain
<1>3. g[Len(l)] = h[Len(k)]
  <2>1. id.fingerprint = <<g[Len(l)]>> /\ jd.fingerprint = <<h[Len(k)]>>
    BY <1>1, <1>2 DEF ChainOf
  <2> DEFINE x == g[Len(l)]
             y == h[Len(k)]
  <2>2. <<x>> = <<y>>
    BY <2>1, Zenon
  <2> HIDE DEF x, y
  <2>3. <<x>>[1] = x /\ <<y>>[1] = y
    OBVIOUS
  <2>4. x = y
    BY <2>2, <2>3, Zenon
  <2> QED
    BY <2>4 DEF x, y
<1>4. Len(l) \in Nat /\ Len(k) \in Nat /\ Len(l) >= 1
  BY <1>1, LenProperties DEF ChainOf
<1>5. ~(Len(l) < Len(k)) /\ ~(Len(k) < Len(l))
  BY <1>1, <1>2, <1>3, NoShorterChain, Zenon
<1>6. Len(l) = Len(k)
  BY <1>4, <1>5
<1>7. ASSUME NEW i \in 1 .. Len(l) PROVE g[i] = h[i]
  <2> DEFINE r == Len(l) - i
  <2>1. r \in Nat /\ r < Len(l) /\ r < Len(k) /\ Len(l) - r = i /\ Len(k) - r = i
    BY <1>4, <1>6
  <2>2. r \in Nat /\ r < Len(l) /\ r < Len(k)
    BY <2>1
  <2> HIDE DEF r
  <2>3. g[Len(l) - r] = h[Len(k) - r]
    <3>1. SameBack(l, g, k, h, r)
      BY <1>1, <1>2, <1>3, <2>2, ChainBack, Zenon
    <3> QED
      BY <3>1, Zenon DEF SameBack
  <2> QED
    BY <2>1, <2>3
<1>8. ASSUME NEW i \in 1 .. Len(l) PROVE fed[i] = fed2[i]
  <2>1. fed[i] \in Seq(Byte) /\ fed2[i] \in Seq(Byte)
    BY <1>6
  <2>2. CASE i = 1
    <3>1. g[1] = ToString(fed[1]) /\ h[1] = ToString(fed2[1]) /\ g[1] = h[1]
      BY <1>1, <1>2, <1>7, <2>2 DEF ChainOf
    <3>2. ToString(fed[i]) = ToString(fed2[i])
      BY <2>2, <3>1
    <3> QED
      BY <2>1, <3>2, Zenon DEF HashAssumption
  <2>3. CASE i # 1
    <3> DEFINE j == i - 1
    <3>1. j \in 1 .. Len(l) - 1 /\ j \in 1 .. Len(k) - 1 /\ j + 1 = i
      BY <1>4, <1>6, <2>3
    <3> HIDE DEF j
    <3>2. Derives(g, fed, j) /\ Derives(h, fed2, j)
      BY <1>1, <1>2, <3>1, ChainStep, Zenon
    <3>3. g[j + 1] = h[j + 1]
      BY <1>7, <3>1
    <3>4. fed[j + 1] = fed2[j + 1]
      <4>1. SameStep(g, fed, j, h, fed2, j)
        BY <3>2, <3>3, DerivesBack, Zenon
      <4> QED
        BY <4>1, Zenon DEF SameStep
    <3> QED
      BY <3>1, <3>4
  <2> QED
    BY <2>2, <2>3
<1>9. ASSUME NEW i \in 1 .. Len(l) PROVE l[i] = k[i]
  <2>1. l[i] \in Seq(Seq(Byte)) /\ k[i] \in Seq(Seq(Byte))
    BY <1>6, ElementOfSeq
  <2>2. Framing("template-v1", fed[i], l[i])
    BY <1>1, Zenon DEF ChainOf
  <2>3. Framing("template-v1", fed[i], k[i])
    <3>1. Framing("template-v1", fed2[i], k[i])
      BY <1>2, <1>6 DEF ChainOf
    <3> QED
      BY <1>8, <3>1, Zenon
  <2> QED
    BY <2>1, <2>2, <2>3, FramesDecode, Zenon
<1>10. l = k
  BY <1>6, <1>9, SeqEqual
<1>11. id.parent = jd.parent
  <2>1. /\ id.parent = IF Len(l) = 1 THEN NoFingerprint ELSE <<g[Len(l) - 1]>>
        /\ jd.parent = IF Len(k) = 1 THEN NoFingerprint ELSE <<h[Len(k) - 1]>>
    BY <1>1, <1>2 DEF ChainOf
  <2>2. CASE Len(l) = 1
    BY <1>6, <2>1, <2>2
  <2>3. CASE Len(l) # 1
    <3>1. Len(l) - 1 \in 1 .. Len(l) /\ Len(k) - 1 = Len(l) - 1 /\ Len(k) # 1
      BY <1>4, <1>6, <2>3
    <3> QED
      BY <1>7, <2>1, <2>3, <3>1
  <2> QED
    BY <2>2, <2>3
<1> QED
  BY <1>10, <1>11

\* Equal inputs all along: the same fingerprint.
LEMMA PrintsEncode ==
    ASSUME HashAssumption, NEW l \in Seq(Seq(Seq(Byte))), NEW id, Chain(l, id), NEW jd, Chain(l, jd)
    PROVE  id.fingerprint = jd.fingerprint
<1>1. PICK g \in [1 .. Len(l) -> Byte], fed \in [1 .. Len(l) -> Seq(Byte)] : ChainOf(l, id, g, fed)
  BY Zenon DEF Chain
<1>2. PICK h \in [1 .. Len(l) -> Byte], fed2 \in [1 .. Len(l) -> Seq(Byte)] : ChainOf(l, jd, h, fed2)
  BY Zenon DEF Chain
<1>3. Len(l) \in Nat /\ Len(l) >= 1
  BY <1>1, LenProperties DEF ChainOf
<1>4. ASSUME NEW i \in 1 .. Len(l) PROVE fed[i] = fed2[i]
  <2>1. l[i] \in Seq(Seq(Byte)) /\ fed[i] \in Seq(Byte) /\ fed2[i] \in Seq(Byte)
    BY ElementOfSeq
  <2>2. Framing("template-v1", fed[i], l[i]) /\ Framing("template-v1", fed2[i], l[i])
    BY <1>1, <1>2, Zenon DEF ChainOf
  <2> QED
    BY <2>1, <2>2, FramesEncode, Zenon
<1>5. g[1] = h[1]
  <2>1. 1 \in 1 .. Len(l)
    BY <1>3
  <2> QED
    BY <1>1, <1>2, <1>4, <2>1, Zenon DEF ChainOf
<1> DEFINE n == Len(l) - 1
<1>6. n \in Nat /\ n + 1 = Len(l)
  BY <1>3
<1>7. ASSUME NEW i \in 1 .. n, g[i] = h[i] PROVE g[i + 1] = h[i + 1]
  <2>1. i + 1 \in 1 .. Len(l) /\ i \in 1 .. Len(l) - 1
    BY <1>3
  <2>2. Derives(g, fed, i) /\ Derives(h, fed2, i)
    BY <1>1, <1>2, <2>1, ChainStep, Zenon
  <2>3. fed[i + 1] = fed2[i + 1]
    BY <1>4, <2>1
  <2> QED
    BY <1>7, <2>2, <2>3, Zenon DEF Derives
<1> HIDE DEF n
<1>8. \A i \in 1 .. n : g[i] = h[i] => g[i + 1] = h[i + 1]
  BY <1>7, Zenon
<1>9. Alike(g, h, n + 1)
  BY <1>5, <1>6, <1>8, Stepwise, Zenon
<1>10. g[Len(l)] = h[Len(l)]
  <2>1. Len(l) \in 1 .. Len(l)
    BY <1>3
  <2> QED
    BY <1>6, <1>9, <2>1, Zenon DEF Alike
<1> QED
  BY <1>1, <1>2, <1>10 DEF ChainOf

\* A builder begins with the frame of its tag.
LEMMA FrameStart ==
    ASSUME HashAssumption, NEW tag \in Byte
    PROVE  Framing(tag, Frame(<<tag>>), <<>>)
<1> DEFINE fed == Frame(<<tag>>)
           at == [i \in 1 .. 1 |-> 2]
           q == <<>>
           one == <<tag>>
<1>1. Len(fed) = 2 /\ fed[2] = tag
  BY FrameOfOne, Zenon
<1>2. fed[1] = ToString(1)
  <2>1. one \in Seq(Byte)
    OBVIOUS
  <2>2. Len(one) = 1
    OBVIOUS
  <2> HIDE DEF one
  <2>3. Frame(one)[1] = ToString(Len(one))
    BY <2>1, FrameShape, Zenon
  <2> QED
    BY <2>2, <2>3 DEF one
<1> HIDE DEF fed
<1>3. Len(q) = 0 /\ Len(q) + 1 = 1 /\ 1 .. Len(q) = {}
  OBVIOUS
<1>4. at \in [1 .. Len(q) + 1 -> Nat] /\ at[1] = 2
  BY <1>3
<1> HIDE DEF at, q
<1>5. \A k \in 1 .. Len(fed) : ~(k > 2)
  BY <1>1
<1>6. Len(fed) >= 2 /\ at[Len(q) + 1] = Len(fed)
  BY <1>1, <1>3, <1>4
<1>7. Offsets(tag, fed, q, at)
  BY <1>1, <1>2, <1>3, <1>4, <1>5, <1>6, Zenon DEF Offsets
<1>8. Framing(tag, fed, q)
  BY <1>4, <1>7, Zenon DEF Framing
<1> QED
  BY <1>8 DEF fed, q

\* What new feeds.
LEMMA NewFrames ==
    ASSUME HashAssumption, NEW domain \in Seq(Byte)
    PROVE  /\ NewBuilder(domain) \in Seq(Byte) /\ <<domain>> \in Seq(Seq(Byte))
           /\ Framing("template-v1", NewBuilder(domain), <<domain>>)
<1> DEFINE tag == "template-v1"
           fed == Frame(<<tag>>)
           none == <<>>
<1>1. tag \in Byte
  BY DEF HashAssumption
<1>2. NewBuilder(domain) = fed \o Frame(domain)
  BY Zenon DEF NewBuilder
<1> HIDE DEF tag
<1>3. fed \in Seq(Byte)
  BY <1>1, FrameOfOne, Zenon
<1>4. Framing(tag, fed, none)
  BY <1>1, FrameStart, Zenon
<1>5. none \in Seq(Seq(Byte)) /\ Append(none, domain) = <<domain>> /\ <<domain>> \in Seq(Seq(Byte))
  OBVIOUS
<1> HIDE DEF fed, none
<1>6. /\ fed \o Frame(domain) \in Seq(Byte)
      /\ Framing(tag, fed \o Frame(domain), Append(none, domain))
  BY <1>3, <1>4, <1>5, FrameMore
<1> QED
  BY <1>2, <1>5, <1>6, Zenon DEF tag

\* What add feeds.
LEMMA AddFrames ==
    ASSUME HashAssumption, NEW label \in Seq(Byte), NEW content \in Seq(Byte),
           NEW fed \in Seq(Byte), NEW q \in Seq(Seq(Byte)), Framing("template-v1", fed, q)
    PROVE  /\ AddTo(fed, label, content) \in Seq(Byte)
           /\ q \o <<label, content>> \in Seq(Seq(Byte))
           /\ Framing("template-v1", AddTo(fed, label, content), q \o <<label, content>>)
<1> DEFINE tag == "template-v1"
           more == fed \o Frame(label)
           p == Append(q, label)
<1>1. AddTo(fed, label, content) = more \o Frame(content)
  BY Zenon DEF AddTo
<1>2. Framing(tag, fed, q)
  OBVIOUS
<1> HIDE DEF tag
<1>3. more \in Seq(Byte) /\ Framing(tag, more, p)
  BY <1>2, FrameMore
<1>4. p \in Seq(Seq(Byte))
  OBVIOUS
<1> HIDE DEF more
<1>5. /\ more \o Frame(content) \in Seq(Byte)
      /\ Framing(tag, more \o Frame(content), Append(p, content))
  BY <1>3, <1>4, FrameMore
<1>6. Append(p, content) = q \o <<label, content>> /\ Append(p, content) \in Seq(Seq(Byte))
  OBVIOUS
<1> QED
  BY <1>1, <1>5, <1>6, Zenon DEF tag

\* The identity of a root.
LEMMA ChainRoot ==
    ASSUME HashAssumption, NEW q \in Seq(Seq(Byte)), NEW bytes \in Seq(Byte),
           Framing("template-v1", bytes, q),
           NEW id, id = [fingerprint |-> Digest(bytes), parent |-> NoFingerprint]
    PROVE  Chain(Append(<<>>, q), id) /\ id # NoIdentity
<1> DEFINE l == Append(<<>>, q)
           x == ToString(bytes)
           g == [i \in 1 .. 1 |-> x]
           fed == [i \in 1 .. 1 |-> bytes]
<1>1. l = <<q>>
  OBVIOUS
<1>2. Len(l) = 1 /\ l[1] = q
  BY <1>1
<1>3. x \in Byte /\ x # "none"
  BY DEF HashAssumption
<1>4. id = [fingerprint |-> <<x>>, parent |-> NoFingerprint]
  BY Zenon DEF Digest
<1> HIDE DEF l, x
<1>5. /\ g \in [1 .. 1 -> Byte] /\ fed \in [1 .. 1 -> Seq(Byte)]
      /\ g[1] = x /\ fed[1] = bytes
  BY <1>3
<1>6. g[1] = ToString(fed[1])
  BY <1>5, Zenon DEF x
<1> HIDE DEF g, fed
<1>7. \A i \in 1 .. 1 : Framing("template-v1", fed[i], l[i])
  <2>1. \A i \in 1 .. 1 : i = 1
    OBVIOUS
  <2> QED
    BY <1>2, <1>5, <2>1, Zenon
<1>8. \A i \in 1 .. Len(l) - 1 : FALSE
  BY <1>2
<1>9. ChainOf(l, id, g, fed)
  <2>1. Len(l) >= 1
    BY <1>2
  <2> QED
    BY <1>2, <1>4, <1>5, <1>6, <1>7, <1>8, <2>1, Zenon DEF ChainOf
<1>10. Chain(l, id)
  BY <1>2, <1>5, <1>9, Zenon DEF Chain
<1>11. id # NoIdentity
  <2>1. id.fingerprint = <<x>> /\ NoIdentity.fingerprint = <<"none">>
    BY <1>4 DEF NoIdentity, NoFingerprint
  <2>2. <<x>>[1] = x /\ <<"none">>[1] = "none"
    OBVIOUS
  <2> QED
    BY <1>3, <2>1, <2>2, Zenon
<1> QED
  BY <1>10, <1>11, Zenon DEF l

\* The identity of a derived template.
LEMMA ChainMore ==
    ASSUME HashAssumption, NEW l \in Seq(Seq(Seq(Byte))), NEW id, Chain(l, id),
           NEW q \in Seq(Seq(Byte)), NEW bytes \in Seq(Byte), Framing("template-v1", bytes, q),
           NEW jd, jd = [fingerprint |-> DerivedFingerprint(id.fingerprint, Digest(bytes)),
                         parent |-> id.fingerprint]
    PROVE  Chain(Append(l, q), jd) /\ jd # NoIdentity
<1> DEFINE n == Len(l)
           k == Append(l, q)
<1>1. PICK g \in [1 .. Len(l) -> Byte], fed \in [1 .. Len(l) -> Seq(Byte)] : ChainOf(l, id, g, fed)
  BY Zenon DEF Chain
<1>2. n \in Nat /\ n >= 1
  BY <1>1, LenProperties DEF ChainOf
<1>3. k \in Seq(Seq(Seq(Byte))) /\ Len(k) = n + 1 /\ k[n + 1] = q /\ \A i \in 1 .. n : k[i] = l[i]
  BY AppendProperties
<1> DEFINE y == ToString(bytes)
           x == ToString(DerivedBytes(g[n], y))
           h == [i \in 1 .. n + 1 |-> IF i = n + 1 THEN x ELSE g[i]]
           fed2 == [i \in 1 .. n + 1 |-> IF i = n + 1 THEN bytes ELSE fed[i]]
<1>4. id.fingerprint = <<g[n]>> /\ g[n] \in Byte
  <2>1. n \in 1 .. n
    BY <1>2
  <2>2. g[n] \in Byte
    BY <2>1
  <2>3. id.fingerprint = <<g[n]>>
    BY <1>1 DEF ChainOf
  <2> QED
    BY <2>2, <2>3
<1>5. y \in Byte
  BY DEF HashAssumption
<1>6. jd = [fingerprint |-> <<x>>, parent |-> <<g[n]>>]
  BY <1>4, Zenon DEF DerivedFingerprint, Digest, DerivedBytes
<1>7. x \in Byte /\ x # "none"
  <2> HIDE DEF y
  <2>1. DerivedBytes(g[n], y) \in Seq(Byte)
    BY <1>4, <1>5, DerivedDecode, Zenon
  <2> QED
    BY <2>1 DEF HashAssumption
<1>8. /\ \A i \in 1 .. n : g[i] \in Byte /\ fed[i] \in Seq(Byte)
      /\ \A i \in 1 .. n : Framing("template-v1", fed[i], l[i])
      /\ g[1] = ToString(fed[1])
      /\ \A i \in 1 .. n - 1 : g[i + 1] = ToString(DerivedBytes(g[i], ToString(fed[i + 1])))
  BY <1>1, Zenon DEF ChainOf
<1> HIDE DEF n, k
<1>9. /\ \A i \in 1 .. n : i \in 1 .. n + 1 /\ i # n + 1
      /\ n + 1 \in 1 .. n + 1 /\ 1 \in 1 .. n /\ (n + 1) - 1 = n
  BY <1>2
<1>10. /\ h \in [1 .. n + 1 -> Byte] /\ fed2 \in [1 .. n + 1 -> Seq(Byte)]
  <2> HIDE DEF x
  <2>1. \A i \in 1 .. n + 1 : i # n + 1 => i \in 1 .. n
    BY <1>2
  <2>2. \A i \in 1 .. n : g[i] \in Byte
    BY <1>8, Zenon
  <2>3. \A i \in 1 .. n : fed[i] \in Seq(Byte)
    BY <1>8, Zenon
  <2>4. h \in [1 .. n + 1 -> Byte]
    BY <1>7, <2>1, <2>2
  <2>5. fed2 \in [1 .. n + 1 -> Seq(Byte)]
    BY <2>1, <2>3
  <2> QED
    BY <2>4, <2>5
<1>11. /\ \A i \in 1 .. n : h[i] = g[i] /\ fed2[i] = fed[i]
       /\ h[n + 1] = x /\ fed2[n + 1] = bytes
  <2> HIDE DEF x
  <2> QED
    BY <1>9
<1> HIDE DEF h, fed2
<1>12. \A i \in 1 .. n + 1 : i \in 1 .. n \/ i = n + 1
  BY <1>2
<1>13. \A i \in 1 .. n + 1 : Framing("template-v1", fed2[i], k[i])
  BY <1>3, <1>8, <1>11, <1>12, Zenon
<1>14. h[1] = ToString(fed2[1])
  BY <1>8, <1>9, <1>11, Zenon
<1>15. ASSUME NEW i \in 1 .. n PROVE h[i + 1] = ToString(DerivedBytes(h[i], ToString(fed2[i + 1])))
  <2>1. CASE i = n
    BY <1>11, <2>1, Zenon
  <2>2. CASE i # n
    <3>1. i \in 1 .. n - 1 /\ i + 1 \in 1 .. n
      BY <1>2, <2>2
    <3> QED
      BY <1>8, <1>11, <3>1, Zenon
  <2> QED
    BY <2>1, <2>2
<1>16. ChainOf(k, jd, h, fed2)
  <2>1. Len(k) >= 1 /\ Len(k) - 1 = n /\ Len(k) # 1
    BY <1>2, <1>3
  <2>2. n \in 1 .. n /\ h[n] = g[n]
    BY <1>2, <1>11
  <2>3. jd = [fingerprint |-> <<h[Len(k)]>>,
              parent |-> IF Len(k) = 1 THEN NoFingerprint ELSE <<h[Len(k) - 1]>>]
    BY <1>3, <1>6, <1>11, <2>1, <2>2, Zenon
  <2> QED
    BY <1>3, <1>10, <1>13, <1>14, <1>15, <2>1, <2>3, Zenon DEF ChainOf
<1>17. Chain(k, jd)
  BY <1>3, <1>10, <1>16, Zenon DEF Chain
<1>18. jd # NoIdentity
  <2> HIDE DEF x
  <2>1. jd.fingerprint = <<x>> /\ NoIdentity.fingerprint = <<"none">>
    BY <1>6 DEF NoIdentity, NoFingerprint
  <2>2. <<x>>[1] = x /\ <<"none">>[1] = "none"
    OBVIOUS
  <2> QED
    BY <1>7, <2>1, <2>2, Zenon
<1> QED
  BY <1>17, <1>18, Zenon DEF k

-----------------------------------------------------------------------------
\* The inductive invariant: a builder holds the frames of what it was given, and
\* an identity is the end of the chain of what it was made from.
PrintsInv ==
    /\ builder = [c \in Caller |-> builder[c]] /\ arguments = [c \in Caller |-> arguments[c]]
    /\ identity = [c \in Caller |-> identity[c]] /\ lineage = [c \in Caller |-> lineage[c]]
    /\ \A c \in Caller :
           /\ arguments[c] \in Seq(Seq(Byte)) /\ lineage[c] \in Seq(Seq(Seq(Byte)))
           /\ builder[c] # Idle =>
                  builder[c] \in Seq(Byte) /\ Framing("template-v1", builder[c], arguments[c])
           /\ IF identity[c] = NoIdentity THEN lineage[c] = <<>>
              ELSE Chain(lineage[c], identity[c])

\* What the invariant says of one caller.
CallerInv(b, q, id, l) ==
    /\ q \in Seq(Seq(Byte)) /\ l \in Seq(Seq(Seq(Byte)))
    /\ b # Idle => b \in Seq(Byte) /\ Framing("template-v1", b, q)
    /\ IF id = NoIdentity THEN l = <<>> ELSE Chain(l, id)

\* Only one caller moves in a step.
LEMMA OneCaller ==
    ASSUME PrintsInv, NEW c \in Caller, NEW b, NEW q, NEW id, NEW l, CallerInv(b, q, id, l),
           builder' = [builder EXCEPT ![c] = b], arguments' = [arguments EXCEPT ![c] = q],
           identity' = [identity EXCEPT ![c] = id], lineage' = [lineage EXCEPT ![c] = l]
    PROVE  PrintsInv'
<1>1. /\ builder' = [d \in Caller |-> builder'[d]] /\ arguments' = [d \in Caller |-> arguments'[d]]
      /\ identity' = [d \in Caller |-> identity'[d]] /\ lineage' = [d \in Caller |-> lineage'[d]]
  BY DEF PrintsInv
<1>2. ASSUME NEW d \in Caller PROVE CallerInv(builder'[d], arguments'[d], identity'[d], lineage'[d])
  <2>1. CallerInv(builder[d], arguments[d], identity[d], lineage[d])
    BY Zenon DEF PrintsInv, CallerInv
  <2>2. CASE d = c
    <3>1. builder'[d] = b /\ arguments'[d] = q /\ identity'[d] = id /\ lineage'[d] = l
      BY <2>2 DEF PrintsInv
    <3> QED
      BY <3>1, Zenon
  <2>3. CASE d # c
    <3>1. /\ builder'[d] = builder[d] /\ arguments'[d] = arguments[d]
          /\ identity'[d] = identity[d] /\ lineage'[d] = lineage[d]
      BY <2>3 DEF PrintsInv
    <3> QED
      BY <2>1, <3>1, Zenon
  <2> QED
    BY <2>2, <2>3
<1> QED
  BY <1>1, <1>2, Zenon DEF PrintsInv, CallerInv

LEMMA PrintsStart ==
    ASSUME PrintsInit
    PROVE  PrintsInv
<1> DEFINE none == <<>>
<1>1. none \in Seq(Seq(Byte)) /\ none \in Seq(Seq(Seq(Byte)))
  OBVIOUS
<1> HIDE DEF none
<1>2. /\ builder = [c \in Caller |-> Idle] /\ arguments = [c \in Caller |-> none]
      /\ identity = [c \in Caller |-> NoIdentity] /\ lineage = [c \in Caller |-> none]
  BY Zenon DEF PrintsInit, none
<1>3. /\ builder = [c \in Caller |-> builder[c]] /\ arguments = [c \in Caller |-> arguments[c]]
      /\ identity = [c \in Caller |-> identity[c]] /\ lineage = [c \in Caller |-> lineage[c]]
  BY <1>2
<1>4. \A c \in Caller : /\ builder[c] = Idle /\ arguments[c] = none
                        /\ identity[c] = NoIdentity /\ lineage[c] = none
  BY <1>2
<1> QED
  BY <1>1, <1>3, <1>4, Zenon DEF PrintsInv, none

LEMMA NewStep ==
    ASSUME HashAssumption, PrintsInv, NEW c \in Caller, NEW domain \in Domain, New(c, domain)
    PROVE  PrintsInv'
<1> DEFINE b == NewBuilder(domain)
           q == <<domain>>
<1>1. b \in Seq(Byte) /\ q \in Seq(Seq(Byte)) /\ Framing("template-v1", b, q)
  <2>1. domain \in Seq(Byte)
    BY DEF HashAssumption
  <2> QED
    BY <2>1, NewFrames
<1>2. /\ builder' = [builder EXCEPT ![c] = b] /\ arguments' = [arguments EXCEPT ![c] = q]
      /\ identity' = identity /\ lineage' = lineage
  BY Zenon DEF New
<1> HIDE DEF b, q
<1>3. /\ identity' = [identity EXCEPT ![c] = identity[c]]
      /\ lineage' = [lineage EXCEPT ![c] = lineage[c]]
  BY <1>2 DEF PrintsInv
<1>b. builder' = [builder EXCEPT ![c] = b] /\ arguments' = [arguments EXCEPT ![c] = q]
  BY <1>2
<1>4. CallerInv(b, q, identity[c], lineage[c])
  BY <1>1, Zenon DEF CallerInv, PrintsInv
<1> QED
  BY <1>b, <1>3, <1>4, OneCaller, Zenon

LEMMA AddStep ==
    ASSUME HashAssumption, PrintsInv, NEW c \in Caller, NEW label \in Label, NEW content \in Content,
           Add(c, label, content)
    PROVE  PrintsInv'
<1> DEFINE b == AddTo(builder[c], label, content)
           q == arguments[c] \o <<label, content>>
<1>1. builder[c] \in Seq(Byte) /\ arguments[c] \in Seq(Seq(Byte)) /\ Framing("template-v1", builder[c], arguments[c])
  BY Zenon DEF PrintsInv, Add
<1>2. b \in Seq(Byte) /\ q \in Seq(Seq(Byte)) /\ Framing("template-v1", b, q)
  <2>1. label \in Seq(Byte) /\ content \in Seq(Byte)
    BY DEF HashAssumption
  <2> QED
    BY <1>1, <2>1, AddFrames
<1>3. /\ builder' = [builder EXCEPT ![c] = b] /\ arguments' = [arguments EXCEPT ![c] = q]
      /\ identity' = identity /\ lineage' = lineage
  BY DEF Add
<1> HIDE DEF b, q
<1>4. /\ identity' = [identity EXCEPT ![c] = identity[c]]
      /\ lineage' = [lineage EXCEPT ![c] = lineage[c]]
  BY <1>3 DEF PrintsInv
<1>b. builder' = [builder EXCEPT ![c] = b] /\ arguments' = [arguments EXCEPT ![c] = q]
  BY <1>3
<1>5. CallerInv(b, q, identity[c], lineage[c])
  BY <1>2, Zenon DEF CallerInv, PrintsInv
<1> QED
  BY <1>b, <1>4, <1>5, OneCaller, Zenon

\* Whatever is finished leaves an idle builder and one more step of the chain.
LEMMA FinishedStep ==
    ASSUME PrintsInv, NEW c \in Caller, NEW result, result # NoIdentity,
           Chain(Append(lineage[c], arguments[c]), result), Finish(c, result)
    PROVE  PrintsInv'
<1> DEFINE none == <<>>
           l == Append(lineage[c], arguments[c])
<1>1. none \in Seq(Seq(Byte)) /\ l \in Seq(Seq(Seq(Byte)))
  <2>1. arguments[c] \in Seq(Seq(Byte)) /\ lineage[c] \in Seq(Seq(Seq(Byte)))
    BY DEF PrintsInv
  <2> QED
    BY <2>1
<1>2. /\ builder' = [builder EXCEPT ![c] = Idle] /\ arguments' = [arguments EXCEPT ![c] = none]
      /\ identity' = [identity EXCEPT ![c] = result] /\ lineage' = [lineage EXCEPT ![c] = l]
  BY DEF Finish
<1> HIDE DEF none, l
<1>3. Chain(l, result)
  BY Zenon DEF l
<1>4. CallerInv(Idle, none, result, l)
  BY <1>1, <1>3, Zenon DEF CallerInv
<1> QED
  BY <1>2, <1>4, OneCaller, Zenon

LEMMA FinishRootStep ==
    ASSUME HashAssumption, PrintsInv, NEW c \in Caller, FinishRoot(c)
    PROVE  PrintsInv'
<1> DEFINE result == [fingerprint |-> Digest(builder[c]), parent |-> NoFingerprint]
<1>1. identity[c] = NoIdentity /\ builder[c] # Idle /\ Finish(c, result)
  BY Zenon DEF FinishRoot, Finish
<1>2. /\ lineage[c] = <<>> /\ arguments[c] \in Seq(Seq(Byte)) /\ builder[c] \in Seq(Byte)
      /\ Framing("template-v1", builder[c], arguments[c])
  BY <1>1, Zenon DEF PrintsInv
<1>3. Chain(Append(<<>>, arguments[c]), result) /\ result # NoIdentity
  BY <1>2, ChainRoot
<1> HIDE DEF result
<1> QED
  BY <1>1, <1>2, <1>3, FinishedStep, Zenon

LEMMA FinishDerivedStep ==
    ASSUME HashAssumption, PrintsInv, NEW c \in Caller, FinishStep(c)
    PROVE  PrintsInv'
<1> DEFINE result == [fingerprint |-> DerivedFingerprint(identity[c].fingerprint,
                                                                Digest(builder[c])),
                      parent |-> identity[c].fingerprint]
<1>1. identity[c] # NoIdentity /\ builder[c] # Idle /\ Finish(c, result)
  BY Zenon DEF FinishStep, Finish
<1>2. /\ lineage[c] \in Seq(Seq(Seq(Byte))) /\ arguments[c] \in Seq(Seq(Byte)) /\ builder[c] \in Seq(Byte)
      /\ Framing("template-v1", builder[c], arguments[c]) /\ Chain(lineage[c], identity[c])
  BY <1>1, Zenon DEF PrintsInv
<1>3. Chain(Append(lineage[c], arguments[c]), result) /\ result # NoIdentity
  BY <1>2, ChainMore
<1> HIDE DEF result
<1> QED
  BY <1>1, <1>3, FinishedStep, Zenon

LEMMA PrintsStep ==
    ASSUME HashAssumption, PrintsInv, [PrintsNext]_(printsVars)
    PROVE  PrintsInv'
<1>1. CASE UNCHANGED printsVars
  <2>1. UNCHANGED <<builder, arguments, identity, lineage>>
    BY <1>1 DEF printsVars
  <2> QED
    BY <2>1, Zenon DEF PrintsInv
<1>2. CASE PrintsNext
  BY <1>2, NewStep, AddStep, FinishRootStep, FinishDerivedStep, Zenon DEF PrintsNext
<1> QED
  BY <1>1, <1>2

\* See FingerprintsFaithful.
LEMMA PrintsTell ==
    ASSUME HashAssumption, PrintsInv
    PROVE  FingerprintsFaithful
<1> SUFFICES ASSUME NEW c \in Caller, NEW d \in Caller,
                    identity[c] # NoIdentity, identity[d] # NoIdentity
             PROVE  /\ identity[c].fingerprint = identity[d].fingerprint <=> lineage[c] = lineage[d]
                    /\ identity[c].fingerprint = identity[d].fingerprint =>
                           identity[c].parent = identity[d].parent
  BY Zenon DEF FingerprintsFaithful
<1>1. /\ lineage[c] \in Seq(Seq(Seq(Byte))) /\ Chain(lineage[c], identity[c])
      /\ lineage[d] \in Seq(Seq(Seq(Byte))) /\ Chain(lineage[d], identity[d])
  BY Zenon DEF PrintsInv
<1>2. ASSUME identity[c].fingerprint = identity[d].fingerprint
      PROVE  lineage[c] = lineage[d] /\ identity[c].parent = identity[d].parent
  BY <1>1, <1>2, PrintsDecode
<1>3. ASSUME lineage[c] = lineage[d]
      PROVE  identity[c].fingerprint = identity[d].fingerprint
  BY <1>1, <1>3, PrintsEncode
<1> QED
  BY <1>2, <1>3

\* Whatever callers say, in whatever order and however long the lineage: two
\* fingerprints are equal exactly when everything said of the templates is the
\* same, and a root is never taken for a derived template (FingerprintBuilder,
\* derived_fingerprint), with a hash that has no collisions.
THEOREM FingerprintsTellTemplates ==
    ASSUME HashAssumption
    PROVE  PrintsSpec => []FingerprintsFaithful
<1>1. PrintsInit => PrintsInv
  BY PrintsStart
<1>2. PrintsInv /\ [PrintsNext]_(printsVars) => PrintsInv'
  BY PrintsStep
<1>3. PrintsInv => FingerprintsFaithful
  BY PrintsTell
<1> QED
  BY <1>1, <1>2, <1>3, PTL DEF PrintsSpec

=============================================================================
