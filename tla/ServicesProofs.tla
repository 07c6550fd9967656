--------------------------- MODULE ServicesProofs ---------------------------
(***************************************************************************)
(* Services a guest asks of the host, for every value of the constants: an *)
(* open file delivers its bytes and its entries (FileStreams), and nested  *)
(* walks of dl_iterate_phdr, whatever is loaded meanwhile, keep to their   *)
(* lists and to the caller's stack (DlIterate).                            *)
(***************************************************************************)
EXTENDS FileStreams, DlIterate, WellFoundedInduction, TLAPS

-----------------------------------------------------------------------------
(* Numbers and sequences *)

\* A nonempty set of numbers has a least one.
LEMMA LeastNat ==
  ASSUME NEW S \in SUBSET Nat, S # {}
  PROVE  \E x \in S : \A y \in S : x <= y
<1> DEFINE R == OpToRel(<, Nat)
<1>1. IsWellFoundedOn(R, Nat)
  BY Zenon, NatLessThanWellFounded
<1>2. \A x, y \in Nat : <<x, y>> \in R <=> x < y
  BY Zenon DEF OpToRel
<1> HIDE DEF R
<1>3. PICK x \in S : \A y \in S : ~(<<y, x>> \in R)
  BY Zenon, <1>1, WFMin
<1>4. ASSUME NEW y \in S PROVE x <= y
  <2>1. ~(y < x)
    BY Zenon, <1>2, <1>3
  <2> QED BY <2>1
<1> QED BY Zenon, <1>4

\* A sequence with an element appended.
LEMMA AppendFacts ==
  ASSUME NEW S, NEW s \in Seq(S), NEW x \in S
  PROVE  /\ Append(s, x) \in Seq(S) /\ Len(Append(s, x)) = Len(s) + 1
         /\ Len(s) \in Nat /\ DOMAIN s = 1..Len(s)
         /\ DOMAIN Append(s, x) = 1..Len(s) + 1 /\ Append(s, x)[Len(s) + 1] = x
         /\ \A k \in 1..Len(s) : Append(s, x)[k] = s[k] /\ s[k] \in S
         /\ \A k \in 1..Len(s) + 1 : k \in 1..Len(s) \/ k = Len(s) + 1
OBVIOUS

\* Two sequences, one after the other.
LEMMA ConcatFacts ==
  ASSUME NEW S, NEW s \in Seq(S), NEW t \in Seq(S)
  PROVE  /\ s \o t \in Seq(S) /\ Len(s \o t) = Len(s) + Len(t)
         /\ Len(s) \in Nat /\ Len(t) \in Nat
         /\ DOMAIN s = 1..Len(s) /\ DOMAIN t = 1..Len(t) /\ DOMAIN (s \o t) = 1..Len(s) + Len(t)
         /\ \A k \in 1..Len(s) : (s \o t)[k] = s[k]
         /\ \A k \in 1..Len(t) : (s \o t)[Len(s) + k] = t[k]
OBVIOUS

\* The elements of a sequence.
LEMMA Element ==
  ASSUME NEW S, NEW s \in Seq(S), NEW i \in 1..Len(s)
  PROVE  s[i] \in S
OBVIOUS

\* A sequence after one element.
LEMMA Prepended ==
  ASSUME NEW S, NEW x \in S, NEW t \in Seq(S)
  PROVE  /\ <<x>> \o t \in Seq(S) /\ Len(<<x>> \o t) = 1 + Len(t)
         /\ (<<x>> \o t)[1] = x
         /\ \A k \in 1..Len(t) : (<<x>> \o t)[1 + k] = t[k]
OBVIOUS

\* Sequences are equal when their elements are.
LEMMA SameSequence ==
  ASSUME NEW S, NEW s \in Seq(S), NEW t \in Seq(S), Len(s) = Len(t),
         \A i \in 1..Len(s) : s[i] = t[i]
  PROVE  s = t
OBVIOUS

\* A part of a sequence.
LEMMA SubSeqFacts ==
  ASSUME NEW S, NEW s \in Seq(S), NEW m \in Nat, NEW n \in Nat, m + n <= Len(s)
  PROVE  /\ SubSeq(s, m + 1, m + n) \in Seq(S) /\ Len(SubSeq(s, m + 1, m + n)) = n
         /\ \A i \in 1..n : SubSeq(s, m + 1, m + n)[i] = s[m + i]
<1>1. \A i \in 1..n : m + i \in 1..Len(s)
  OBVIOUS
<1>2. SubSeq(s, m + 1, m + n) \in Seq(S) /\ Len(SubSeq(s, m + 1, m + n)) = n
  OBVIOUS
<1> QED BY <1>1, <1>2

\* The first n elements of a sequence.
LEMMA FrontFacts ==
  ASSUME NEW S, NEW s \in Seq(S), NEW n \in Nat, n <= Len(s)
  PROVE  /\ SubSeq(s, 1, n) \in Seq(S) /\ Len(SubSeq(s, 1, n)) = n
         /\ \A i \in 1..n : SubSeq(s, 1, n)[i] = s[i]
         /\ SubSeq(s, 1, n) = <<>> <=> n = 0
<1>1. \A i \in 1..n : i \in 1..Len(s)
  OBVIOUS
<1>2. SubSeq(s, 1, n) \in Seq(S) /\ Len(SubSeq(s, 1, n)) = n
  OBVIOUS
<1>3. \A i \in 1..n : SubSeq(s, 1, n)[i] = s[i]
  BY <1>1, <1>2
<1>4. \A t \in Seq(S) : t = <<>> <=> Len(t) = 0
  OBVIOUS
<1> QED BY Zenon, <1>2, <1>3, <1>4

\* A sequence with elements is not empty.
LEMMA NotEmpty ==
  ASSUME NEW s, Len(s) # 0
  PROVE  s # <<>>
OBVIOUS

\* Adding two stays among the naturals.
LEMMA PlusTwo ==
  ASSUME NEW n \in Nat
  PROVE  n + 2 \in Nat
OBVIOUS

\* What lies below is there again when what was pushed is popped.
LEMMA PushPop ==
  ASSUME NEW S, NEW s \in Seq(S), NEW t \in Seq(S), NEW u \in Seq(S)
  PROVE  /\ (s \o t) \o u \in Seq(S) /\ Len((s \o t) \o u) = Len(s) + Len(t) + Len(u)
         /\ SubSeq((s \o t) \o u, 1, Len(s)) = s
         /\ \A k \in 1..Len(s) : ((s \o t) \o u)[k] = s[k]
         /\ \A k \in 1..Len(t) : ((s \o t) \o u)[Len(s) + k] = t[k]
         /\ \A k \in 1..Len(u) : ((s \o t) \o u)[Len(s) + Len(t) + k] = u[k]
<1> DEFINE a == s \o t
           b == a \o u
<1>1. Len(s) \in Nat /\ Len(t) \in Nat /\ Len(u) \in Nat
  OBVIOUS
<1>2. /\ a \in Seq(S) /\ Len(a) = Len(s) + Len(t)
      /\ \A k \in 1..Len(s) : a[k] = s[k]
      /\ \A k \in 1..Len(t) : a[Len(s) + k] = t[k]
  BY ConcatFacts
<1> HIDE DEF a
<1>3. /\ b \in Seq(S) /\ Len(b) = Len(a) + Len(u)
      /\ \A k \in 1..Len(a) : b[k] = a[k]
      /\ \A k \in 1..Len(u) : b[Len(a) + k] = u[k]
  <2>1. a \in Seq(S)
    BY Zenon, <1>2
  <2> QED BY <2>1, ConcatFacts
<1> HIDE DEF b
<1>4. /\ \A k \in 1..Len(s) : k \in 1..Len(a)
      /\ \A k \in 1..Len(t) : Len(s) + k \in 1..Len(a)
  BY <1>1, <1>2
<1>5. Len(b) = Len(s) + Len(t) + Len(u) /\ Len(s) <= Len(b)
  BY <1>1, <1>2, <1>3
<1>6. \A k \in 1..Len(s) : b[k] = s[k]
  BY Zenon, <1>2, <1>3, <1>4
<1>7. \A k \in 1..Len(t) : b[Len(s) + k] = t[k]
  BY Zenon, <1>2, <1>3, <1>4
<1>8. \A k \in 1..Len(u) : b[Len(s) + Len(t) + k] = u[k]
  BY Zenon, <1>2, <1>3
<1>9. SubSeq(b, 1, Len(s)) = s
  <2>1. /\ SubSeq(b, 1, Len(s)) \in Seq(S) /\ Len(SubSeq(b, 1, Len(s))) = Len(s)
        /\ \A i \in 1..Len(s) : SubSeq(b, 1, Len(s))[i] = b[i]
    BY <1>1, <1>3, <1>5, FrontFacts
  <2>2. \A i \in 1..Len(SubSeq(b, 1, Len(s))) : SubSeq(b, 1, Len(s))[i] = s[i]
    BY Zenon, <1>6, <2>1
  <2> QED BY Zenon, <2>1, <2>2, SameSequence
<1> QED BY Zenon, <1>3, <1>5, <1>6, <1>7, <1>8, <1>9 DEF a, b

-----------------------------------------------------------------------------
(* FileStreams *)

Entries == [name : Nat, len : Nat]
Records == [name : Nat, off : Nat]
Accs == [used : Nat, kept : Seq(Entries), out : Seq(Records), next : Nat]

\* What the retain loop carries, field by field.
LEMMA AccMade ==
  ASSUME NEW used \in Nat, NEW kept \in Seq(Entries), NEW out \in Seq(Records), NEW next \in Nat
  PROVE  [used |-> used, kept |-> kept, out |-> out, next |-> next] \in Accs
BY DEF Accs

\* The steps of the retain loop over the first n of the entries.
LoopStart(o) == [used |-> 0, kept |-> <<>>, out |-> <<>>, next |-> o]
IsLoop(g, n, fs, size, o) ==
  g = [i \in 0..n |-> IF i = 0 THEN LoopStart(o) ELSE Visit(size, g[i - 1], fs[i])]

\* The retain loop can be run over any number of entries.
LEMMA LoopExists ==
  ASSUME NEW fs, NEW size, NEW o, NEW n \in Nat
  PROVE  \E g : IsLoop(g, n, fs, size, o)
<1> DEFINE Bad == {m \in Nat : ~ \E g : IsLoop(g, m, fs, size, o)}
<1> SUFFICES ASSUME Bad # {} PROVE FALSE
  BY Zenon
<1>1. \E m \in Bad : \A k \in Bad : m <= k
  <2>1. Bad \in SUBSET Nat
    BY Zenon
  <2> HIDE DEF Bad
  <2> QED BY Zenon, <2>1, LeastNat
<1>2. PICK m \in Nat : (\A k \in Bad : m <= k) /\ ~ \E g : IsLoop(g, m, fs, size, o)
  BY Zenon, <1>1
<1>3. CASE m = 0
  <2> DEFINE g == [i \in 0..0 |-> LoopStart(o)]
  <2>1. \A i \in 0..0 : i = 0
    OBVIOUS
  <2>2. IsLoop(g, 0, fs, size, o)
    BY Zenon, <2>1 DEF IsLoop
  <2> QED BY Zenon, <1>2, <1>3, <2>2
<1>4. CASE m # 0
  <2>1. m - 1 \in Nat /\ ~ (m <= m - 1)
    BY <1>4
  <2>2. m - 1 \notin Bad
    BY Zenon, <1>2, <2>1
  <2>3. PICK g : IsLoop(g, m - 1, fs, size, o)
    BY Zenon, <2>1, <2>2
  <2> DEFINE h == [i \in 0..m |-> IF i = m THEN Visit(size, g[m - 1], fs[m]) ELSE g[i]]
  <2>4. \A i \in 0..m : i # m => i \in 0..m - 1 /\ i \in 0..m /\ (i # 0 => i - 1 \in 0..m - 1 /\ i - 1 \in 0..m /\ i - 1 # m)
    OBVIOUS
  <2>5. m \in 0..m /\ m - 1 \in 0..m - 1 /\ m - 1 \in 0..m /\ m - 1 # m
    BY <1>4
  <2>6. \A i \in 0..m - 1 : g[i] = IF i = 0 THEN LoopStart(o) ELSE Visit(size, g[i - 1], fs[i])
    BY Zenon, <2>3 DEF IsLoop
  <2>7. \A i \in 0..m : h[i] = IF i = 0 THEN LoopStart(o) ELSE Visit(size, h[i - 1], fs[i])
    <3> SUFFICES ASSUME NEW i \in 0..m
                 PROVE  h[i] = IF i = 0 THEN LoopStart(o) ELSE Visit(size, h[i - 1], fs[i])
      BY Zenon
    <3>1. CASE i = m
      BY Zenon, <1>4, <2>5, <3>1
    <3>2. CASE i # m
      <4>1. h[i] = g[i] /\ (i # 0 => h[i - 1] = g[i - 1])
        BY Zenon, <2>4, <3>2
      <4> HIDE DEF h
      <4> QED BY Zenon, <2>4, <2>6, <3>2, <4>1
    <3> QED BY Zenon, <3>1, <3>2
  <2>8. h = [i \in 0..m |-> h[i]]
    BY Zenon
  <2> HIDE DEF h
  <2>9. IsLoop(h, m, fs, size, o)
    BY Zenon, <2>7, <2>8 DEF IsLoop
  <2> QED BY Zenon, <1>2, <2>9
<1> QED BY Zenon, <1>3, <1>4

\* Retain is the last step of that loop.
LEMMA RetainLoop ==
  ASSUME NEW size
  PROVE  Len(files) \in Nat =>
           \E g : IsLoop(g, Len(files), files, size, off) /\ Retain(size) = g[Len(files)]
<1> SUFFICES ASSUME Len(files) \in Nat
             PROVE  \E g : IsLoop(g, Len(files), files, size, off) /\ Retain(size) = g[Len(files)]
  BY Zenon
<1> DEFINE v == CHOOSE g : IsLoop(g, Len(files), files, size, off)
<1>1. IsLoop(v, Len(files), files, size, off)
  BY Zenon, LoopExists
<1>2. Retain(size) = v[Len(files)]
  BY Zenon DEF Retain, IsLoop, LoopStart
<1> QED BY Zenon, <1>1, <1>2

\* The names of a sequence of entries or records, and that none is there twice.
NamesOf(s) == {s[k].name : k \in DOMAIN s}
Distinct(s) == \A a, b \in DOMAIN s : s[a].name = s[b].name => a = b

\* An appended entry adds its name.
LEMMA NamesAppend ==
  ASSUME NEW S, NEW s \in Seq(S), NEW x \in S
  PROVE  /\ NamesOf(Append(s, x)) = NamesOf(s) \cup {x.name}
         /\ Distinct(s) /\ x.name \notin NamesOf(s) => Distinct(Append(s, x))
<1> DEFINE t == Append(s, x)
           n == Len(s) + 1
<1>1. /\ DOMAIN s = 1..Len(s) /\ DOMAIN t = 1..n /\ t[n] = x
      /\ \A k \in DOMAIN s : t[k] = s[k]
      /\ \A k \in DOMAIN t : k \in DOMAIN s \/ k = n
      /\ \A k \in DOMAIN s : k \in DOMAIN t
      /\ n \in DOMAIN t
  <2>1. Len(s) \in Nat
    OBVIOUS
  <2>2. \A k \in 1..Len(s) : k \in 1..Len(s) + 1
    BY <2>1
  <2>3. Len(s) + 1 \in 1..Len(s) + 1
    BY <2>1
  <2> QED BY <2>2, <2>3, AppendFacts
<1> HIDE DEF t, n
<1>2. NamesOf(t) = NamesOf(s) \cup {x.name}
  BY Zenon, <1>1 DEF NamesOf
<1>3. Distinct(s) /\ x.name \notin NamesOf(s) => Distinct(t)
  BY Zenon, <1>1 DEF NamesOf, Distinct
<1> QED BY Zenon, <1>2, <1>3 DEF t

\* So do appended sequences.
LEMMA NamesConcat ==
  ASSUME NEW S, NEW s \in Seq(S), NEW t \in Seq(S)
  PROVE  /\ NamesOf(s \o t) = NamesOf(s) \cup NamesOf(t)
         /\ Distinct(s) /\ Distinct(t) /\ NamesOf(s) \cap NamesOf(t) = {} => Distinct(s \o t)
<1> DEFINE u == s \o t
<1>1. /\ \A k \in DOMAIN s : k \in DOMAIN u /\ u[k] = s[k]
      /\ \A k \in DOMAIN t : Len(s) + k \in DOMAIN u /\ u[Len(s) + k] = t[k]
      /\ \A k \in DOMAIN u : k \in DOMAIN s \/ \E j \in DOMAIN t : k = Len(s) + j
  <2>1. /\ Len(s) \in Nat /\ Len(t) \in Nat
        /\ DOMAIN s = 1..Len(s) /\ DOMAIN t = 1..Len(t) /\ DOMAIN u = 1..Len(s) + Len(t)
        /\ \A k \in 1..Len(s) : u[k] = s[k]
        /\ \A k \in 1..Len(t) : u[Len(s) + k] = t[k]
    BY ConcatFacts
  <2>2. \A k \in 1..Len(s) : k \in 1..Len(s) + Len(t)
    BY <2>1
  <2>3. \A k \in 1..Len(t) : Len(s) + k \in 1..Len(s) + Len(t)
    BY <2>1
  <2>4. \A k \in 1..Len(s) + Len(t) : k \in 1..Len(s) \/ (k - Len(s) \in 1..Len(t) /\ k = Len(s) + (k - Len(s)))
    BY <2>1
  <2> QED BY Zenon, <2>1, <2>2, <2>3, <2>4
<1> HIDE DEF u
<1>2. NamesOf(u) = NamesOf(s) \cup NamesOf(t)
  <2>1. NamesOf(u) \subseteq NamesOf(s) \cup NamesOf(t)
    BY <1>1 DEF NamesOf
  <2>2. NamesOf(s) \subseteq NamesOf(u)
    BY SMTT(30), <1>1 DEF NamesOf
  <2>3. NamesOf(t) \subseteq NamesOf(u)
    BY SMTT(30), <1>1 DEF NamesOf
  <2> QED BY Zenon, <2>1, <2>2, <2>3
<1>3. ASSUME Distinct(s), Distinct(t), NamesOf(s) \cap NamesOf(t) = {} PROVE Distinct(u)
  <2> SUFFICES ASSUME NEW a \in DOMAIN u, NEW b \in DOMAIN u, u[a].name = u[b].name PROVE a = b
    BY Zenon DEF Distinct
  <2>1. \A x \in DOMAIN s, y \in DOMAIN t : s[x].name # t[y].name
    BY Zenon, <1>3 DEF NamesOf
  <2>2. CASE a \in DOMAIN s
    BY <1>1, <1>3, <2>1, <2>2 DEF Distinct
  <2>3. CASE \E j \in DOMAIN t : a = Len(s) + j
    BY <1>1, <1>3, <2>1, <2>3 DEF Distinct
  <2> QED BY Zenon, <1>1, <2>2, <2>3
<1> QED BY Zenon, <1>2, <1>3 DEF u

\* A record is never empty.
LEMMA RecLenFacts ==
  ASSUME NEW len \in Nat
  PROVE  RecLen(len) \in Nat \ {0}
BY DEF RecLen

\* After i entries of the retain loop: those written and those kept are the
\* entries seen, d_off counts on, and the answer 0 means that no entry fits.
LoopInv(acc, i, fs, size, o) ==
  /\ acc \in Accs
  /\ acc.next = o + Len(acc.out)
  /\ \A k \in 1..Len(acc.out) : acc.out[k].off = o + k - 1
  /\ NamesOf(acc.out) \cup NamesOf(acc.kept) = {fs[j].name : j \in 1..i}
  /\ NamesOf(acc.out) \cap NamesOf(acc.kept) = {}
  /\ Distinct(acc.out) /\ Distinct(acc.kept)
  /\ acc.used = 0 => acc.kept = <<>> \/ ~ Fits(0, acc.kept[1], size)

\* One entry of the loop.
LEMMA LoopStep ==
  ASSUME NEW fs \in Seq(Entries), Distinct(fs), NEW size \in Nat, NEW o \in Nat,
         NEW i \in 1..Len(fs), NEW acc, LoopInv(acc, i - 1, fs, size, o)
  PROVE  LoopInv(Visit(size, acc, fs[i]), i, fs, size, o)
<1> DEFINE e == fs[i]
           new == Visit(size, acc, e)
<1>1. /\ acc \in Accs /\ acc.used \in Nat /\ acc.next \in Nat
      /\ acc.kept \in Seq(Entries) /\ acc.out \in Seq(Records)
  BY Zenon DEF LoopInv, Accs
<1>2. i \in Nat /\ i # 0 /\ DOMAIN fs = 1..Len(fs)
  OBVIOUS
<1>3. e \in Entries /\ e.name \in Nat /\ e.len \in Nat
  <2>1. e \in Entries
    BY <1>2
  <2> QED BY Zenon, <2>1 DEF Entries
<1>4. /\ e.name \notin {fs[j].name : j \in 1..i - 1}
      /\ {fs[j].name : j \in 1..i} = {fs[j].name : j \in 1..i - 1} \cup {e.name}
  <2>1. \A j \in 1..i - 1 : j \in DOMAIN fs /\ j # i /\ j \in 1..i
    BY <1>2
  <2>2. \A j \in 1..i : j \in 1..i - 1 \/ j = i
    BY <1>2
  <2>3. i \in 1..i /\ i \in DOMAIN fs
    BY <1>2
  <2>4. e.name \notin {fs[j].name : j \in 1..i - 1}
    BY Zenon, <2>1, <2>3 DEF Distinct
  <2> QED BY Zenon, <2>1, <2>2, <2>3, <2>4
<1>5. e.name \notin NamesOf(acc.out) /\ e.name \notin NamesOf(acc.kept)
  BY Zenon, <1>4 DEF LoopInv
<1> HIDE DEF e
<1>6. CASE Fits(acc.used, e, size)
  <2> DEFINE r == [name |-> e.name, off |-> acc.next]
  <2>1. new = [acc EXCEPT !.used = acc.used + RecLen(e.len), !.out = Append(acc.out, r), !.next = acc.next + 1]
    BY Zenon, <1>6 DEF Visit
  <2>2. /\ new.used = acc.used + RecLen(e.len) /\ new.out = Append(acc.out, r) /\ new.next = acc.next + 1
        /\ new.kept = acc.kept
    BY <1>1, <2>1 DEF Accs
  <2>3. r \in Records /\ r.name = e.name /\ r.off = acc.next
    BY Zenon, <1>1, <1>3 DEF Records
  <2> HIDE DEF r
  <2>4. /\ Append(acc.out, r) \in Seq(Records) /\ Len(Append(acc.out, r)) = Len(acc.out) + 1
        /\ Len(acc.out) \in Nat /\ Append(acc.out, r)[Len(acc.out) + 1] = r
        /\ \A k \in 1..Len(acc.out) : Append(acc.out, r)[k] = acc.out[k]
        /\ \A k \in 1..Len(acc.out) + 1 : k \in 1..Len(acc.out) \/ k = Len(acc.out) + 1
    BY <1>1, <2>3, AppendFacts
  <2>5. acc.used + RecLen(e.len) \in Nat /\ acc.used + RecLen(e.len) # 0 /\ acc.next + 1 \in Nat
    <3>1. RecLen(e.len) \in Nat \ {0}
      BY Zenon, <1>3, RecLenFacts
    <3> QED BY SMTT(30), <1>1, <3>1
  <2>6. new \in Accs
    <3>1. new = [used |-> acc.used + RecLen(e.len), kept |-> acc.kept, out |-> Append(acc.out, r), next |-> acc.next + 1]
      BY Zenon, <1>1, <2>1 DEF Accs
    <3> QED BY ZenonT(30), <1>1, <2>4, <2>5, <3>1, AccMade
  <2>7. new.next = o + Len(new.out)
    BY <2>2, <2>4 DEF LoopInv
  <2>8. \A k \in 1..Len(new.out) : new.out[k].off = o + k - 1
    <3>1. acc.next = o + (Len(acc.out) + 1) - 1
      BY <2>4 DEF LoopInv
    <3> QED BY ZenonT(30), <2>2, <2>3, <2>4, <3>1 DEF LoopInv
  <2>9. NamesOf(new.out) = NamesOf(acc.out) \cup {e.name} /\ Distinct(new.out)
    <3>1. /\ NamesOf(Append(acc.out, r)) = NamesOf(acc.out) \cup {r.name}
          /\ Distinct(acc.out) /\ r.name \notin NamesOf(acc.out) => Distinct(Append(acc.out, r))
      BY <1>1, <2>3, NamesAppend
    <3> QED BY Zenon, <1>5, <2>2, <2>3, <3>1 DEF LoopInv
  <2>10. /\ NamesOf(new.out) \cup NamesOf(new.kept) = {fs[j].name : j \in 1..i}
         /\ NamesOf(new.out) \cap NamesOf(new.kept) = {}
    <3>1. /\ NamesOf(acc.out) \cup NamesOf(acc.kept) = {fs[j].name : j \in 1..i - 1}
          /\ NamesOf(acc.out) \cap NamesOf(acc.kept) = {}
      BY Zenon DEF LoopInv
    <3>2. /\ NamesOf(new.out) = NamesOf(acc.out) \cup {e.name} /\ new.kept = acc.kept
          /\ {fs[j].name : j \in 1..i} = {fs[j].name : j \in 1..i - 1} \cup {e.name}
          /\ e.name \notin NamesOf(acc.kept)
      BY Zenon, <1>4, <1>5, <2>2, <2>9
    <3>3. (NamesOf(acc.out) \cup {e.name}) \cup NamesOf(acc.kept) = (NamesOf(acc.out) \cup NamesOf(acc.kept)) \cup {e.name}
      BY Zenon
    <3>4. (NamesOf(acc.out) \cup {e.name}) \cap NamesOf(acc.kept) = {}
      BY Zenon, <3>1, <3>2
    <3> QED BY Zenon, <3>1, <3>2, <3>3, <3>4
  <2> QED BY Zenon, <2>2, <2>5, <2>6, <2>7, <2>8, <2>9, <2>10 DEF LoopInv, e
<1>7. CASE ~ Fits(acc.used, e, size)
  <2>1. new = [acc EXCEPT !.kept = Append(acc.kept, e)]
    BY Zenon, <1>7 DEF Visit
  <2>2. /\ new.used = acc.used /\ new.out = acc.out /\ new.next = acc.next
        /\ new.kept = Append(acc.kept, e)
    BY <1>1, <2>1 DEF Accs
  <2>3. Append(acc.kept, e) \in Seq(Entries)
    BY <1>1, <1>3, AppendFacts
  <2>4. new \in Accs
    <3>1. new = [used |-> acc.used, kept |-> Append(acc.kept, e), out |-> acc.out, next |-> acc.next]
      BY Zenon, <1>1, <2>1 DEF Accs
    <3> QED BY Zenon, <1>1, <2>3, <3>1, AccMade
  <2>5. NamesOf(new.kept) = NamesOf(acc.kept) \cup {e.name} /\ Distinct(new.kept)
    <3>1. /\ NamesOf(Append(acc.kept, e)) = NamesOf(acc.kept) \cup {e.name}
          /\ Distinct(acc.kept) /\ e.name \notin NamesOf(acc.kept) => Distinct(Append(acc.kept, e))
      BY <1>1, <1>3, NamesAppend
    <3> QED BY Zenon, <1>5, <2>2, <3>1 DEF LoopInv
  <2>6. /\ NamesOf(new.out) \cup NamesOf(new.kept) = {fs[j].name : j \in 1..i}
        /\ NamesOf(new.out) \cap NamesOf(new.kept) = {}
    <3>1. /\ NamesOf(acc.out) \cup NamesOf(acc.kept) = {fs[j].name : j \in 1..i - 1}
          /\ NamesOf(acc.out) \cap NamesOf(acc.kept) = {}
      BY Zenon DEF LoopInv
    <3>2. /\ NamesOf(new.kept) = NamesOf(acc.kept) \cup {e.name} /\ new.out = acc.out
          /\ {fs[j].name : j \in 1..i} = {fs[j].name : j \in 1..i - 1} \cup {e.name}
          /\ e.name \notin NamesOf(acc.out)
      BY Zenon, <1>4, <1>5, <2>2, <2>5
    <3>3. NamesOf(acc.out) \cup (NamesOf(acc.kept) \cup {e.name}) = (NamesOf(acc.out) \cup NamesOf(acc.kept)) \cup {e.name}
      BY Zenon
    <3>4. NamesOf(acc.out) \cap (NamesOf(acc.kept) \cup {e.name}) = {}
      BY Zenon, <3>1, <3>2
    <3> QED BY Zenon, <3>1, <3>2, <3>3, <3>4
  <2>7. new.used = 0 => ~ Fits(0, new.kept[1], size)
    <3> SUFFICES ASSUME acc.used = 0 PROVE ~ Fits(0, Append(acc.kept, e)[1], size)
      BY Zenon, <2>2
    <3>1. acc.kept = <<>> => Append(acc.kept, e)[1] = e
      BY <1>1, <1>3
    <3>2. acc.kept # <<>> => Append(acc.kept, e)[1] = acc.kept[1]
      BY <1>1, <1>3
    <3> QED BY Zenon, <1>7, <3>1, <3>2 DEF LoopInv
  <2> QED BY Zenon, <2>2, <2>4, <2>5, <2>6, <2>7 DEF LoopInv, e
<1> QED BY Zenon, <1>6, <1>7 DEF e

\* The whole loop: what getdents64 writes, keeps and answers.
LEMMA RetainFacts ==
  ASSUME files \in Seq(Entries), Distinct(files), NEW size \in Nat, off \in Nat
  PROVE  LoopInv(Retain(size), Len(files), files, size, off)
<1> DEFINE n == Len(files)
           fs == files
           o == off
<1>1. n \in Nat
  OBVIOUS
<1>2. PICK g : IsLoop(g, n, fs, size, o) /\ Retain(size) = g[n]
  BY Zenon, <1>1, RetainLoop
<1> DEFINE Bad == {i \in 0..n : ~ LoopInv(g[i], i, fs, size, o)}
<1>3. \A i \in 0..n : g[i] = IF i = 0 THEN LoopStart(o) ELSE Visit(size, g[i - 1], fs[i])
  BY Zenon, <1>2 DEF IsLoop
<1>4. LoopInv(LoopStart(o), 0, fs, size, o)
  <2>1. LoopStart(o) \in Accs
    BY DEF LoopStart, Accs
  <2>2. /\ LoopStart(o).out = <<>> /\ LoopStart(o).kept = <<>> /\ LoopStart(o).next = o
    BY Zenon DEF LoopStart
  <2>3. o = o + Len(<<>>) /\ \A k : k \notin 1..Len(<<>>) /\ k \notin DOMAIN <<>> /\ k \notin 1..0
    OBVIOUS
  <2> QED BY Zenon, <2>1, <2>2, <2>3 DEF LoopInv, NamesOf, Distinct
<1> SUFFICES ASSUME Bad # {} PROVE FALSE
  BY <1>1, <1>2
<1>5. PICK m \in Bad : \A i \in Bad : m <= i
  <2>1. Bad \in SUBSET Nat
    BY <1>1
  <2> HIDE DEF Bad
  <2> QED BY Zenon, <2>1, LeastNat
<1>6. m \in 0..n /\ m \in Nat /\ ~ LoopInv(g[m], m, fs, size, o)
  BY <1>1
<1>7. m # 0
  BY Zenon, <1>3, <1>4, <1>6
<1>8. m - 1 \in 0..n /\ ~ (m <= m - 1) /\ m \in 1..Len(fs)
  BY <1>1, <1>6, <1>7
<1>9. LoopInv(g[m - 1], m - 1, fs, size, o)
  BY Zenon, <1>5, <1>8
<1>10. LoopInv(Visit(size, g[m - 1], fs[m]), m, fs, size, o)
  BY Zenon, <1>8, <1>9, LoopStep
<1> QED BY Zenon, <1>3, <1>6, <1>7, <1>10

DirInv ==
  /\ files \in Seq(Entries) /\ records \in Seq(Records) /\ off = Len(records) + 1
  /\ Distinct(files) /\ Distinct(records) /\ NamesOf(records) \cap NamesOf(files) = {}
  /\ OffsetsCountUp /\ ZeroMeansDone
  /\ kind = "dir" => \E names \in Dirs : NamesOf(records) \cup NamesOf(files) = 1..Len(names) + 2
  /\ kind # "dir" => files = <<>> /\ records = <<>>

\* Direction::new lists nothing yet.
LEMMA DirectionFacts ==
  ASSUME NEW names \in Seq(Nat)
  PROVE  /\ DirectionEntries(names) \in Seq(Entries) /\ Distinct(DirectionEntries(names))
         /\ NamesOf(DirectionEntries(names)) = 1..Len(names) + 2
<1> DEFINE all == <<1, 2>> \o names
           n == Len(names) + 2
<1>1. all \in Seq(Nat) /\ Len(all) = n /\ DOMAIN all = 1..n /\ n \in Nat
  <2>1. <<1, 2>> \in Seq(Nat) /\ Len(<<1, 2>>) = 2
    OBVIOUS
  <2>2. Len(names) \in Nat
    OBVIOUS
  <2>3. /\ <<1, 2>> \o names \in Seq(Nat) /\ DOMAIN (<<1, 2>> \o names) = 1..2 + Len(names)
        /\ Len(<<1, 2>> \o names) = 2 + Len(names)
    BY <2>1, ConcatFacts
  <2>4. 2 + Len(names) = Len(names) + 2
    BY <2>2
  <2> QED BY <2>2, <2>3, <2>4
<1>2. DirectionEntries(names) = [i \in 1..n |-> [name |-> i, len |-> all[i]]]
  BY Zenon, <1>1 DEF DirectionEntries
<1>3. \A i \in 1..n : all[i] \in Nat /\ i \in Nat
  BY <1>1
<1> HIDE DEF all, n
<1>4. \A i \in 1..n : [name |-> i, len |-> all[i]] \in Entries
  BY Zenon, <1>3 DEF Entries
<1> DEFINE d == DirectionEntries(names)
<1>5. d \in Seq(Entries)
  BY <1>1, <1>2, <1>4
<1>6. DOMAIN d = 1..n /\ \A i \in 1..n : d[i].name = i
  BY <1>2
<1> HIDE DEF d
<1>7. Distinct(d) /\ NamesOf(d) = 1..n
  BY Zenon, <1>6 DEF Distinct, NamesOf
<1> QED BY Zenon, <1>5, <1>7 DEF d, n

\* A file when it is opened.
LEMMA DirInit ==
  ASSUME FileInit
  PROVE  DirInv
<1>1. /\ records = <<>> /\ off = 1 /\ call = [size |-> 0, answer |-> 0]
      /\ kind # "dir" => files = <<>>
  BY Zenon DEF FileInit
<1>2. PICK names \in Dirs : files = IF kind = "dir" THEN DirectionEntries(names) ELSE <<>>
  BY Zenon DEF FileInit
<1>3. names \in Seq(Nat)
  BY Zenon, FilesAssumption
<1>4. /\ <<>> \in Seq(Entries) /\ <<>> \in Seq(Records) /\ 1 = Len(<<>>) + 1
      /\ \A k : k \notin DOMAIN <<>>
  OBVIOUS
<1>5. NamesOf(<<>>) = {} /\ Distinct(<<>>)
  BY Zenon, <1>4 DEF NamesOf, Distinct
<1>6. OffsetsCountUp
  BY Zenon, <1>1, <1>4 DEF OffsetsCountUp
<1>7. ZeroMeansDone
  <2>1. ~ (call.size > 0)
    BY <1>1
  <2> QED BY Zenon, <2>1 DEF ZeroMeansDone
<1>8. /\ files \in Seq(Entries) /\ Distinct(files)
      /\ kind = "dir" => NamesOf(records) \cup NamesOf(files) = 1..Len(names) + 2
  BY Zenon, <1>1, <1>2, <1>3, <1>4, <1>5, DirectionFacts
<1> QED BY Zenon, <1>1, <1>4, <1>5, <1>6, <1>7, <1>8 DEF DirInv

\* What is listed stays as it is through the calls of other files.
LEMMA DirStutter ==
  ASSUME DirInv, UNCHANGED <<kind, dir>>
  PROVE  DirInv'
<1>1. files' = files /\ records' = records /\ off' = off /\ call' = call /\ kind' = kind
  BY Zenon DEF dir
<1>2. OffsetsCountUp' /\ ZeroMeansDone'
  BY Zenon, <1>1 DEF DirInv, OffsetsCountUp, ZeroMeansDone, Roomy, AllEntries
<1> QED BY Zenon, <1>1, <1>2 DEF DirInv

\* getdents64 of a directory.
LEMMA GetdentsStep ==
  ASSUME DirInv, NEW size \in DirSizes, Getdents64(size), kind = "dir"
  PROVE  DirInv'
<1> DEFINE acc == Retain(size)
<1>1. /\ files' = acc.kept /\ off' = acc.next /\ records' = records \o acc.out
      /\ call' = [size |-> size, answer |-> acc.used] /\ kind' = kind
  BY Zenon DEF Getdents64, static
<1>2. /\ files \in Seq(Entries) /\ records \in Seq(Records) /\ off = Len(records) + 1
      /\ Len(records) \in Nat /\ off \in Nat /\ Distinct(files) /\ size \in Nat
  BY FilesAssumption DEF DirInv
<1>3. LoopInv(acc, Len(files), files, size, off)
  BY Zenon, <1>2, RetainFacts
<1> HIDE DEF acc
<1>4. /\ acc.used \in Nat /\ acc.kept \in Seq(Entries) /\ acc.out \in Seq(Records)
      /\ acc.next = off + Len(acc.out)
      /\ \A k \in 1..Len(acc.out) : acc.out[k].off = off + k - 1
      /\ NamesOf(acc.out) \cup NamesOf(acc.kept) = {files[j].name : j \in 1..Len(files)}
      /\ NamesOf(acc.out) \cap NamesOf(acc.kept) = {}
      /\ Distinct(acc.out) /\ Distinct(acc.kept)
      /\ acc.used = 0 => acc.kept = <<>> \/ ~ Fits(0, acc.kept[1], size)
  BY Zenon, <1>3 DEF LoopInv, Accs
<1>5. {files[j].name : j \in 1..Len(files)} = NamesOf(files)
  <2>1. DOMAIN files = 1..Len(files)
    BY SMTT(30), <1>2
  <2> QED BY Zenon, <2>1 DEF NamesOf
<1>6. /\ records \o acc.out \in Seq(Records) /\ Len(records \o acc.out) = Len(records) + Len(acc.out)
      /\ Len(acc.out) \in Nat
      /\ DOMAIN records = 1..Len(records)
      /\ DOMAIN (records \o acc.out) = 1..Len(records) + Len(acc.out)
      /\ \A k \in 1..Len(records) : (records \o acc.out)[k] = records[k]
      /\ \A k \in 1..Len(acc.out) : (records \o acc.out)[Len(records) + k] = acc.out[k]
  BY SMTT(30), <1>2, <1>4, ConcatFacts
<1>7. /\ NamesOf(records \o acc.out) = NamesOf(records) \cup NamesOf(acc.out)
      /\ Distinct(records) /\ Distinct(acc.out) /\ NamesOf(records) \cap NamesOf(acc.out) = {} =>
           Distinct(records \o acc.out)
  BY <1>2, <1>4, NamesConcat
<1>8. NamesOf(records) \cap NamesOf(files) = {} /\ Distinct(records)
  BY Zenon DEF DirInv
<1>9. /\ Distinct(records \o acc.out)
      /\ NamesOf(records \o acc.out) \cap NamesOf(acc.kept) = {}
      /\ NamesOf(records \o acc.out) \cup NamesOf(acc.kept) = NamesOf(records) \cup NamesOf(files)
  BY Zenon, <1>4, <1>5, <1>7, <1>8
<1>10. off' = Len(records') + 1
  <2>1. off' = off + Len(acc.out) /\ Len(records') = Len(records) + Len(acc.out)
    BY Zenon, <1>1, <1>4, <1>6
  <2>2. off = Len(records) + 1 /\ Len(records) \in Nat /\ Len(acc.out) \in Nat
    BY Zenon, <1>2, <1>6
  <2>3. off + Len(acc.out) = (Len(records) + Len(acc.out)) + 1
    <3>1. \A a, b \in Nat : (a + 1) + b = (a + b) + 1
      OBVIOUS
    <3> QED BY Zenon, <2>2, <3>1
  <2> QED BY Zenon, <2>1, <2>3
<1>11. OffsetsCountUp'
  <2> SUFFICES ASSUME NEW k \in 1..Len(records) + Len(acc.out) PROVE (records \o acc.out)[k].off = k
    BY Zenon, <1>1, <1>6 DEF OffsetsCountUp
  <2>1. CASE k \in 1..Len(records)
    BY Zenon, <1>6, <2>1 DEF DirInv, OffsetsCountUp
  <2>2. CASE k \notin 1..Len(records)
    <3>1. PICK j \in 1..Len(acc.out) : k = Len(records) + j /\ off + j - 1 = k
      <4>1. off = Len(records) + 1 /\ Len(records) \in Nat /\ Len(acc.out) \in Nat
        BY Zenon, <1>2, <1>6
      <4>2. k - Len(records) \in 1..Len(acc.out) /\ k = Len(records) + (k - Len(records))
        BY <2>2, <4>1
      <4>3. off + (k - Len(records)) - 1 = k
        BY <4>1
      <4> QED BY Zenon, <4>2, <4>3
    <3> QED BY Zenon, <1>4, <1>6, <3>1
  <2> QED BY Zenon, <2>1, <2>2
<1>12. ZeroMeansDone'
  <2> SUFFICES ASSUME Roomy(size)', acc.used = 0, acc.kept # <<>> PROVE FALSE
    BY Zenon, <1>1 DEF ZeroMeansDone, Roomy, AllEntries
  <2>1. 1 \in DOMAIN acc.kept /\ acc.kept[1] \in Entries
    BY <1>4
  <2>2. RecLen(acc.kept[1].len) < size
    BY Zenon, <1>1, <2>1 DEF Roomy, AllEntries
  <2>3. RecLen(acc.kept[1].len) \in Nat
    BY Zenon, <2>1, RecLenFacts DEF Entries
  <2>4. Fits(0, acc.kept[1], size)
    BY <2>2, <2>3 DEF Fits
  <2> QED BY Zenon, <1>4, <2>4
<1>13. \E names \in Dirs : NamesOf(records') \cup NamesOf(files') = 1..Len(names) + 2
  BY Zenon, <1>1, <1>9 DEF DirInv
<1> QED BY Zenon, <1>1, <1>4, <1>6, <1>9, <1>10, <1>11, <1>12, <1>13 DEF DirInv

\* DirInv holds in every state.
LEMMA Listing == FileSpec => []DirInv
<1>1. FileInit => DirInv
  BY Zenon, DirInit
<1>2. DirInv /\ [FileNext]_fileVars => DirInv'
  <2> SUFFICES ASSUME DirInv, [FileNext]_fileVars PROVE DirInv'
    BY Zenon
  <2>1. CASE \E size \in DirSizes : Getdents64(size)
    <3>1. PICK size \in DirSizes : Getdents64(size)
      BY Zenon, <2>1
    <3>2. CASE kind = "dir"
      BY Zenon, <3>1, <3>2, GetdentsStep
    <3>3. CASE kind # "dir"
      BY Zenon, <3>1, <3>3, DirStutter DEF Getdents64, Panic, static
    <3> QED BY Zenon, <3>2, <3>3
  <2>2. CASE \E count \in Counts : Read(count) \/ Write(count)
    BY Zenon, <2>2, DirStutter DEF Read, Write, Panic, static, fileVars, dir
  <2>3. CASE \E offset \in Offsets, whence \in {"set", "cur", "end"} : Lseek(offset, whence)
    <3>1. PICK offset \in Offsets, whence \in {"set", "cur", "end"} : Lseek(offset, whence)
      BY Zenon, <2>3
    <3>2. Panic \/ UNCHANGED fileVars \/ UNCHANGED <<static, dir>>
      BY Zenon, <3>1 DEF Lseek
    <3> QED BY Zenon, <3>2, DirStutter DEF Panic, static, fileVars, dir
  <2>4. CASE Mmap
    BY Zenon, <2>4, DirStutter DEF Mmap, Panic, static
  <2>5. CASE UNCHANGED fileVars
    BY Zenon, <2>5, DirStutter DEF fileVars, dir
  <2> QED BY Zenon, <2>1, <2>2, <2>3, <2>4, <2>5 DEF FileNext
<1> QED BY <1>1, <1>2, PTL DEF FileSpec

\* FileListing for every directory and every sequence of buffer sizes: each
\* entry is listed once or still to be listed, d_off counts up from 1, and the
\* answer 0 of getdents64 means that no entry that fits is left.
THEOREM EntriesListedOnce == FileSpec => []FileListing
<1>1. DirInv => FileListing
  <2> SUFFICES ASSUME DirInv PROVE FileListing
    OBVIOUS
  <2>1. kind = "dir" => \E names \in Dirs :
          {records[i].name : i \in DOMAIN records} \cup {e.name : e \in AllEntries} = 1..Len(names) + 2
    <3>1. {e.name : e \in AllEntries} = NamesOf(files)
      BY Zenon DEF AllEntries, NamesOf
    <3> QED BY Zenon, <3>1 DEF DirInv, NamesOf
  <2>2. \A i \in DOMAIN records, j \in DOMAIN files : records[i].name # files[j].name
    BY Zenon DEF DirInv, NamesOf
  <2>3. EachEntryOnce
    BY Zenon, <2>1, <2>2 DEF EachEntryOnce, DirInv, Distinct
  <2> QED BY Zenon, <2>3 DEF DirInv, FileListing
<1> QED BY <1>1, Listing, PTL

\* What the reads since the cursor was last placed have delivered.
Delivered(data, bytes, start) ==
  data # <<>> => /\ start \in Nat /\ start + Len(data) <= Len(bytes)
                 /\ \A i \in 1..Len(data) : data[i] = bytes[start + i]

FileTypes ==
  /\ kind \in Kinds /\ flags \in {"r", "w", "a"}
  /\ content \in Seq(Byte) /\ got \in Seq(Byte)
  /\ pos \in Int /\ from \in Int /\ first \in Nat
  /\ panicked \in BOOLEAN /\ ended \in BOOLEAN /\ mapped \in BOOLEAN
  /\ kind = "maps" => pos \in 0..Size
  /\ kind = "host" => pos \in Nat
  /\ kind \in {"proc", "bootid"} => ~ mapped

ReadInv ==
  /\ first = 0 => got = <<>>
  /\ CursorAsTold
  /\ kind \in {"bytes", "host", "maps"} /\ ~ mapped =>
       /\ Delivered(got, content, from)
       /\ ended => from < 0 \/ from + Len(got) >= Size
  /\ WholeFileReads

BytesInv == FileTypes /\ ReadInv

\* What one read delivers.
LEMMA ReadFacts ==
  ASSUME FileTypes, NEW count \in Nat \ {0}
  PROVE  /\ ReadBytes(count) \in Seq(Byte)
         /\ ReadBytes(count) = <<>> => Outside
         /\ kind \notin {"proc", "bootid"} => Delivered(ReadBytes(count), content, pos)
         /\ kind \in {"proc", "bootid"} /\ ~ Outside /\ count >= Size => ReadBytes(count) = content
         /\ Outside => ReadBytes(count) = <<>>
<1>1. content \in Seq(Byte) /\ pos \in Int /\ Size \in Nat
  BY DEF FileTypes, Size
<1>2. CASE Outside
  <2>1. ReadBytes(count) = <<>>
    BY Zenon, <1>2 DEF ReadBytes, ReadBytesAtCursor, ReadSnapshot
  <2>2. <<>> \in Seq(Byte)
    OBVIOUS
  <2> QED BY Zenon, <1>2, <2>1, <2>2 DEF Delivered
<1>3. CASE ~ Outside /\ kind \in {"proc", "bootid"}
  <2> DEFINE n == IF count > Size THEN Size ELSE count
  <2>1. ReadBytes(count) = SubSeq(content, 1, n)
    BY Zenon, <1>3 DEF ReadBytes, ReadSnapshot
  <2>2. Size > 0
    BY <1>1, <1>3 DEF Outside
  <2>3. n \in Nat /\ n # 0 /\ 0 + n <= Size /\ (count >= Size => n = Size) /\ 0 + 1 = 1 /\ 0 + n = n /\ 0 \in Nat
    BY <1>1, <2>2
  <2> HIDE DEF n
  <2>4. /\ SubSeq(content, 0 + 1, 0 + n) \in Seq(Byte) /\ Len(SubSeq(content, 0 + 1, 0 + n)) = n
        /\ \A i \in 1..n : SubSeq(content, 0 + 1, 0 + n)[i] = content[0 + i]
    BY <1>1, <2>3, SubSeqFacts DEF Size
  <2>5. /\ SubSeq(content, 1, n) \in Seq(Byte) /\ Len(SubSeq(content, 1, n)) = n
        /\ \A i \in 1..n : SubSeq(content, 1, n)[i] = content[i]
    BY <2>3, <2>4
  <2>6. SubSeq(content, 1, n) # <<>>
    BY Zenon, <2>3, <2>5, NotEmpty
  <2>7. n = Size => SubSeq(content, 1, n) = content
    BY <1>1, <2>5, SameSequence DEF Size
  <2> QED BY Zenon, <1>3, <2>1, <2>3, <2>5, <2>6, <2>7
<1>4. CASE ~ Outside /\ kind \notin {"proc", "bootid"}
  <2> DEFINE n == IF count > Size - pos THEN Size - pos ELSE count
  <2>1. ReadBytes(count) = SubSeq(content, pos + 1, pos + n)
    BY Zenon, <1>4 DEF ReadBytes, ReadBytesAtCursor
  <2>2. pos \in Nat /\ pos < Size
    BY <1>1, <1>4 DEF Outside
  <2>3. n \in Nat /\ n # 0 /\ pos + n <= Size
    BY <1>1, <2>2
  <2> HIDE DEF n
  <2>4. /\ SubSeq(content, pos + 1, pos + n) \in Seq(Byte) /\ Len(SubSeq(content, pos + 1, pos + n)) = n
        /\ \A i \in 1..n : SubSeq(content, pos + 1, pos + n)[i] = content[pos + i]
    BY <1>1, <2>2, <2>3, SubSeqFacts DEF Size
  <2>5. SubSeq(content, pos + 1, pos + n) # <<>>
    BY Zenon, <2>3, <2>4, NotEmpty
  <2> QED BY Zenon, <1>4, <2>1, <2>2, <2>3, <2>4, <2>5 DEF Delivered, Size
<1> QED BY Zenon, <1>2, <1>3, <1>4

\* Bytes read on from where those before them ended.
LEMMA DeliveredOn ==
  ASSUME NEW S, NEW bytes \in Seq(S), NEW old \in Seq(S), NEW data \in Seq(S),
         NEW start \in Int, data # <<>>,
         Delivered(old, bytes, start), Delivered(data, bytes, start + Len(old))
  PROVE  Delivered(old \o data, bytes, start)
<1> DEFINE all == old \o data
<1>1. /\ Len(old) \in Nat /\ Len(data) \in Nat /\ Len(bytes) \in Nat
      /\ Len(all) = Len(old) + Len(data)
      /\ \A k \in 1..Len(old) : all[k] = old[k]
      /\ \A k \in 1..Len(data) : all[Len(old) + k] = data[k]
  BY ConcatFacts
<1>2. /\ start + Len(old) \in Nat /\ (start + Len(old)) + Len(data) <= Len(bytes)
      /\ \A i \in 1..Len(data) : data[i] = bytes[(start + Len(old)) + i]
  BY Zenon DEF Delivered
<1>3. old # <<>> => start \in Nat /\ \A i \in 1..Len(old) : old[i] = bytes[start + i]
  BY Zenon DEF Delivered
<1> HIDE DEF all
<1>4. start \in Nat
  <2>1. old = <<>> => Len(old) = 0
    OBVIOUS
  <2> QED BY <1>2, <1>3, <2>1
<1>5. start + Len(all) <= Len(bytes)
  BY <1>1, <1>2, <1>4
<1>6. ASSUME NEW i \in 1..Len(all) PROVE all[i] = bytes[start + i]
  <2>1. CASE i \in 1..Len(old)
    <3>1. old # <<>>
      BY <2>1
    <3> QED BY Zenon, <1>1, <1>3, <2>1, <3>1
  <2>2. CASE i \notin 1..Len(old)
    <3>1. PICK k \in 1..Len(data) : i = Len(old) + k /\ (start + Len(old)) + k = start + i
      <4>1. /\ i - Len(old) \in 1..Len(data) /\ i = Len(old) + (i - Len(old))
            /\ (start + Len(old)) + (i - Len(old)) = start + i
        BY <1>1, <1>4, <2>2
      <4> QED BY Zenon, <4>1
    <3> QED BY Zenon, <1>1, <1>2, <3>1
  <2> QED BY Zenon, <2>1, <2>2
<1> QED BY Zenon, <1>4, <1>5, <1>6 DEF Delivered, all

\* read.
LEMMA ReadStep ==
  ASSUME BytesInv, NEW count \in Counts, Read(count), kind # "dir"
  PROVE  BytesInv'
<1> DEFINE data == ReadBytes(count)
<1>1. /\ pos' = pos + Len(data) /\ got' = got \o data
      /\ first' = IF first = 0 THEN count ELSE first
      /\ ended' = (data = <<>>)
      /\ UNCHANGED <<kind, flags, content, from, panicked, mapped>>
  BY Zenon DEF Read, Advance, static
<1>2. count \in Nat /\ count # 0 /\ FileTypes
  BY Zenon, FilesAssumption DEF BytesInv
<1>3. /\ data \in Seq(Byte) /\ (data = <<>> <=> Outside)
      /\ kind \notin {"proc", "bootid"} => Delivered(data, content, pos)
      /\ kind \in {"proc", "bootid"} /\ ~ Outside /\ count >= Size => data = content
  BY Zenon, <1>2, ReadFacts
<1> HIDE DEF data
<1>4. /\ content \in Seq(Byte) /\ got \in Seq(Byte) /\ pos \in Int /\ from \in Int /\ first \in Nat
      /\ Len(got) \in Nat /\ Len(data) \in Nat /\ Size \in Nat
  BY <1>2, <1>3 DEF FileTypes, Size
<1>5. got \o data \in Seq(Byte) /\ Len(got \o data) = Len(got) + Len(data)
  BY <1>3, <1>4
<1>6. Size' = Size
  BY Zenon, <1>1 DEF Size
<1>7. FileTypes'
  <2>1. pos + Len(data) \in Int /\ (kind = "host" => pos + Len(data) \in Nat)
    BY <1>2, <1>4 DEF FileTypes
  <2>2. kind = "maps" => pos + Len(data) \in 0..Size
    <3> SUFFICES ASSUME kind = "maps" PROVE pos + Len(data) \in 0..Size
      OBVIOUS
    <3>1. pos \in 0..Size /\ Delivered(data, content, pos)
      BY Zenon, <1>2, <1>3 DEF FileTypes
    <3>2. data # <<>> => pos + Len(data) <= Size
      BY Zenon, <3>1 DEF Delivered, Size
    <3>3. data = <<>> => Len(data) = 0
      OBVIOUS
    <3> QED BY <1>4, <3>1, <3>2, <3>3
  <2>3. first' \in Nat
    BY Zenon, <1>1, <1>2, <1>4
  <2>4. ended' \in BOOLEAN
    BY Zenon, <1>1
  <2> QED BY Zenon, <1>1, <1>2, <1>5, <1>6, <2>1, <2>2, <2>3, <2>4 DEF FileTypes
<1>8. CursorAsTold'
  <2>1. pos = from + Len(got) => pos + Len(data) = from + (Len(got) + Len(data))
    BY <1>4
  <2>2. kind \in StreamKinds /\ ~ mapped => pos = from + Len(got)
    BY Zenon DEF BytesInv, ReadInv, CursorAsTold
  <2> QED BY Zenon, <1>1, <1>5, <2>1, <2>2 DEF CursorAsTold
<1>9. first' # 0
  BY Zenon, <1>1, <1>2
<1>10. ASSUME kind \in {"bytes", "host", "maps"}, ~ mapped
       PROVE  /\ Delivered(got \o data, content, from)
              /\ data = <<>> => from < 0 \/ from + Len(got \o data) >= Size
  <2>1. pos = from + Len(got) /\ Delivered(got, content, from) /\ kind \notin {"proc", "bootid"}
    <3>1. kind \in StreamKinds
      BY <1>10 DEF StreamKinds
    <3>2. kind \notin {"proc", "bootid"}
      BY <1>10
    <3> QED BY Zenon, <1>10, <3>1, <3>2 DEF BytesInv, ReadInv, CursorAsTold
  <2>2. CASE data # <<>>
    <3>1. Delivered(data, content, from + Len(got))
      BY Zenon, <1>3, <2>1
    <3> QED BY <1>3, <1>4, <2>1, <2>2, <3>1, DeliveredOn
  <2>3. CASE data = <<>>
    <3>1. got \o data = got
      BY <1>4, <2>3
    <3>2. pos < 0 \/ pos >= Size
      BY Zenon, <1>3, <2>3 DEF Outside
    <3>3. from < 0 \/ from + Len(got) >= Size
      BY <1>4, <2>1, <3>2
    <3> QED BY Zenon, <2>1, <3>1, <3>3
  <2> QED BY Zenon, <2>2, <2>3
<1>11. WholeFileReads'
  <2> SUFFICES ASSUME kind \in {"proc", "bootid"}, from = 0, first' >= Size, Size > 0
               PROVE  got \o data = content
    BY Zenon, <1>1, <1>6 DEF WholeFileReads
  <2>1. pos = 0 + Len(got)
    <3>1. kind \in StreamKinds
      BY DEF StreamKinds
    <3>2. ~ mapped
      BY Zenon, <1>2 DEF FileTypes
    <3> QED BY Zenon, <3>1, <3>2 DEF BytesInv, ReadInv, CursorAsTold
  <2>2. CASE first = 0
    <3>1. got = <<>> /\ count >= Size
      BY Zenon, <1>1, <2>2 DEF BytesInv, ReadInv
    <3>2. ~ Outside
      BY <1>4, <2>1, <3>1 DEF Outside
    <3>3. data = content
      BY Zenon, <1>3, <3>1, <3>2
    <3> QED BY <1>4, <3>1, <3>3
  <2>3. CASE first # 0
    <3>1. got = content
      BY Zenon, <1>1, <2>3 DEF BytesInv, ReadInv, WholeFileReads
    <3>2. Outside
      BY <1>4, <2>1, <3>1 DEF Outside, Size
    <3>3. data = <<>>
      BY Zenon, <1>3, <3>2
    <3> QED BY <1>4, <3>1, <3>3
  <2> QED BY Zenon, <2>2, <2>3
<1>12. ReadInv'
  BY Zenon, <1>1, <1>6, <1>8, <1>9, <1>10, <1>11 DEF ReadInv
<1> QED BY Zenon, <1>7, <1>12 DEF BytesInv

\* After the cursor is placed, nothing has been delivered.
LEMMA PlaceStep ==
  ASSUME FileTypes', NEW p \in Int, pos' = p, Place(p)
  PROVE  BytesInv'
<1>1. from' = p /\ got' = <<>> /\ first' = 0 /\ ~ ended'
  BY Zenon DEF Place
<1>2. Size' \in Nat /\ Len(<<>>) = 0
  BY DEF FileTypes, Size
<1>3. ~ (0 >= Size' /\ Size' > 0) /\ p = p + Len(<<>>)
  BY <1>2
<1>4. CursorAsTold' /\ WholeFileReads'
  BY Zenon, <1>1, <1>3 DEF CursorAsTold, WholeFileReads
<1>5. Delivered(got', content', from')
  BY Zenon, <1>1 DEF Delivered
<1> QED BY Zenon, <1>1, <1>4, <1>5 DEF BytesInv, ReadInv

\* A step that leaves the bytes, the cursor and what was read alone.
LEMMA BytesStutter ==
  ASSUME BytesInv, UNCHANGED <<static, content, pos, history, mapped>>, panicked' \in BOOLEAN
  PROVE  BytesInv'
<1>1. UNCHANGED <<kind, flags, content, pos, mapped, got, from, first, ended>>
  BY Zenon DEF static, history
<1>2. Size' = Size
  BY Zenon, <1>1 DEF Size
<1>3. FileTypes'
  <2>1. FileTypes
    BY Zenon DEF BytesInv
  <2> QED BY <1>1, <1>2, <2>1 DEF FileTypes
<1>4. CursorAsTold'
  <2>1. CursorAsTold
    BY Zenon DEF BytesInv, ReadInv
  <2> QED BY <1>1, <2>1 DEF CursorAsTold
<1>5. WholeFileReads'
  <2>1. WholeFileReads
    BY Zenon DEF BytesInv, ReadInv
  <2> QED BY Zenon, <1>1, <1>2, <2>1 DEF WholeFileReads
<1>6. ReadInv'
  <2>1. ReadInv
    BY Zenon DEF BytesInv
  <2> QED BY <1>1, <1>2, <1>4, <1>5, <2>1 DEF ReadInv
<1> QED BY Zenon, <1>3, <1>6 DEF BytesInv

\* lseek.
LEMMA LseekStep ==
  ASSUME BytesInv, NEW offset \in Offsets, NEW whence \in {"set", "cur", "end"}, Lseek(offset, whence)
  PROVE  BytesInv' /\ content' = content /\ flags' = flags
<1> DEFINE p == Target(offset, whence)
<1>1. CASE Panic \/ UNCHANGED fileVars
  <2>1. UNCHANGED <<static, content, pos, history, mapped>> /\ panicked' \in BOOLEAN
    BY Zenon, <1>1 DEF Panic, fileVars, static, history, BytesInv, FileTypes
  <2> QED BY Zenon, <2>1, BytesStutter DEF static
<1>2. CASE ~ (Panic \/ UNCHANGED fileVars)
  <2>1. /\ kind # "maps" /\ ~ OffsetError(offset, whence) /\ pos' = p /\ Place(p)
        /\ UNCHANGED <<static, content, dir, panicked, mapped>>
    BY Zenon, <1>2 DEF Lseek, Seek
  <2>2. p \in -MaxPos..MaxPos
    BY Zenon DEF Lseek
  <2> HIDE DEF p
  <2>3. p \in Int
    BY <2>2, FilesAssumption
  <2>4. kind = "host" => p \in Nat
    <3>1. kind = "host" => ~ (p < 0)
      BY Zenon, <2>1 DEF OffsetError, p
    <3> QED BY <2>3, <3>1
  <2>5. FileTypes'
    <3>1. from' \in Int /\ got' \in Seq(Byte) /\ first' \in Nat /\ ended' \in BOOLEAN
      <4>1. <<>> \in Seq(Byte) /\ 0 \in Nat
        OBVIOUS
      <4> QED BY Zenon, <2>1, <2>3, <4>1 DEF Place
    <3> QED BY Zenon, <2>1, <2>3, <2>4, <3>1 DEF BytesInv, FileTypes, static
  <2> QED BY Zenon, <2>1, <2>3, <2>5, PlaceStep DEF static
<1> QED BY Zenon, <1>1, <1>2

\* What a write leaves in a host file; one at the end changes no byte.
LEMMA WrittenFacts ==
  ASSUME NEW bytes \in Seq(Byte), NEW at \in Nat, NEW n \in Nat
  PROVE  /\ Written(bytes, at, n) \in Seq(Byte)
         /\ at = Len(bytes) => /\ Len(bytes) <= Len(Written(bytes, at, n))
                               /\ \A i \in DOMAIN bytes : Written(bytes, at, n)[i] = bytes[i]
<1> DEFINE len == IF at + n > Len(bytes) THEN at + n ELSE Len(bytes)
           w == Written(bytes, at, n)
<1>1. len \in Nat /\ Len(bytes) \in Nat /\ len >= Len(bytes) /\ DOMAIN bytes = 1..Len(bytes)
  OBVIOUS
<1>2. w = [i \in 1..len |-> IF i \in at + 1..at + n THEN 0
                            ELSE IF i <= Len(bytes) THEN bytes[i] ELSE 0]
  BY Zenon DEF Written
<1>3. 0 \in Byte /\ \A i \in 1..len : i <= Len(bytes) => bytes[i] \in Byte
  BY <1>1, FilesAssumption DEF Byte
<1> HIDE DEF len, w
<1>4. \A i \in DOMAIN bytes : i \in 1..len /\ i <= Len(bytes) /\ (at = Len(bytes) => i \notin at + 1..at + n)
  <2> SUFFICES ASSUME NEW i \in 1..Len(bytes)
               PROVE  i \in 1..len /\ i <= Len(bytes) /\ (at = Len(bytes) => i \notin at + 1..at + n)
    BY Zenon, <1>1
  <2>1. len \in Nat /\ Len(bytes) \in Nat /\ len >= Len(bytes)
    BY Zenon, <1>1
  <2>2. i \in 1..len /\ i <= Len(bytes)
    BY <2>1
  <2>3. at = Len(bytes) => i \notin at + 1..at + n
    BY <2>1
  <2> QED BY Zenon, <2>2, <2>3
<1>5. w \in [1..len -> Byte]
  BY Zenon, <1>2, <1>3
<1>6. w \in Seq(Byte) /\ Len(w) = len
  BY <1>1, <1>5
<1>7. at = Len(bytes) => \A i \in DOMAIN bytes : w[i] = bytes[i]
  BY Zenon, <1>2, <1>4
<1> QED BY Zenon, <1>1, <1>6, <1>7 DEF w

\* write.
LEMMA WriteStep ==
  ASSUME BytesInv, NEW count \in Counts, Write(count)
  PROVE  /\ BytesInv'
         /\ flags = "a" => /\ Len(content) <= Len(content')
                           /\ \A i \in DOMAIN content : content'[i] = content[i]
<1>0. Len(content) <= Len(content)
  BY DEF BytesInv, FileTypes
<1>1. CASE Panic \/ UNCHANGED fileVars
  <2>1. UNCHANGED <<static, content, pos, history, mapped>> /\ panicked' \in BOOLEAN
    BY Zenon, <1>1 DEF Panic, fileVars, static, history, BytesInv, FileTypes
  <2> QED BY Zenon, <1>0, <2>1, BytesStutter DEF static
<1>2. CASE ~ (Panic \/ UNCHANGED fileVars)
  <2>1. /\ kind = "host"
        /\ content' = Written(content, WriteAt, count)
        /\ pos' = WriteAt + count /\ Place(WriteAt + count)
        /\ UNCHANGED <<static, dir, panicked, mapped>>
    BY Zenon, <1>2 DEF Write
  <2>2. count \in Nat /\ content \in Seq(Byte) /\ pos \in Nat
    BY Zenon, <2>1, FilesAssumption DEF BytesInv, FileTypes
  <2>3. WriteAt \in Nat /\ (flags = "a" => WriteAt = Len(content))
    BY <2>2 DEF WriteAt, Size
  <2>4. WriteAt + count \in Nat /\ WriteAt + count \in Int
    BY <2>2, <2>3
  <2>5. /\ Written(content, WriteAt, count) \in Seq(Byte)
        /\ WriteAt = Len(content) =>
             /\ Len(content) <= Len(Written(content, WriteAt, count))
             /\ \A i \in DOMAIN content : Written(content, WriteAt, count)[i] = content[i]
    BY Zenon, <2>2, <2>3, WrittenFacts
  <2>6. FileTypes'
    <3>1. from' \in Int /\ got' \in Seq(Byte) /\ first' \in Nat /\ ended' \in BOOLEAN
      <4>1. <<>> \in Seq(Byte) /\ 0 \in Nat
        OBVIOUS
      <4> QED BY Zenon, <2>1, <2>4, <4>1 DEF Place
    <3>2. kind # "maps" /\ kind \notin {"proc", "bootid"}
      BY <2>1
    <3> QED BY Zenon, <2>1, <2>4, <2>5, <3>1, <3>2 DEF BytesInv, FileTypes, static
  <2> QED BY Zenon, <2>1, <2>3, <2>4, <2>5, <2>6, PlaceStep
<1> QED BY Zenon, <1>1, <1>2

\* mmap.
LEMMA MmapStep ==
  ASSUME BytesInv, Mmap
  PROVE  BytesInv' /\ content' = content /\ flags' = flags
<1>1. CASE kind \in {"bytes", "host"}
  <2>1. /\ pos' = (IF kind = "host" THEN Size ELSE pos) /\ mapped' = TRUE
        /\ UNCHANGED <<static, content, dir, panicked, history>>
    BY Zenon, <1>1 DEF Mmap
  <2>2. Size \in Nat /\ Size \in Int /\ Size' = Size
    BY <2>1 DEF BytesInv, FileTypes, Size
  <2>3. kind # "maps" /\ kind \notin {"proc", "bootid"}
    BY <1>1
  <2>4. FileTypes'
    BY Zenon, <2>1, <2>2, <2>3 DEF BytesInv, FileTypes, static, history
  <2>5. CursorAsTold' /\ WholeFileReads'
    BY Zenon, <2>1, <2>3 DEF CursorAsTold, WholeFileReads, static
  <2> QED BY Zenon, <2>1, <2>4, <2>5 DEF BytesInv, ReadInv, static, history
<1>2. CASE kind \notin {"bytes", "host"}
  <2>1. UNCHANGED <<static, content, pos, history, mapped>> /\ panicked' \in BOOLEAN
    BY Zenon, <1>2 DEF Mmap, Panic
  <2> QED BY Zenon, <2>1, BytesStutter DEF static
<1> QED BY Zenon, <1>1, <1>2

\* FileBytes for every content, cursor, byte count and offset: reads deliver
\* the bytes from where the guest was told the cursor is and announce the end
\* only there, a /proc file read at once is delivered whole, lseek answers
\* where the cursor is, and an append changes no byte written before.
THEOREM BytesDelivered == FileSpec => FileBytes
<1>1. FileInit => BytesInv
  <2> SUFFICES ASSUME FileInit PROVE BytesInv
    OBVIOUS
  <2>1. content \in Seq(Byte) /\ Size \in Nat
    <3>1. PICK n \in Sizes \cup {0} : content = [i \in 1..n |-> i]
      BY Zenon DEF FileInit
    <3>2. n \in 0..MaxPos /\ MaxPos \in Nat
      BY FilesAssumption
    <3> QED BY <3>1, <3>2 DEF Byte, Size
  <2>2. /\ kind \in Kinds /\ flags \in {"r", "w", "a"} /\ pos = 0 /\ from = 0 /\ first = 0 /\ got = <<>>
        /\ ended = FALSE /\ mapped = FALSE /\ panicked = FALSE
    BY Zenon DEF FileInit
  <2>3. <<>> \in Seq(Byte) /\ 0 \in Nat /\ 0 \in Int /\ 0 \in 0..Size /\ Len(<<>>) = 0 /\ 0 = 0 + Len(<<>>)
    BY <2>1
  <2>4. FileTypes
    BY Zenon, <2>1, <2>2, <2>3 DEF FileTypes
  <2>5. ~ (0 >= Size /\ Size > 0)
    BY <2>1
  <2>6. CursorAsTold /\ WholeFileReads
    BY Zenon, <2>2, <2>3, <2>5 DEF CursorAsTold, WholeFileReads
  <2>7. Delivered(got, content, from)
    BY Zenon, <2>2 DEF Delivered
  <2> QED BY Zenon, <2>2, <2>4, <2>6, <2>7 DEF BytesInv, ReadInv
<1>2. BytesInv /\ [FileNext]_fileVars =>
        /\ BytesInv'
        /\ flags = "a" => /\ Len(content) <= Len(content')
                          /\ \A i \in DOMAIN content : content'[i] = content[i]
  <2> SUFFICES ASSUME BytesInv, [FileNext]_fileVars
               PROVE  /\ BytesInv'
                      /\ flags = "a" => /\ Len(content) <= Len(content')
                                        /\ \A i \in DOMAIN content : content'[i] = content[i]
    BY Zenon
  <2>1. Len(content) <= Len(content) /\ panicked \in BOOLEAN /\ TRUE \in BOOLEAN
    BY DEF BytesInv, FileTypes
  <2>2. ASSUME Panic PROVE UNCHANGED <<static, content, pos, history, mapped>> /\ panicked' \in BOOLEAN
    BY Zenon, <2>2 DEF Panic
  <2>3. CASE \E count \in Counts : Read(count)
    <3>1. PICK count \in Counts : Read(count)
      BY Zenon, <2>3
    <3>2. CASE kind = "dir"
      <4>1. Panic
        BY Zenon, <3>1, <3>2 DEF Read
      <4> QED BY Zenon, <2>1, <2>2, <4>1, BytesStutter
    <3>3. CASE kind # "dir"
      <4>1. content' = content
        BY Zenon, <3>1, <3>3 DEF Read
      <4> QED BY Zenon, <2>1, <3>1, <3>3, <4>1, ReadStep
    <3> QED BY Zenon, <3>2, <3>3
  <2>4. CASE \E count \in Counts : Write(count)
    BY Zenon, <2>4, WriteStep
  <2>5. CASE \E offset \in Offsets, whence \in {"set", "cur", "end"} : Lseek(offset, whence)
    BY Zenon, <2>1, <2>5, LseekStep
  <2>6. CASE Mmap
    BY Zenon, <2>1, <2>6, MmapStep
  <2>7. CASE \E size \in DirSizes : Getdents64(size)
    <3>1. UNCHANGED <<static, content, pos, history, mapped>> /\ panicked' \in BOOLEAN
      BY Zenon, <2>1, <2>2, <2>7 DEF Getdents64
    <3> QED BY Zenon, <2>1, <3>1, BytesStutter
  <2>8. CASE UNCHANGED fileVars
    <3>1. UNCHANGED <<static, content, pos, history, mapped>> /\ panicked' \in BOOLEAN
      BY Zenon, <2>1, <2>8 DEF fileVars, static, history
    <3> QED BY Zenon, <2>1, <3>1, BytesStutter
  <2> QED BY Zenon, <2>3, <2>4, <2>5, <2>6, <2>7, <2>8 DEF FileNext
<1>3. BytesInv /\ DirInv => FileTypeOK /\ SequentialReads /\ WholeFileReads /\ CursorAsTold
  <2> SUFFICES ASSUME BytesInv, DirInv PROVE FileTypeOK /\ SequentialReads
    BY Zenon DEF BytesInv, ReadInv
  <2>1. off \in Nat
    BY DEF DirInv
  <2>2. {panicked, ended, mapped} \subseteq BOOLEAN
    BY Zenon DEF BytesInv, FileTypes
  <2>3. FileTypeOK
    BY Zenon, <2>1, <2>2 DEF BytesInv, FileTypes, DirInv, FileTypeOK
  <2>4. ASSUME Delivered(got, content, from), got # <<>>
        PROVE  got = SubSeq(content, from + 1, from + Len(got))
    <3>1. /\ from \in Nat /\ from + Len(got) <= Len(content)
          /\ \A i \in 1..Len(got) : got[i] = content[from + i]
      BY Zenon, <2>4 DEF Delivered
    <3>2. got \in Seq(Byte) /\ content \in Seq(Byte) /\ Len(got) \in Nat
      BY DEF BytesInv, FileTypes
    <3> DEFINE part == SubSeq(content, from + 1, from + Len(got))
    <3>3. /\ part \in Seq(Byte) /\ Len(part) = Len(got)
          /\ \A i \in 1..Len(got) : part[i] = content[from + i]
      BY <3>1, <3>2, SubSeqFacts
    <3> HIDE DEF part
    <3>4. \A i \in 1..Len(got) : got[i] = part[i]
      BY Zenon, <3>1, <3>3
    <3>5. got = part
      BY <3>2, <3>3, <3>4, SameSequence
    <3> QED BY Zenon, <3>5 DEF part
  <2>5. SequentialReads
    BY Zenon, <2>4 DEF BytesInv, ReadInv, SequentialReads
  <2> QED BY Zenon, <2>3, <2>5
<1> QED BY <1>1, <1>2, <1>3, Listing, PTL DEF FileSpec, FileBytes, AppendOnly

-----------------------------------------------------------------------------
(* DlIterate *)

Words == ({"int", "size", "ptr", "fp", "data", "guest", "stub"} \X Int) \cup {Word("code", "cb")}
LibNames == Libraries \cup {"virtual", Libart}
WalkSet == [stack : Seq(Words), lr : Words, data : Words, list : Seq(LibNames),
            visited : Seq(LibNames \X Words \X Words), answers : Seq(Int)]
Stub == Word("stub", 0)

\* The frames of a walk that are left to visit, and the height of the stack
\* below the topmost of m frames.
Left(w) == Len(w.list) - Len(w.visited)
Height(w, m) == Len(w.stack) + 3 + 4 * m

\* The j-th frame from the terminator describes the j-th module from the end
\* of the list.
FrameAt(st, w, j, blocks) ==
  /\ st[Height(w, j)] = Word("code", "cb")
  /\ \E b \in DOMAIN blocks : /\ st[Height(w, j) - 1] = Word("ptr", b)
                              /\ blocks[b] = w.list[Len(w.list) + 1 - j]
  /\ st[Height(w, j) - 2] = InfoSize
  /\ st[Height(w, j) - 3] = w.data

\* A walk has, from below: the stack of its caller, the saved registers, the
\* terminator and m frames.
Saved(st, w) ==
  /\ \A i \in 1..Len(w.stack) : st[i] = w.stack[i]
  /\ st[Len(w.stack) + 1] = w.lr

Frames(st, w, m, blocks) ==
  /\ Saved(st, w)
  /\ st[Height(w, 0)] = Null
  /\ \A j \in 1..m : FrameAt(st, w, j, blocks)

\* The stack while a callback of w runs, and while guest code runs.
InCall(st, w, blocks) ==
  /\ Len(st) = Height(w, Left(w)) + 1 /\ st[Len(st)] = Stub
  /\ Frames(st, w, Left(w), blocks)

GuestShape(st, ws, blocks) == IF ws = <<>> THEN st = <<>> ELSE InCall(st, ws[Len(ws)], blocks)

\* What has been visited is the beginning of the list.
WalkOK(w) ==
  /\ Len(w.list) >= 1 /\ Len(w.visited) <= Len(w.list)
  /\ \A i \in 1..Len(w.visited) : w.visited[i] = <<w.list[i], InfoSize, w.data>>

\* The callback of the last visit runs; it has answered; it has answered 0.
Zeros(w, n) == \A i \in 1..n : w.answers[i] = 0
Calling(w) == Len(w.visited) = Len(w.answers) + 1 /\ Zeros(w, Len(w.answers))
Told(w, x0) ==
  /\ Len(w.visited) = Len(w.answers) /\ Len(w.answers) >= 1 /\ Zeros(w, Len(w.answers) - 1)
  /\ x0 = Word("int", w.answers[Len(w.answers)])
Between(w, x0) ==
  Len(w.visited) = Len(w.answers) /\ Zeros(w, Len(w.answers)) /\ (Len(w.answers) >= 1 => x0 = Null)

WalkTypes ==
  /\ stack \in Seq(Words)
  /\ regs \in [x0 : Words, x1 : Words, x2 : Words, x13 : Words, x30 : Words]
  /\ pc \in {"guest", "loop", "callback", "compare", "drain", "post", "dlopen_loop", "stopped"}
  /\ modules \in Seq([name : LibNames, elf : BOOLEAN])
  /\ info \in Seq(LibNames) /\ walks \in Seq(WalkSet) /\ calls \in Nat

\* The walks that enclose the innermost one wait in a callback, and each one
\* began on the stack that its caller's callback had.
Outer(ws, blocks) ==
  \A i \in 1..Len(ws) :
    /\ WalkOK(ws[i])
    /\ i < Len(ws) => Calling(ws[i]) /\ InCall(ws[i + 1].stack, ws[i], blocks)
    /\ i = 1 => ws[i].stack = <<>>

\* The innermost walk, by the block that runs.
Inner(w) ==
  /\ pc = "loop" => Between(w, regs.x0)
  /\ pc \in {"callback", "guest", "dlopen_loop"} => Calling(w)
  /\ pc \in {"compare", "drain", "post"} => Told(w, regs.x0)
  /\ pc \in {"loop", "callback", "compare"} =>
       Len(stack) = Height(w, Left(w)) /\ Frames(stack, w, Left(w), info)
  /\ pc = "drain" => /\ w.answers[Len(w.answers)] # 0
                     /\ \E m \in 0..Left(w) : Len(stack) = Height(w, m) /\ Frames(stack, w, m, info)
  /\ pc = "post" => /\ w.answers[Len(w.answers)] = 0 => Len(w.answers) = Len(w.list)
                    /\ Len(stack) = Len(w.stack) + 2 /\ Saved(stack, w)

Shape ==
  /\ pc \in {"loop", "callback", "compare", "drain", "post"} => walks # <<>>
  /\ walks # <<>> => Inner(walks[Len(walks)])
  /\ pc = "callback" => regs.x30 = Stub
  /\ pc = "guest" => GuestShape(stack, walks, info)
  /\ pc = "dlopen_loop" => Len(stack) >= 4 /\ GuestShape(Pop(4), walks, info)

Returns ==
  \/ returned = NoWalk
  \/ pc \in {"guest", "stopped"} /\ StopsAtFirstNonzero /\ ResultIsLastAnswer /\ StackRestored

WalkInv == WalkTypes /\ Outer(walks, info) /\ Shape /\ Returns

\* The names of the modules with an ELF file among the first n.
IsNames(g, n, ms) ==
  g = [i \in 0..n |-> IF i = 0 THEN <<>>
                      ELSE IF ms[i].elf THEN Append(g[i - 1], ms[i].name) ELSE g[i - 1]]

\* They can be collected from any number of modules.
LEMMA NamesExist ==
  ASSUME NEW ms, NEW n \in Nat
  PROVE  \E g : IsNames(g, n, ms)
<1> DEFINE Bad == {m \in Nat : ~ \E g : IsNames(g, m, ms)}
           Next(x, i) == IF ms[i].elf THEN Append(x, ms[i].name) ELSE x
<1> SUFFICES ASSUME Bad # {} PROVE FALSE
  BY Zenon
<1>1. \E m \in Bad : \A k \in Bad : m <= k
  <2>1. Bad \in SUBSET Nat
    BY Zenon
  <2> HIDE DEF Bad
  <2> QED BY Zenon, <2>1, LeastNat
<1>2. PICK m \in Nat : (\A k \in Bad : m <= k) /\ ~ \E g : IsNames(g, m, ms)
  BY Zenon, <1>1
<1>3. CASE m = 0
  <2> DEFINE g == [i \in 0..0 |-> <<>>]
  <2>1. \A i \in 0..0 : i = 0
    OBVIOUS
  <2>2. IsNames(g, 0, ms)
    BY Zenon, <2>1 DEF IsNames
  <2> QED BY Zenon, <1>2, <1>3, <2>2
<1>4. CASE m # 0
  <2>1. m - 1 \in Nat /\ ~ (m <= m - 1)
    BY <1>4
  <2>2. m - 1 \notin Bad
    BY Zenon, <1>2, <2>1
  <2>3. PICK g : IsNames(g, m - 1, ms)
    BY Zenon, <2>1, <2>2
  <2> DEFINE h == [i \in 0..m |-> IF i = m THEN Next(g[m - 1], m) ELSE g[i]]
  <2>4. \A i \in 0..m : i # m => /\ i \in 0..m - 1 /\ i \in 0..m
                                 /\ i # 0 => i - 1 \in 0..m - 1 /\ i - 1 \in 0..m /\ i - 1 # m
    OBVIOUS
  <2>5. m \in 0..m /\ m - 1 \in 0..m - 1 /\ m - 1 \in 0..m /\ m - 1 # m
    BY <1>4
  <2>6. \A i \in 0..m - 1 : g[i] = IF i = 0 THEN <<>> ELSE Next(g[i - 1], i)
    BY Zenon, <2>3 DEF IsNames
  <2> HIDE DEF Next
  <2>7. \A i \in 0..m : h[i] = IF i = 0 THEN <<>> ELSE Next(h[i - 1], i)
    <3> SUFFICES ASSUME NEW i \in 0..m
                 PROVE  h[i] = IF i = 0 THEN <<>> ELSE Next(h[i - 1], i)
      BY Zenon
    <3>1. CASE i = m
      BY Zenon, <1>4, <2>5, <3>1
    <3>2. CASE i # m
      <4>1. h[i] = g[i] /\ (i # 0 => h[i - 1] = g[i - 1])
        BY Zenon, <2>4, <3>2
      <4> HIDE DEF h
      <4> QED BY Zenon, <2>4, <2>6, <3>2, <4>1
    <3> QED BY Zenon, <3>1, <3>2
  <2>8. h = [i \in 0..m |-> h[i]]
    BY Zenon
  <2> HIDE DEF h
  <2>9. IsNames(h, m, ms)
    BY Zenon, <2>7, <2>8 DEF IsNames, Next
  <2> QED BY Zenon, <1>2, <2>9
<1> QED BY Zenon, <1>3, <1>4

\* WithElf is a list of names.
LEMMA WithElfFacts ==
  ASSUME modules \in Seq([name : LibNames, elf : BOOLEAN])
  PROVE  WithElf \in Seq(LibNames)
<1> DEFINE n == Len(modules)
           v == CHOOSE g : IsNames(g, n, modules)
<1>1. n \in Nat /\ DOMAIN modules = 1..n
  OBVIOUS
<1>2. IsNames(v, n, modules)
  BY Zenon, <1>1, NamesExist
<1>3. WithElf = v[n]
  BY Zenon DEF WithElf, IsNames
<1>4. \A i \in 0..n : v[i] = IF i = 0 THEN <<>>
                             ELSE IF modules[i].elf THEN Append(v[i - 1], modules[i].name) ELSE v[i - 1]
  BY Zenon, <1>2 DEF IsNames
<1> HIDE DEF v
<1> DEFINE Bad == {i \in 0..n : v[i] \notin Seq(LibNames)}
<1> SUFFICES ASSUME Bad # {} PROVE FALSE
  BY <1>1, <1>3
<1>5. PICK m \in Bad : \A i \in Bad : m <= i
  <2>1. Bad \in SUBSET Nat
    BY <1>1
  <2> HIDE DEF Bad
  <2> QED BY Zenon, <2>1, LeastNat
<1>6. m \in 0..n /\ m \in Nat /\ v[m] \notin Seq(LibNames)
  BY <1>1
<1>7. m # 0
  <2>1. <<>> \in Seq(LibNames)
    OBVIOUS
  <2> QED BY Zenon, <1>4, <1>6, <2>1
<1>8. m - 1 \in 0..n /\ ~ (m <= m - 1) /\ m \in 1..n
  BY <1>1, <1>6, <1>7
<1>9. v[m - 1] \in Seq(LibNames)
  BY Zenon, <1>5, <1>8
<1>10. modules[m].name \in LibNames
  <2>1. modules[m] \in [name : LibNames, elf : BOOLEAN]
    BY Zenon, <1>8, Element
  <2> QED BY Zenon, <2>1
<1>11. Append(v[m - 1], modules[m].name) \in Seq(LibNames)
  BY <1>9, <1>10
<1> QED BY Zenon, <1>4, <1>6, <1>7, <1>9, <1>11

\* The host pushes the list backwards.
LEMMA ListedFacts ==
  ASSUME modules \in Seq([name : LibNames, elf : BOOLEAN]), NEW l, l = <<Libart>> \o WithElf
  PROVE  /\ l \in Seq(LibNames) /\ Len(l) \in Nat /\ Len(l) >= 1
         /\ listed \in Seq(LibNames) /\ Len(listed) = Len(l)
         /\ \A j \in 1..Len(l) : listed[j] = l[Len(l) + 1 - j]
<1> DEFINE e == WithElf
           n == Len(e)
           back == [i \in 1..n |-> e[n + 1 - i]]
<1>1. e \in Seq(LibNames)
  BY Zenon, WithElfFacts
<1>2. listed = back \o <<Libart>> /\ l = <<Libart>> \o e
  BY Zenon DEF listed
<1> HIDE DEF e
<1>3. n \in Nat /\ \A i \in 1..n : n + 1 - i \in 1..n
  BY <1>1
<1>4. \A i \in 1..n : e[n + 1 - i] \in LibNames
  BY Zenon, <1>1, <1>3, Element
<1>5. back \in [1..n -> LibNames] /\ \A i \in 1..n : back[i] = e[n + 1 - i]
  BY Zenon, <1>4
<1> HIDE DEF back
<1>6. back \in Seq(LibNames) /\ n = Len(back)
  <2>1. back \in Seq(LibNames) /\ Len(back) = n
    BY SMTT(30), <1>3, <1>5
  <2> QED BY Zenon, <2>1
<1>7. Libart \in LibNames /\ <<Libart>> \in Seq(LibNames) /\ 1 = Len(<<Libart>>) /\ <<Libart>>[1] = Libart
  BY DEF LibNames
<1>8. /\ listed \in Seq(LibNames) /\ Len(listed) = n + 1
      /\ \A k \in 1..n : listed[k] = back[k]
      /\ \A k \in 1..1 : listed[n + k] = <<Libart>>[k]
  BY <1>2, <1>6, <1>7
<1>9. /\ l \in Seq(LibNames) /\ Len(l) = 1 + n
      /\ l[1] = Libart
      /\ \A k \in 1..n : l[1 + k] = e[k]
  <2>1. /\ <<Libart>> \o e \in Seq(LibNames) /\ Len(<<Libart>> \o e) = 1 + n
        /\ (<<Libart>> \o e)[1] = Libart
        /\ \A k \in 1..n : (<<Libart>> \o e)[1 + k] = e[k]
    BY <1>1, <1>7, Prepended
  <2> QED BY Zenon, <1>2, <2>1
<1> HIDE DEF n
<1>10. 1 \in 1..1 /\ Len(l) \in Nat /\ Len(l) >= 1 /\ Len(listed) = Len(l)
  BY <1>3, <1>8, <1>9
<1>11. ASSUME NEW j \in 1..Len(l) PROVE listed[j] = l[Len(l) + 1 - j]
  <2>1. CASE j = n + 1
    <3>1. Len(l) + 1 - j = 1
      BY <1>3, <1>9, <2>1
    <3> QED BY Zenon, <1>8, <1>9, <1>10, <2>1, <3>1
  <2>2. CASE j # n + 1
    <3>1. j \in 1..n /\ Len(l) + 1 - j = 1 + (n + 1 - j)
      BY <1>3, <1>9, <2>2
    <3>2. listed[j] = e[n + 1 - j] /\ n + 1 - j \in 1..n
      BY Zenon, <1>3, <1>5, <1>8, <3>1
    <3>3. l[1 + (n + 1 - j)] = e[n + 1 - j]
      BY Zenon, <1>9, <3>2
    <3> QED BY Zenon, <3>1, <3>2, <3>3
  <2> QED BY Zenon, <2>1, <2>2
<1> QED BY Zenon, <1>8, <1>9, <1>10, <1>11

\* Words of the frames the host pushes.
LEMMA FrameWords ==
  ASSUME NEW b \in Int, NEW data \in Words
  PROVE  /\ Frame(b, data)[1] = data /\ Frame(b, data)[2] = InfoSize
         /\ Frame(b, data)[3] = Word("ptr", b) /\ Frame(b, data)[4] = Word("code", "cb")
         /\ \A q \in 1..4 : Frame(b, data)[q] \in Words
<1>1. /\ Frame(b, data)[1] = data /\ Frame(b, data)[2] = InfoSize
      /\ Frame(b, data)[3] = Word("ptr", b) /\ Frame(b, data)[4] = Word("code", "cb")
  BY DEF Frame
<1>2. InfoSize \in Words /\ Word("ptr", b) \in Words /\ Word("code", "cb") \in Words
  BY DEF InfoSize, Word, Words
<1>3. \A q \in 1..4 : q = 1 \/ q = 2 \/ q = 3 \/ q = 4
  OBVIOUS
<1> QED BY Zenon, <1>1, <1>2, <1>3

\* The terminator and the frames, from below.
LEMMA FramesPushed ==
  ASSUME WalkTypes, NEW data \in Words, NEW n, n = Len(listed), n \in Nat
  PROVE  /\ frames(data) \in Seq(Words) /\ Len(frames(data)) = 1 + 4 * n
         /\ frames(data)[1] = Null
         /\ \A j \in 1..n : /\ frames(data)[1 + 4 * j] = Word("code", "cb")
                            /\ frames(data)[4 * j] = Word("ptr", Len(info) + j)
                            /\ frames(data)[4 * j - 1] = InfoSize
                            /\ frames(data)[4 * j - 2] = data
<1> DEFINE F(k) == Frame(Len(info) + ((k + 3) \div 4), data)[((k - 1) % 4) + 1]
           body == [k \in 1..4 * n |-> F(k)]
<1>1. frames(data) = <<Null>> \o body
  BY Zenon DEF frames
<1>2. Len(info) \in Nat
  BY DEF WalkTypes
<1>3. \A k \in 1..4 * n : Len(info) + ((k + 3) \div 4) \in Int /\ ((k - 1) % 4) + 1 \in 1..4
  BY <1>2
<1>4. \A k \in 1..4 * n : F(k) \in Words
  BY Zenon, <1>3, FrameWords
<1> HIDE DEF F
<1>5. body \in [1..4 * n -> Words] /\ \A k \in 1..4 * n : body[k] = F(k)
  BY Zenon, <1>4
<1> HIDE DEF body
<1>6. 4 * n \in Nat
  OBVIOUS
<1>7. body \in Seq(Words) /\ 4 * n = Len(body)
  BY <1>5, <1>6
<1>8. Null \in Words
  BY DEF Null, Word, Words
<1>9. /\ frames(data) \in Seq(Words) /\ Len(frames(data)) = 1 + 4 * n
      /\ frames(data)[1] = Null
      /\ \A k \in 1..4 * n : frames(data)[1 + k] = body[k]
  <2>1. /\ <<Null>> \o body \in Seq(Words) /\ Len(<<Null>> \o body) = 1 + Len(body)
        /\ (<<Null>> \o body)[1] = Null
        /\ \A k \in 1..Len(body) : (<<Null>> \o body)[1 + k] = body[k]
    BY <1>7, <1>8, Prepended
  <2> QED BY Zenon, <1>1, <1>7, <2>1
<1>10. ASSUME NEW j \in 1..n, NEW q \in 1..4
      PROVE  frames(data)[4 * j - 3 + q] = Frame(Len(info) + j, data)[q]
  <2> DEFINE k == 4 * j - 4 + q
  <2>1. k \in 1..4 * n /\ 1 + k = 4 * j - 3 + q /\ (k + 3) \div 4 = j /\ ((k - 1) % 4) + 1 = q
    OBVIOUS
  <2> HIDE DEF k
  <2>2. frames(data)[1 + k] = F(k)
    BY Zenon, <1>5, <1>9, <2>1
  <2> QED BY Zenon, <2>1, <2>2 DEF F
<1>11. ASSUME NEW j \in 1..n
      PROVE  /\ frames(data)[1 + 4 * j] = Word("code", "cb")
             /\ frames(data)[4 * j] = Word("ptr", Len(info) + j)
             /\ frames(data)[4 * j - 1] = InfoSize
             /\ frames(data)[4 * j - 2] = data
  <2>1. /\ 4 * j - 3 + 4 = 1 + 4 * j /\ 4 * j - 3 + 3 = 4 * j /\ 4 * j - 3 + 2 = 4 * j - 1
       /\ 4 * j - 3 + 1 = 4 * j - 2 /\ 1 \in 1..4 /\ 2 \in 1..4 /\ 3 \in 1..4 /\ 4 \in 1..4
       /\ Len(info) + j \in Int
    BY <1>2
  <2>2. /\ frames(data)[4 * j - 3 + 4] = Frame(Len(info) + j, data)[4]
       /\ frames(data)[4 * j - 3 + 3] = Frame(Len(info) + j, data)[3]
       /\ frames(data)[4 * j - 3 + 2] = Frame(Len(info) + j, data)[2]
       /\ frames(data)[4 * j - 3 + 1] = Frame(Len(info) + j, data)[1]
    BY Zenon, <1>10, <2>1
  <2>3. /\ Frame(Len(info) + j, data)[1] = data /\ Frame(Len(info) + j, data)[2] = InfoSize
       /\ Frame(Len(info) + j, data)[3] = Word("ptr", Len(info) + j)
       /\ Frame(Len(info) + j, data)[4] = Word("code", "cb")
    BY Zenon, <2>1, FrameWords
  <2> QED BY Zenon, <2>1, <2>2, <2>3
<1> QED BY Zenon, <1>9, <1>11

\* The fields of a walk.
LEMMA WalkFields ==
  ASSUME NEW w \in WalkSet
  PROVE  /\ w.stack \in Seq(Words) /\ w.lr \in Words /\ w.data \in Words /\ w.list \in Seq(LibNames)
         /\ w.visited \in Seq(LibNames \X Words \X Words) /\ w.answers \in Seq(Int)
         /\ Len(w.stack) \in Nat /\ Len(w.list) \in Nat /\ Len(w.visited) \in Nat /\ Len(w.answers) \in Nat
<1>1. /\ w.stack \in Seq(Words) /\ w.lr \in Words /\ w.data \in Words /\ w.list \in Seq(LibNames)
      /\ w.visited \in Seq(LibNames \X Words \X Words) /\ w.answers \in Seq(Int)
  BY Zenon DEF WalkSet
<1> QED BY <1>1

\* Blocks are allocated and never freed.
Grown(blocks, more) == \A b \in DOMAIN blocks : b \in DOMAIN more /\ more[b] = blocks[b]

\* Two records of one walk, which differ in what has been visited and answered.
SameWalk(w, v) == v.stack = w.stack /\ v.lr = w.lr /\ v.data = w.data /\ v.list = w.list

\* The frames below a height stay what they are while what lies above changes.
LEMMA FramesKept ==
  ASSUME NEW st, NEW w \in WalkSet, NEW m \in Nat, NEW blocks, Frames(st, w, m, blocks),
         NEW st2, NEW v, SameWalk(w, v), NEW k \in 0..m, NEW more, Grown(blocks, more),
         \A i \in 1..Height(w, k) : st2[i] = st[i]
  PROVE  Frames(st2, v, k, more)
<1> DEFINE L == Len(w.stack)
<1>1. L \in Nat /\ Len(w.list) \in Nat
  BY Zenon, WalkFields
<1>2. Len(v.stack) = L /\ \A j : Height(v, j) = Height(w, j)
  BY Zenon DEF SameWalk, Height
<1>3. \A j : Height(w, j) = L + 3 + 4 * j
  BY Zenon DEF Height
<1> HIDE DEF L
<1>4. \A i \in 1..L : i \in 1..Height(w, k)
  BY SMTT(30), <1>1, <1>3
<1>5. L + 1 \in 1..Height(w, k) /\ Height(w, 0) \in 1..Height(w, k)
  BY SMTT(30), <1>1, <1>3
<1>6. ASSUME NEW j \in 1..k
      PROVE  /\ j \in 1..m
             /\ Height(w, j) \in 1..Height(w, k) /\ Height(w, j) - 1 \in 1..Height(w, k)
             /\ Height(w, j) - 2 \in 1..Height(w, k) /\ Height(w, j) - 3 \in 1..Height(w, k)
  <2>1. Height(w, j) = L + 3 + 4 * j /\ Height(w, k) = L + 3 + 4 * k
    BY Zenon, <1>3
  <2>2. j \in Nat /\ j >= 1 /\ j <= k /\ k \in Nat /\ k <= m
    OBVIOUS
  <2> QED BY <1>1, <2>1, <2>2
<1>7. Saved(st2, v)
  BY Zenon, <1>2, <1>4, <1>5 DEF Frames, Saved, SameWalk, L
<1>8. st2[Height(v, 0)] = Null
  BY Zenon, <1>2, <1>5 DEF Frames
<1>9. ASSUME NEW j \in 1..k PROVE FrameAt(st2, v, j, more)
  <2> DEFINE h == Height(w, j)
  <2>1. FrameAt(st, w, j, blocks)
    BY Zenon, <1>6 DEF Frames
  <2>2. st2[h] = st[h] /\ st2[h - 1] = st[h - 1] /\ st2[h - 2] = st[h - 2] /\ st2[h - 3] = st[h - 3]
    BY Zenon, <1>6
  <2>3. h = Height(v, j)
    BY Zenon, <1>2
  <2> HIDE DEF h
  <2>4. /\ st[h] = Word("code", "cb") /\ st[h - 2] = InfoSize /\ st[h - 3] = w.data
        /\ \E b \in DOMAIN blocks : st[h - 1] = Word("ptr", b) /\ blocks[b] = w.list[Len(w.list) + 1 - j]
    BY Zenon, <2>1 DEF FrameAt, h
  <2> QED BY Zenon, <2>2, <2>3, <2>4 DEF FrameAt, SameWalk, Grown
<1> QED BY Zenon, <1>7, <1>8, <1>9 DEF Frames

\* So does the stack of a callback.
LEMMA InCallKept ==
  ASSUME NEW st, NEW w \in WalkSet, NEW blocks, NEW more, Grown(blocks, more), InCall(st, w, blocks),
         WalkOK(w)
  PROVE  InCall(st, w, more)
<1>1. Left(w) \in Nat /\ Left(w) \in 0..Left(w)
  BY WalkFields DEF WalkOK, Left
<1>2. Frames(st, w, Left(w), more)
  BY Zenon, <1>1, FramesKept DEF InCall, SameWalk
<1> QED BY Zenon, <1>2 DEF InCall

\* Popping n words.
LEMMA PopFacts ==
  ASSUME stack \in Seq(Words), NEW n \in Nat, n <= Len(stack)
  PROVE  /\ Pop(n) \in Seq(Words) /\ Len(Pop(n)) = Len(stack) - n
         /\ \A i \in 1..Len(stack) - n : Pop(n)[i] = stack[i]
<1>1. Len(stack) \in Nat /\ Len(stack) - n \in Nat
  OBVIOUS
<1>2. \A i \in 1..Len(stack) - n : i \in 1..Len(stack)
  BY <1>1
<1> QED BY <1>1, <1>2 DEF Pop

\* The innermost walk visits a module or gets an answer.
LEMMA LastReplaced ==
  ASSUME NEW ws \in Seq(WalkSet), ws # <<>>, NEW blocks, Outer(ws, blocks),
         NEW v \in WalkSet, SameWalk(ws[Len(ws)], v), WalkOK(v),
         NEW ws2, ws2 = [ws EXCEPT ![Len(ws)] = v]
  PROVE  /\ ws2 \in Seq(WalkSet) /\ ws2 # <<>> /\ Len(ws2) = Len(ws) /\ ws2[Len(ws2)] = v
         /\ Outer(ws2, blocks)
<1> DEFINE n == Len(ws)
<1>1. n \in Nat /\ n \in 1..n /\ DOMAIN ws = 1..n
  OBVIOUS
<1>2. ws2 \in Seq(WalkSet) /\ ws2 # <<>> /\ Len(ws2) = n
  BY <1>1
<1>3. ws2[n] = v /\ \A i \in 1..n : i # n => ws2[i] = ws[i]
  BY Zenon, <1>1
<1>4. ASSUME NEW i \in 1..n
      PROVE  /\ WalkOK(ws2[i])
             /\ i < n => Calling(ws2[i]) /\ InCall(ws2[i + 1].stack, ws2[i], blocks)
             /\ i = 1 => ws2[i].stack = <<>>
  <2>1. /\ WalkOK(ws[i]) /\ (i < n => Calling(ws[i]) /\ InCall(ws[i + 1].stack, ws[i], blocks))
        /\ i = 1 => ws[i].stack = <<>>
    BY Zenon DEF Outer
  <2>2. CASE i = n
    <3>1. ~ (i < n)
      BY <1>1, <2>2
    <3> QED BY Zenon, <1>3, <2>1, <2>2, <3>1 DEF SameWalk
  <2>3. CASE i # n
    <3>0. \A a \in Nat : \A b \in 1..a : b # a => b + 1 \in 1..a
      OBVIOUS
    <3>1. i + 1 \in 1..n
      BY Zenon, <1>1, <2>3, <3>0
    <3>2. ws2[i + 1].stack = ws[i + 1].stack
      BY Zenon, <1>3, <3>1 DEF SameWalk
    <3> QED BY Zenon, <1>3, <2>1, <2>3, <3>2
  <2> QED BY Zenon, <2>2, <2>3
<1>5. Outer(ws2, blocks)
  BY Zenon, <1>2, <1>4 DEF Outer
<1> QED BY Zenon, <1>2, <1>3, <1>5

\* New blocks do not disturb the walks.
LEMMA OuterGrown ==
  ASSUME NEW ws \in Seq(WalkSet), NEW blocks, Outer(ws, blocks), NEW more, Grown(blocks, more)
  PROVE  Outer(ws, more)
<1>1. ASSUME NEW i \in 1..Len(ws) PROVE ws[i] \in WalkSet
  BY Zenon, <1>1, Element
<1> QED BY Zenon, <1>1, InCallKept DEF Outer

\* A walk begins inside a callback of the innermost one.
LEMMA WalkPushed ==
  ASSUME NEW ws \in Seq(WalkSet), NEW blocks, Outer(ws, blocks), NEW st, GuestShape(st, ws, blocks),
         ws # <<>> => Calling(ws[Len(ws)]),
         NEW v \in WalkSet, WalkOK(v), v.stack = st,
         NEW ws2, ws2 = Append(ws, v)
  PROVE  /\ ws2 \in Seq(WalkSet) /\ ws2 # <<>> /\ ws2[Len(ws2)] = v
         /\ Outer(ws2, blocks)
<1> DEFINE n == Len(ws)
<1>1. n \in Nat /\ (ws = <<>> <=> n = 0)
  OBVIOUS
<1>2. /\ ws2 \in Seq(WalkSet) /\ ws2 # <<>> /\ Len(ws2) = n + 1 /\ ws2[n + 1] = v
      /\ \A i \in 1..n : ws2[i] = ws[i]
  OBVIOUS
<1>3. ASSUME NEW i \in 1..n + 1
      PROVE  /\ WalkOK(ws2[i])
             /\ i < n + 1 => Calling(ws2[i]) /\ InCall(ws2[i + 1].stack, ws2[i], blocks)
             /\ i = 1 => ws2[i].stack = <<>>
  <2>1. CASE i = n + 1
    <3>1. ~ (i < n + 1) /\ (i = 1 => ws = <<>>)
      BY <1>1, <2>1
    <3>2. ws = <<>> => st = <<>>
      BY Zenon DEF GuestShape
    <3> QED BY Zenon, <1>2, <2>1, <3>1, <3>2
  <2>2. CASE i # n + 1
    <3>1. i \in 1..n /\ (i = n \/ (i < n /\ i + 1 \in 1..n)) /\ n # 0
      BY <1>1, <2>2
    <3>2. /\ WalkOK(ws[i]) /\ (i < n => Calling(ws[i]) /\ InCall(ws[i + 1].stack, ws[i], blocks))
          /\ i = 1 => ws[i].stack = <<>>
      BY Zenon, <3>1 DEF Outer
    <3>3. CASE i = n
      <4>1. ws # <<>>
        BY Zenon, <1>1, <3>1
      <4>2. Calling(ws[i]) /\ InCall(st, ws[i], blocks)
        BY Zenon, <3>3, <4>1 DEF GuestShape
      <4> QED BY Zenon, <1>2, <3>1, <3>2, <3>3, <4>2
    <3>4. CASE i < n /\ i + 1 \in 1..n
      BY Zenon, <1>2, <3>1, <3>2, <3>4
    <3> QED BY Zenon, <3>1, <3>3, <3>4
  <2> QED BY Zenon, <2>1, <2>2
<1>4. Outer(ws2, blocks)
  BY Zenon, <1>2, <1>3 DEF Outer
<1> QED BY Zenon, <1>2, <1>4

\* The innermost walk ends: the one around it is in its callback again.
LEMMA WalkPopped ==
  ASSUME NEW ws \in Seq(WalkSet), ws # <<>>, NEW blocks, Outer(ws, blocks),
         NEW ws2, ws2 = SubSeq(ws, 1, Len(ws) - 1)
  PROVE  /\ ws2 \in Seq(WalkSet) /\ Outer(ws2, blocks)
         /\ GuestShape(ws[Len(ws)].stack, ws2, blocks)
         /\ ws2 # <<>> => Calling(ws2[Len(ws2)])
<1> DEFINE n == Len(ws)
<1>1. n \in Nat /\ n \in 1..n /\ n - 1 \in Nat
  OBVIOUS
<1>2. ws2 \in Seq(WalkSet) /\ Len(ws2) = n - 1 /\ (ws2 = <<>> <=> n = 1)
  <2>1. n - 1 <= n /\ (n - 1 = 0 <=> n = 1)
    BY <1>1
  <2> QED BY Zenon, <1>1, <2>1, FrontFacts
<1>3. \A i \in 1..n - 1 : ws2[i] = ws[i] /\ i \in 1..n /\ i < n
  <2>1. \A a \in Nat : \A b \in 1..a - 1 : b \in 1..a /\ b < a
    OBVIOUS
  <2>2. \A i \in 1..n - 1 : ws2[i] = ws[i]
    OBVIOUS
  <2> QED BY Zenon, <1>1, <2>1, <2>2
<1>4. ASSUME NEW i \in 1..n - 1
      PROVE  /\ WalkOK(ws2[i])
             /\ Calling(ws2[i]) /\ InCall(ws[i + 1].stack, ws2[i], blocks)
             /\ i = 1 => ws2[i].stack = <<>>
  BY Zenon, <1>3 DEF Outer
<1>5. Outer(ws2, blocks)
  <2>1. \A i \in 1..n - 1 : i < n - 1 => i + 1 \in 1..n - 1
    BY <1>1
  <2>2. \A i \in 1..n - 1 : i < n - 1 => ws2[i + 1] = ws[i + 1]
    BY Zenon, <1>3, <2>1
  <2> QED BY Zenon, <1>2, <1>4, <2>2 DEF Outer
<1>6. CASE ws2 = <<>>
  BY Zenon, <1>1, <1>2, <1>5, <1>6 DEF GuestShape, Outer
<1>7. CASE ws2 # <<>>
  <2>1. n - 1 \in 1..n - 1 /\ (n - 1) + 1 = n
    BY <1>1, <1>2, <1>7
  <2> QED BY Zenon, <1>2, <1>4, <1>5, <1>7, <2>1 DEF GuestShape
<1> QED BY Zenon, <1>6, <1>7

\* The innermost walk.
LEMMA Current ==
  ASSUME WalkInv, walks # <<>>, NEW w, w = walks[Len(walks)]
  PROVE  /\ w \in WalkSet /\ WalkOK(w) /\ Inner(w) /\ Left(w) \in Nat /\ Len(w.stack) \in Nat
         /\ \A j \in Nat : Height(w, j) = Len(w.stack) + 3 + 4 * j /\ Height(w, j) \in Nat
<1>1. walks \in Seq(WalkSet) /\ Outer(walks, info) /\ Shape
  BY Zenon DEF WalkInv, WalkTypes
<1>2. Len(walks) \in 1..Len(walks)
  BY <1>1
<1>3. w \in WalkSet /\ WalkOK(w) /\ Inner(w)
  BY Zenon, <1>1, <1>2, Element DEF Outer, Shape
<1>4. /\ Len(w.stack) \in Nat /\ Len(w.list) \in Nat /\ Len(w.visited) \in Nat
      /\ Len(w.visited) <= Len(w.list)
  BY Zenon, <1>3, WalkFields DEF WalkOK
<1>5. Left(w) \in Nat
  BY <1>4 DEF Left
<1>6. \A a, b \in Nat : a + 3 + 4 * b \in Nat
  OBVIOUS
<1>7. \A j \in Nat : Height(w, j) = Len(w.stack) + 3 + 4 * j /\ Height(w, j) \in Nat
  BY Zenon, <1>4, <1>6 DEF Height
<1> QED BY Zenon, <1>3, <1>4, <1>5, <1>7

\* The top of the stack is the terminator or a frame.
LEMMA TopFacts ==
  ASSUME NEW w, NEW m \in Nat, Len(stack) = Height(w, m), Frames(stack, w, m, info)
  PROVE  /\ m = 0 => Top = Null
         /\ m # 0 => /\ Top # Null /\ Top = Word("code", "cb")
                     /\ Nth(2) = InfoSize /\ Nth(3) = w.data
                     /\ \E b \in DOMAIN info : /\ Nth(1) = Word("ptr", b)
                                               /\ info[b] = w.list[Len(w.list) + 1 - m]
<1>1. m = 0 => Top = Null
  BY Zenon DEF Top, Frames
<1>2. ASSUME m # 0
      PROVE  /\ Top = Word("code", "cb") /\ Nth(2) = InfoSize /\ Nth(3) = w.data
             /\ \E b \in DOMAIN info : /\ Nth(1) = Word("ptr", b)
                                       /\ info[b] = w.list[Len(w.list) + 1 - m]
  <2>1. m \in 1..m
    BY <1>2
  <2>2. FrameAt(stack, w, m, info)
    BY Zenon, <2>1 DEF Frames
  <2> QED BY Zenon, <2>2 DEF FrameAt, Top, Nth
<1>3. Word("code", "cb") # Null
  BY DEF Word, Null
<1> QED BY Zenon, <1>1, <1>2, <1>3

\* Popping the terminator leaves the saved registers.
LEMMA TerminatorPopped ==
  ASSUME stack \in Seq(Words), NEW w \in WalkSet, NEW blocks,
         Len(stack) = Height(w, 0), Frames(stack, w, 0, blocks)
  PROVE  Pop(1) \in Seq(Words) /\ Len(Pop(1)) = Len(w.stack) + 2 /\ Saved(Pop(1), w)
<1> DEFINE L == Len(w.stack)
<1>1. L \in Nat
  BY Zenon, WalkFields
<1>2. Len(stack) = L + 3 + 4 * 0
  BY Zenon DEF Height
<1> HIDE DEF L
<1>3. Len(stack) - 1 = L + 2 /\ 1 <= Len(stack) /\ 1 \in Nat
  BY <1>1, <1>2
<1>4. Pop(1) \in Seq(Words) /\ Len(Pop(1)) = L + 2 /\ \A i \in 1..L + 2 : Pop(1)[i] = stack[i]
  BY Zenon, <1>3, PopFacts
<1>5. L + 1 \in 1..L + 2 /\ \A i \in 1..L : i \in 1..L + 2
  BY <1>1
<1> QED BY Zenon, <1>4, <1>5 DEF Frames, Saved, L

\* Popping a frame leaves the ones below it.
LEMMA FramePopped ==
  ASSUME stack \in Seq(Words), NEW w \in WalkSet, NEW blocks, NEW m \in Nat, m # 0,
         Len(stack) = Height(w, m), Frames(stack, w, m, blocks), NEW v, SameWalk(w, v)
  PROVE  /\ m - 1 \in Nat /\ m - 1 \in 0..m
         /\ Pop(4) \in Seq(Words) /\ Len(Pop(4)) = Height(v, m - 1) /\ Frames(Pop(4), v, m - 1, blocks)
<1> DEFINE L == Len(w.stack)
<1>1. L \in Nat
  BY Zenon, WalkFields
<1>2. Len(stack) = L + 3 + 4 * m /\ Height(w, m - 1) = L + 3 + 4 * (m - 1)
  BY Zenon DEF Height
<1> HIDE DEF L
<1>3. /\ m - 1 \in Nat /\ m - 1 \in 0..m /\ L + 3 + 4 * (m - 1) = (L + 3 + 4 * m) - 4
      /\ 4 <= L + 3 + 4 * m /\ 4 \in Nat
  BY <1>1
<1>4. /\ Pop(4) \in Seq(Words) /\ Len(Pop(4)) = Height(w, m - 1)
      /\ \A i \in 1..Height(w, m - 1) : Pop(4)[i] = stack[i]
  BY Zenon, <1>2, <1>3, PopFacts
<1>5. Grown(blocks, blocks)
  BY Zenon DEF Grown
<1>6. Frames(Pop(4), v, m - 1, blocks)
  BY Zenon, <1>3, <1>4, <1>5, FramesKept
<1> QED BY Zenon, <1>3, <1>4, <1>6 DEF SameWalk, Height

\* Zero and the callback's answer.
LEMMA AnswerWords ==
  /\ Null \in Words /\ Word("int", 0) = Null /\ Stub \in Words
  /\ \A v \in Int : Word("int", v) \in Words /\ (Word("int", v) = Null <=> v = 0)
BY DEF Null, Word, Words, Stub

\* The stub's loop finds the terminator: every module was visited.
LEMMA LoopTerminates ==
  ASSUME WalkInv, loop, Top = Null
  PROVE  WalkInv'
<1>1. /\ pc = "loop" /\ pc' = "post" /\ stack' = Pop(1) /\ regs' = [regs EXCEPT !.x13 = Null]
      /\ walks' = walks /\ modules' = modules /\ info' = info /\ returned' = returned /\ calls' = calls
  BY Zenon DEF loop
<1>2. WalkTypes /\ Outer(walks, info) /\ Returns /\ walks # <<>>
  BY Zenon, <1>1 DEF WalkInv, Shape
<1> DEFINE w == walks[Len(walks)]
<1>3. /\ w \in WalkSet /\ WalkOK(w) /\ Inner(w) /\ Left(w) \in Nat /\ Len(w.stack) \in Nat
      /\ \A j \in Nat : Height(w, j) = Len(w.stack) + 3 + 4 * j /\ Height(w, j) \in Nat
  BY Zenon, <1>2, Current
<1>4. Between(w, regs.x0) /\ Len(stack) = Height(w, Left(w)) /\ Frames(stack, w, Left(w), info)
  BY Zenon, <1>1, <1>3 DEF Inner
<1>5. Left(w) = 0
  BY Zenon, <1>3, <1>4, TopFacts
<1>7. stack' \in Seq(Words) /\ Len(stack') = Len(w.stack) + 2 /\ Saved(stack', w)
  BY Zenon, <1>1, <1>2, <1>3, <1>4, <1>5, TerminatorPopped DEF WalkTypes
<1>9. regs'.x0 = regs.x0 /\ regs' \in [x0 : Words, x1 : Words, x2 : Words, x13 : Words, x30 : Words]
  BY Zenon, <1>1, <1>2, AnswerWords DEF WalkTypes
<1>10. Told(w, regs'.x0) /\ Len(w.answers) = Len(w.list)
  <2>1. /\ Len(w.visited) = Len(w.answers) /\ Zeros(w, Len(w.answers))
        /\ (Len(w.answers) >= 1 => regs.x0 = Null) /\ Len(w.list) - Len(w.visited) = 0
        /\ Len(w.list) >= 1 /\ Len(w.list) \in Nat /\ Len(w.visited) \in Nat
    BY Zenon, <1>3, <1>4, <1>5, WalkFields DEF Between, WalkOK, Left
  <2> DEFINE a == Len(w.answers)
             l == Len(w.list)
             u == Len(w.visited)
  <2> HIDE DEF w, a, l, u
  <2>2. u = a /\ l - u = 0 /\ l >= 1 /\ l \in Nat /\ u \in Nat
    BY Zenon, <2>1 DEF a, l, u
  <2>3. a = l /\ a >= 1 /\ a \in 1..a /\ \A i \in 1..a - 1 : i \in 1..a
    BY <2>2
  <2>4. w.answers[a] = 0 /\ Zeros(w, a - 1)
    BY Zenon, <2>1, <2>3 DEF Zeros, a
  <2> QED BY Zenon, <1>9, <2>1, <2>3, <2>4, AnswerWords DEF Told, a, l
<1>11. WalkTypes'
  BY Zenon, <1>1, <1>2, <1>7, <1>9 DEF WalkTypes
<1>12. Shape'
  BY Zenon, <1>1, <1>2, <1>7, <1>10 DEF Shape, Inner
<1>13. Returns'
  BY Zenon, <1>1, <1>2 DEF Returns
<1> QED BY Zenon, <1>1, <1>2, <1>11, <1>12, <1>13 DEF WalkInv

\* One more visit, and one more answer, in the record of a walk.
LEMMA VisitAdded ==
  ASSUME NEW w \in WalkSet, NEW t \in LibNames \X Words \X Words,
         NEW v, v = [w EXCEPT !.visited = Append(w.visited, t)]
  PROVE  v \in WalkSet /\ SameWalk(w, v) /\ v.visited = Append(w.visited, t) /\ v.answers = w.answers
<1>1. Append(w.visited, t) \in Seq(LibNames \X Words \X Words)
  BY WalkFields, AppendFacts
<1>2. v \in WalkSet
  BY Zenon, <1>1 DEF WalkSet
<1> QED BY Zenon, <1>2 DEF WalkSet, SameWalk

\* The callback's answer becomes part of the innermost walk.
LEMMA AnswerAdded ==
  ASSUME NEW w \in WalkSet, NEW a \in Int,
         NEW v, v = [w EXCEPT !.answers = Append(w.answers, a)]
  PROVE  v \in WalkSet /\ SameWalk(w, v) /\ v.answers = Append(w.answers, a) /\ v.visited = w.visited
<1>1. Append(w.answers, a) \in Seq(Int)
  BY WalkFields, AppendFacts
<1>2. v \in WalkSet
  BY Zenon, <1>1 DEF WalkSet
<1> QED BY Zenon, <1>2 DEF WalkSet, SameWalk

\* The visit is the next of the list.
LEMMA VisitOK ==
  ASSUME NEW w \in WalkSet, WalkOK(w), Len(w.visited) = Len(w.answers), Zeros(w, Len(w.answers)),
         Left(w) # 0, NEW t, t = <<w.list[Len(w.visited) + 1], InfoSize, w.data>>,
         t \in LibNames \X Words \X Words,
         NEW v \in WalkSet, SameWalk(w, v), v.visited = Append(w.visited, t), v.answers = w.answers
  PROVE  WalkOK(v) /\ Calling(v) /\ Left(v) = Left(w) - 1
<1> DEFINE u == Len(w.visited)
<1>1. /\ Len(w.list) \in Nat /\ u \in Nat /\ u <= Len(w.list) /\ Len(w.list) - u # 0
      /\ Len(w.list) >= 1 /\ v.list = w.list /\ v.data = w.data
      /\ \A i \in 1..u : w.visited[i] = <<w.list[i], InfoSize, w.data>>
  BY Zenon, WalkFields DEF WalkOK, Left, SameWalk
<1>2. /\ Len(v.visited) = u + 1 /\ v.visited[u + 1] = t
      /\ \A k \in 1..u : v.visited[k] = w.visited[k]
      /\ \A k \in 1..u + 1 : k \in 1..u \/ k = u + 1
  <2>1. /\ Len(Append(w.visited, t)) = u + 1 /\ Append(w.visited, t)[u + 1] = t
        /\ \A k \in 1..u : Append(w.visited, t)[k] = w.visited[k]
        /\ \A k \in 1..u + 1 : k \in 1..u \/ k = u + 1
    BY SMTT(30), WalkFields, AppendFacts
  <2> QED BY Zenon, <2>1
<1>3. u = Len(w.answers) /\ Zeros(w, Len(w.answers))
  BY Zenon
<1> HIDE DEF u
<1>4. u + 1 <= Len(w.list) /\ Len(w.list) - (u + 1) = (Len(w.list) - u) - 1
  BY <1>1
<1>5. Left(v) = Left(w) - 1
  BY Zenon, <1>1, <1>2, <1>4 DEF Left, u
<1>6. WalkOK(v)
  <2>1. \A i \in 1..u + 1 : v.visited[i] = <<v.list[i], InfoSize, v.data>>
    BY Zenon, <1>1, <1>2 DEF u
  <2> QED BY Zenon, <1>1, <1>2, <1>4, <2>1 DEF WalkOK
<1>7. Calling(v)
  BY Zenon, <1>2, <1>3 DEF Calling, Zeros
<1> QED BY Zenon, <1>5, <1>6, <1>7

\* The stub's loop finds a frame and calls back.
LEMMA LoopVisits ==
  ASSUME WalkInv, loop, Top # Null
  PROVE  WalkInv'
<1> DEFINE w == walks[Len(walks)]
           m == Left(w)
           t == <<info[Nth(1)[2]], Nth(2), Nth(3)>>
           v == [w EXCEPT !.visited = Append(w.visited, t)]
<1>1. /\ pc = "loop" /\ pc' = "callback" /\ stack' = Pop(4)
      /\ regs' = [x13 |-> Top, x0 |-> Nth(1), x1 |-> Nth(2), x2 |-> Nth(3), x30 |-> Stub]
      /\ walks' = [walks EXCEPT ![Len(walks)] = v]
      /\ modules' = modules /\ info' = info /\ returned' = returned /\ calls' = calls
  BY Zenon DEF loop, Stub
<1>2. /\ WalkTypes /\ Outer(walks, info) /\ Returns /\ walks # <<>>
      /\ walks \in Seq(WalkSet) /\ stack \in Seq(Words) /\ info \in Seq(LibNames)
  BY Zenon, <1>1 DEF WalkInv, Shape, WalkTypes
<1>3. /\ w \in WalkSet /\ WalkOK(w) /\ Inner(w) /\ m \in Nat /\ Len(w.stack) \in Nat
      /\ \A j \in Nat : Height(w, j) = Len(w.stack) + 3 + 4 * j /\ Height(w, j) \in Nat
  BY Zenon, <1>2, Current
<1>4. Between(w, regs.x0) /\ Len(stack) = Height(w, m) /\ Frames(stack, w, m, info)
  BY Zenon, <1>1, <1>3 DEF Inner
<1>5. /\ m # 0 /\ Nth(2) = InfoSize /\ Nth(3) = w.data
      /\ \E b \in DOMAIN info : Nth(1) = Word("ptr", b) /\ info[b] = w.list[Len(w.list) + 1 - m]
  BY Zenon, <1>3, <1>4, TopFacts
<1>6. PICK b \in DOMAIN info : Nth(1) = Word("ptr", b) /\ info[b] = w.list[Len(w.list) + 1 - m]
  BY Zenon, <1>5
<1>7. Len(w.list) + 1 - m = Len(w.visited) + 1
  <2>1. Len(w.list) \in Nat /\ Len(w.visited) \in Nat /\ m = Len(w.list) - Len(w.visited)
    BY Zenon, <1>3, WalkFields DEF Left
  <2> QED BY <2>1
<1>8. t = <<w.list[Len(w.visited) + 1], InfoSize, w.data>>
  <2>1. Nth(1)[2] = b
    BY <1>6 DEF Word
  <2> QED BY Zenon, <1>5, <1>6, <1>7, <2>1
<1>9. \A q \in 0..3 : Nth(q) \in Words
  <2>1. Len(stack) = Len(w.stack) + 3 + 4 * m
    BY Zenon, <1>3, <1>4
  <2>2. \A a, c \in Nat : c # 0 => \A q \in 0..3 : (a + 3 + 4 * c) - q \in 1..(a + 3 + 4 * c)
    OBVIOUS
  <2>3. \A q \in 0..3 : Len(stack) - q \in 1..Len(stack)
    BY Zenon, <1>3, <1>5, <2>1, <2>2
  <2> QED BY Zenon, <1>2, <2>3, Element DEF Nth
<1>10. /\ Nth(0) \in Words /\ Nth(1) \in Words /\ Nth(2) \in Words /\ Nth(3) \in Words /\ Top \in Words
       /\ info[b] \in LibNames
  <2>1. 0 \in 0..3 /\ 1 \in 0..3 /\ 2 \in 0..3 /\ 3 \in 0..3 /\ Len(stack) - 0 = Len(stack)
        /\ b \in 1..Len(info)
    BY <1>2
  <2> QED BY Zenon, <1>2, <1>9, <2>1, Element DEF Nth, Top
<1>11. t \in LibNames \X Words \X Words
  <2>1. Nth(1)[2] = b
    BY <1>6 DEF Word
  <2> QED BY Zenon, <1>10, <2>1
<1>12. v \in WalkSet /\ SameWalk(w, v) /\ v.visited = Append(w.visited, t) /\ v.answers = w.answers
  BY Zenon, <1>3, <1>11, VisitAdded
<1> HIDE DEF t
<1>13. WalkOK(v) /\ Calling(v) /\ Left(v) = m - 1
  <2>1. Len(w.visited) = Len(w.answers) /\ Zeros(w, Len(w.answers))
    BY Zenon, <1>4 DEF Between
  <2> HIDE DEF v, w
  <2> QED BY Zenon, <1>3, <1>5, <1>8, <1>11, <1>12, <2>1, VisitOK
<1>14. /\ walks' \in Seq(WalkSet) /\ walks' # <<>> /\ walks'[Len(walks')] = v /\ Outer(walks', info)
  <2> DEFINE ws2 == [walks EXCEPT ![Len(walks)] = v]
  <2> HIDE DEF v
  <2>1. /\ ws2 \in Seq(WalkSet) /\ ws2 # <<>> /\ ws2[Len(ws2)] = v /\ Outer(ws2, info)
    BY SMTT(30), <1>2, <1>12, <1>13, LastReplaced
  <2> QED BY Zenon, <1>1, <2>1
<1>15. /\ stack' \in Seq(Words) /\ Len(stack') = Height(v, m - 1) /\ Frames(stack', v, m - 1, info)
  <2> HIDE DEF v, w, m
  <2> QED BY ZenonT(30), <1>1, <1>2, <1>3, <1>4, <1>5, <1>12, FramePopped
<1> HIDE DEF v, m, w
<1>16. regs' \in [x0 : Words, x1 : Words, x2 : Words, x13 : Words, x30 : Words] /\ regs'.x30 = Stub
  BY <1>1, <1>10, AnswerWords
<1>17. WalkTypes'
  BY Zenon, <1>1, <1>2, <1>14, <1>15, <1>16 DEF WalkTypes
<1>18. Shape'
  BY Zenon, <1>1, <1>13, <1>14, <1>15, <1>16 DEF Shape, Inner
<1>19. Returns'
  BY Zenon, <1>1, <1>2 DEF Returns
<1> QED BY Zenon, <1>1, <1>14, <1>17, <1>18, <1>19 DEF WalkInv

\* The callback pushes its return address.
LEMMA CallbackEnteredStep ==
  ASSUME WalkInv, CallbackEntered
  PROVE  WalkInv'
<1> DEFINE w == walks[Len(walks)]
           m == Left(w)
<1>1. /\ pc = "callback" /\ pc' = "guest" /\ regs.x30 = Stub /\ stack' = Append(stack, Stub)
      /\ regs' = [regs EXCEPT !.x30 = Word("guest", Len(walks))]
      /\ walks' = walks /\ modules' = modules /\ info' = info /\ returned' = returned /\ calls' = calls
  BY Zenon DEF CallbackEntered, WalkInv, Shape
<1>2. /\ WalkTypes /\ Outer(walks, info) /\ Returns /\ walks # <<>> /\ stack \in Seq(Words)
      /\ walks \in Seq(WalkSet)
  BY Zenon, <1>1 DEF WalkInv, Shape, WalkTypes
<1>3. /\ w \in WalkSet /\ WalkOK(w) /\ Inner(w) /\ m \in Nat /\ Len(w.stack) \in Nat
      /\ \A j \in Nat : Height(w, j) = Len(w.stack) + 3 + 4 * j /\ Height(w, j) \in Nat
  BY Zenon, <1>2, Current
<1>4. Calling(w) /\ Len(stack) = Height(w, m) /\ Frames(stack, w, m, info)
  BY Zenon, <1>1, <1>3 DEF Inner
<1>5. /\ stack' \in Seq(Words) /\ Len(stack') = Len(stack) + 1 /\ stack'[Len(stack) + 1] = Stub
      /\ \A i \in 1..Len(stack) : stack'[i] = stack[i]
  BY <1>1, <1>2, AnswerWords, AppendFacts
<1>6. InCall(stack', w, info)
  <2>1. Grown(info, info) /\ SameWalk(w, w)
    BY Zenon DEF Grown, SameWalk
  <2>2. m \in 0..m
    BY <1>3
  <2> HIDE DEF w, m
  <2>3. Frames(stack', w, m, info)
    BY Zenon, <1>3, <1>4, <1>5, <2>1, <2>2, FramesKept
  <2> QED BY Zenon, <1>4, <1>5, <2>3 DEF InCall, m
<1>7. regs' \in [x0 : Words, x1 : Words, x2 : Words, x13 : Words, x30 : Words]
  <2>1. Word("guest", Len(walks)) \in Words
    BY <1>2 DEF Word, Words
  <2> QED BY Zenon, <1>1, <1>2, <2>1 DEF WalkTypes
<1>8. WalkTypes'
  BY Zenon, <1>1, <1>2, <1>5, <1>7 DEF WalkTypes
<1>9. Shape'
  BY Zenon, <1>1, <1>2, <1>4, <1>6 DEF Shape, Inner, GuestShape
<1>10. Returns'
  BY Zenon, <1>1, <1>2 DEF Returns
<1> QED BY Zenon, <1>1, <1>2, <1>8, <1>9, <1>10 DEF WalkInv

\* The answer of the last visit.
LEMMA AnswerOK ==
  ASSUME NEW w \in WalkSet, WalkOK(w), Calling(w), NEW a \in Int,
         NEW v \in WalkSet, SameWalk(w, v), v.answers = Append(w.answers, a), v.visited = w.visited
  PROVE  WalkOK(v) /\ Told(v, Word("int", a)) /\ Left(v) = Left(w)
<1> DEFINE n == Len(w.answers)
<1>1. n \in Nat /\ Len(w.visited) = n + 1 /\ Zeros(w, n)
  BY Zenon, WalkFields DEF Calling
<1>2. /\ Len(v.answers) = n + 1 /\ v.answers[n + 1] = a
      /\ \A k \in 1..n : v.answers[k] = w.answers[k]
  <2>1. /\ Len(Append(w.answers, a)) = n + 1 /\ Append(w.answers, a)[n + 1] = a
        /\ \A k \in 1..n : Append(w.answers, a)[k] = w.answers[k]
    BY SMTT(30), WalkFields, AppendFacts
  <2> QED BY Zenon, <2>1
<1> HIDE DEF n
<1>3. n + 1 >= 1 /\ (n + 1) - 1 = n
  BY <1>1
<1>4. Zeros(v, n)
  BY Zenon, <1>1, <1>2 DEF Zeros
<1>5. Told(v, Word("int", a))
  BY Zenon, <1>1, <1>2, <1>3, <1>4 DEF Told
<1>6. WalkOK(v) /\ Left(v) = Left(w)
  BY Zenon DEF WalkOK, Left, SameWalk
<1> QED BY Zenon, <1>5, <1>6

\* The callback returns to the stub.
LEMMA CallbackReturnsStep ==
  ASSUME WalkInv, NEW a \in Results, CallbackReturns(a)
  PROVE  WalkInv'
<1> DEFINE w == walks[Len(walks)]
           m == Left(w)
           v == [w EXCEPT !.answers = Append(w.answers, a)]
<1>1. /\ pc = "guest" /\ pc' = "compare" /\ walks # <<>> /\ Top = Stub /\ stack' = Pop(1)
      /\ regs' = [regs EXCEPT !.x0 = Word("int", a), !.x30 = Stub]
      /\ walks' = [walks EXCEPT ![Len(walks)] = v] /\ returned' = NoWalk
      /\ modules' = modules /\ info' = info /\ calls' = calls
  BY Zenon DEF CallbackReturns, Stub
<1>2. /\ WalkTypes /\ Outer(walks, info) /\ stack \in Seq(Words)
      /\ walks \in Seq(WalkSet) /\ a \in Int
  BY WalkAssumption DEF WalkInv, WalkTypes
<1>3. /\ w \in WalkSet /\ WalkOK(w) /\ Inner(w) /\ m \in Nat /\ Len(w.stack) \in Nat
      /\ \A j \in Nat : Height(w, j) = Len(w.stack) + 3 + 4 * j /\ Height(w, j) \in Nat
  BY Zenon, <1>1, Current
<1>4. Calling(w) /\ Len(stack) = Height(w, m) + 1 /\ Frames(stack, w, m, info)
  BY Zenon, <1>1, <1>3 DEF Inner, WalkInv, Shape, GuestShape, InCall
<1>5. v \in WalkSet /\ SameWalk(w, v) /\ v.answers = Append(w.answers, a) /\ v.visited = w.visited
  BY Zenon, <1>2, <1>3, AnswerAdded
<1>6. WalkOK(v) /\ Told(v, Word("int", a)) /\ Left(v) = m
  <2> HIDE DEF v, w
  <2> QED BY Zenon, <1>2, <1>3, <1>4, <1>5, AnswerOK
<1>7. /\ walks' \in Seq(WalkSet) /\ walks' # <<>> /\ walks'[Len(walks')] = v /\ Outer(walks', info)
  <2> DEFINE ws2 == [walks EXCEPT ![Len(walks)] = v]
  <2> HIDE DEF v
  <2>1. /\ ws2 \in Seq(WalkSet) /\ ws2 # <<>> /\ ws2[Len(ws2)] = v /\ Outer(ws2, info)
    BY Zenon, <1>1, <1>2, <1>5, <1>6, LastReplaced
  <2> QED BY Zenon, <1>1, <2>1
<1>8. /\ stack' \in Seq(Words) /\ Len(stack') = Height(w, m)
      /\ \A i \in 1..Height(w, m) : stack'[i] = stack[i]
  <2>1. Height(w, m) \in Nat
    BY Zenon, <1>3
  <2>2. \A h \in Nat : (h + 1) - 1 = h /\ 1 <= h + 1 /\ 1 \in Nat
    OBVIOUS
  <2>3. Len(stack) - 1 = Height(w, m) /\ 1 <= Len(stack) /\ 1 \in Nat
    BY Zenon, <1>4, <2>1, <2>2
  <2> QED BY Zenon, <1>1, <1>2, <2>3, PopFacts
<1>9. Frames(stack', v, m, info) /\ Len(stack') = Height(v, m)
  <2>1. Grown(info, info)
    BY Zenon DEF Grown
  <2>2. m \in 0..m
    BY <1>3
  <2> HIDE DEF v, w, m
  <2>3. Frames(stack', v, m, info)
    BY Zenon, <1>3, <1>4, <1>5, <1>8, <2>1, <2>2, FramesKept
  <2> QED BY Zenon, <1>5, <1>8, <2>3 DEF SameWalk, Height
<1> HIDE DEF v, m, w
<1>10. /\ regs' \in [x0 : Words, x1 : Words, x2 : Words, x13 : Words, x30 : Words]
       /\ regs'.x0 = Word("int", a)
  <2>1. Word("int", a) \in Words /\ Stub \in Words
    BY Zenon, <1>2, AnswerWords
  <2> QED BY Zenon, <1>1, <1>2, <2>1 DEF WalkTypes
<1>11. WalkTypes'
  BY Zenon, <1>1, <1>2, <1>7, <1>8, <1>10 DEF WalkTypes
<1>12. Shape'
  BY Zenon, <1>1, <1>6, <1>7, <1>9, <1>10 DEF Shape, Inner
<1> QED BY Zenon, <1>1, <1>7, <1>11, <1>12 DEF WalkInv, Returns

\* The stub looks at the answer.
LEMMA AfterCallbackStep ==
  ASSUME WalkInv, AfterCallback
  PROVE  WalkInv'
<1> DEFINE w == walks[Len(walks)]
           m == Left(w)
           n == Len(w.answers)
<1>1. /\ pc = "compare" /\ pc' = (IF regs.x0 = Null THEN "loop" ELSE "drain")
      /\ stack' = stack /\ regs' = regs
      /\ walks' = walks /\ modules' = modules /\ info' = info /\ returned' = returned /\ calls' = calls
  BY Zenon DEF AfterCallback
<1>2. WalkTypes /\ Outer(walks, info) /\ Returns /\ walks # <<>>
  BY Zenon, <1>1 DEF WalkInv, Shape
<1>3. w \in WalkSet /\ WalkOK(w) /\ Inner(w) /\ m \in Nat
  BY Zenon, <1>2, Current
<1>4. Told(w, regs.x0) /\ Len(stack) = Height(w, m) /\ Frames(stack, w, m, info)
  BY Zenon, <1>1, <1>3 DEF Inner
<1>5. n \in Nat /\ n >= 1 /\ w.answers \in Seq(Int)
  BY Zenon, <1>3, <1>4, WalkFields DEF Told
<1>6. n \in 1..n /\ m \in 0..m /\ \A i \in 1..n : i = n \/ i \in 1..n - 1
  <2> HIDE DEF n, m
  <2> QED BY <1>3, <1>5
<1>7. w.answers[n] \in Int
  BY Zenon, <1>5, <1>6, Element
<1>8. regs.x0 = Word("int", w.answers[n]) /\ Zeros(w, n - 1) /\ Len(w.visited) = n
  BY Zenon, <1>4 DEF Told
<1>9. regs.x0 = Null <=> w.answers[n] = 0
  BY Zenon, <1>7, <1>8, AnswerWords
<1>10. WalkTypes'
  BY Zenon, <1>1, <1>2 DEF WalkTypes
<1>11. Returns'
  BY Zenon, <1>1, <1>2 DEF Returns
<1>12. Shape'
  <2>1. CASE regs.x0 = Null
    <3>1. pc' = "loop"
      BY Zenon, <1>1, <2>1
    <3>2. Between(w, regs.x0)
      BY Zenon, <1>6, <1>8, <1>9, <2>1 DEF Between, Zeros
    <3> HIDE DEF m
    <3> QED BY Zenon, <1>1, <1>2, <1>4, <3>1, <3>2 DEF Shape, Inner, m
  <2>2. CASE regs.x0 # Null
    <3>1. pc' = "drain"
      BY Zenon, <1>1, <2>2
    <3>2. \E k \in 0..Left(w) : Len(stack) = Height(w, k) /\ Frames(stack, w, k, info)
      BY Zenon, <1>4, <1>6
    <3> QED BY Zenon, <1>1, <1>2, <1>4, <1>9, <2>2, <3>1, <3>2 DEF Shape, Inner
  <2> QED BY Zenon, <2>1, <2>2
<1> QED BY Zenon, <1>1, <1>2, <1>10, <1>11, <1>12 DEF WalkInv

\* The stub drops a frame, or the terminator.
LEMMA DrainStep ==
  ASSUME WalkInv, drain
  PROVE  WalkInv'
<1> DEFINE w == walks[Len(walks)]
<1>1. /\ pc = "drain" /\ regs' = [regs EXCEPT !.x13 = Top]
      /\ IF Top = Null THEN stack' = Pop(1) /\ pc' = "post" ELSE stack' = Pop(4) /\ pc' = "drain"
      /\ walks' = walks /\ modules' = modules /\ info' = info /\ returned' = returned /\ calls' = calls
  BY Zenon DEF drain
<1>2. WalkTypes /\ Outer(walks, info) /\ Returns /\ walks # <<>> /\ stack \in Seq(Words)
  BY Zenon, <1>1 DEF WalkInv, Shape, WalkTypes
<1>3. /\ w \in WalkSet /\ WalkOK(w) /\ Inner(w) /\ Left(w) \in Nat /\ Len(w.stack) \in Nat
      /\ \A j \in Nat : Height(w, j) = Len(w.stack) + 3 + 4 * j /\ Height(w, j) \in Nat
  BY Zenon, <1>2, Current
<1>4. Told(w, regs.x0) /\ w.answers[Len(w.answers)] # 0
  BY Zenon, <1>1, <1>3 DEF Inner
<1>5. PICK m \in 0..Left(w) : Len(stack) = Height(w, m) /\ Frames(stack, w, m, info)
  BY Zenon, <1>1, <1>3 DEF Inner
<1>6. m \in Nat /\ \A k \in 0..m : k \in 0..Left(w)
  <2>1. \A a \in Nat : \A b \in 0..a : b \in Nat /\ \A k \in 0..b : k \in 0..a
    OBVIOUS
  <2> QED BY Zenon, <1>3, <2>1
<1>7. regs'.x0 = regs.x0 /\ regs' \in [x0 : Words, x1 : Words, x2 : Words, x13 : Words, x30 : Words]
  <2>1. Len(stack) = Len(w.stack) + 3 + 4 * m
    BY Zenon, <1>3, <1>5, <1>6
  <2>2. \A a, b \in Nat : a + 3 + 4 * b \in 1..(a + 3 + 4 * b)
    OBVIOUS
  <2>3. Len(stack) \in 1..Len(stack)
    BY Zenon, <1>3, <1>6, <2>1, <2>2
  <2>4. Top \in Words
    BY Zenon, <1>2, <2>3, Element DEF Top
  <2> QED BY Zenon, <1>1, <1>2, <2>4 DEF WalkTypes
<1>8. CASE Top = Null
  <2>1. m = 0
    BY Zenon, <1>5, <1>6, <1>8, TopFacts
  <2>2. stack' \in Seq(Words) /\ Len(stack') = Len(w.stack) + 2 /\ Saved(stack', w) /\ pc' = "post"
    BY Zenon, <1>1, <1>2, <1>3, <1>5, <1>8, <2>1, TerminatorPopped
  <2> HIDE DEF w
  <2>3. WalkTypes'
    BY Zenon, <1>1, <1>2, <1>7, <2>2 DEF WalkTypes
  <2>4. Shape'
    BY Zenon, <1>1, <1>2, <1>4, <1>7, <2>2 DEF Shape, Inner, w
  <2> QED BY Zenon, <1>1, <1>2, <2>3, <2>4 DEF WalkInv, Returns
<1>9. CASE Top # Null
  <2>1. m # 0
    BY Zenon, <1>5, <1>6, <1>9, TopFacts
  <2>2. SameWalk(w, w)
    BY Zenon DEF SameWalk
  <2> HIDE DEF w
  <2>3. /\ m - 1 \in 0..m /\ stack' \in Seq(Words) /\ Len(stack') = Height(w, m - 1)
        /\ Frames(stack', w, m - 1, info) /\ pc' = "drain"
    <3>1. stack' = Pop(4) /\ pc' = "drain"
      BY Zenon, <1>1, <1>9
    <3>2. /\ m - 1 \in 0..m /\ Pop(4) \in Seq(Words) /\ Len(Pop(4)) = Height(w, m - 1)
          /\ Frames(Pop(4), w, m - 1, info)
      BY SMTT(30), <1>2, <1>3, <1>5, <1>6, <2>1, <2>2, FramePopped
    <3> QED BY Zenon, <3>1, <3>2
  <2>4. \E k \in 0..Left(w) : Len(stack') = Height(w, k) /\ Frames(stack', w, k, info)
    BY Zenon, <1>6, <2>3
  <2>5. WalkTypes'
    BY Zenon, <1>1, <1>2, <1>7, <2>3 DEF WalkTypes
  <2>6. Shape'
    BY Zenon, <1>1, <1>2, <1>4, <1>7, <2>3, <2>4 DEF Shape, Inner, w
  <2> QED BY Zenon, <1>1, <1>2, <2>3, <2>5, <2>6 DEF WalkInv, Returns
<1> QED BY Zenon, <1>8, <1>9

\* The walk returns: its caller finds its stack, its return address and the
\* last answer.
LEMMA PostStep ==
  ASSUME WalkInv, post
  PROVE  WalkInv'
<1> DEFINE w == walks[Len(walks)]
           n == Len(w.answers)
<1>1. /\ pc = "post" /\ pc' = "guest" /\ stack' = Pop(2) /\ regs' = [regs EXCEPT !.x30 = Nth(1)]
      /\ returned' = w /\ walks' = SubSeq(walks, 1, Len(walks) - 1)
      /\ modules' = modules /\ info' = info /\ calls' = calls
  BY Zenon DEF post
<1>2. /\ WalkTypes /\ Outer(walks, info) /\ walks # <<>> /\ stack \in Seq(Words)
      /\ walks \in Seq(WalkSet)
  BY Zenon, <1>1 DEF WalkInv, Shape, WalkTypes
<1>3. w \in WalkSet /\ Inner(w) /\ Len(w.stack) \in Nat /\ w.stack \in Seq(Words) /\ w.lr \in Words
  BY Zenon, <1>2, Current, WalkFields
<1>4. /\ Told(w, regs.x0) /\ (w.answers[n] = 0 => n = Len(w.list))
      /\ Len(stack) = Len(w.stack) + 2 /\ Saved(stack, w)
  BY Zenon, <1>1, <1>3 DEF Inner
<1>5. /\ Len(stack) - 2 = Len(w.stack) /\ Len(stack) - 1 = Len(w.stack) + 1
      /\ 2 <= Len(stack) /\ 2 \in Nat
  <2>1. \A k, l \in Nat : l = k + 2 => l - 2 = k /\ l - 1 = k + 1 /\ 2 <= l /\ 2 \in Nat
    OBVIOUS
  <2>2. Len(w.stack) + 2 \in Nat
    BY Zenon, <1>3, PlusTwo
  <2> QED BY Zenon, <1>3, <1>4, <2>1, <2>2
<1>6. stack' = w.stack
  <2>1. /\ stack' \in Seq(Words) /\ Len(stack') = Len(w.stack)
        /\ \A i \in 1..Len(w.stack) : stack'[i] = stack[i]
    BY Zenon, <1>1, <1>2, <1>5, PopFacts
  <2>2. \A i \in 1..Len(stack') : stack'[i] = w.stack[i]
    BY Zenon, <1>4, <2>1 DEF Saved
  <2> QED BY Zenon, <1>3, <2>1, <2>2, SameSequence
<1>7. Nth(1) = w.lr
  BY Zenon, <1>4, <1>5 DEF Nth, Saved
<1>8. /\ regs'.x0 = regs.x0 /\ regs'.x30 = w.lr
      /\ regs' \in [x0 : Words, x1 : Words, x2 : Words, x13 : Words, x30 : Words]
  BY Zenon, <1>1, <1>2, <1>3, <1>7 DEF WalkTypes
<1>9. /\ walks' \in Seq(WalkSet) /\ Outer(walks', info) /\ GuestShape(stack', walks', info)
      /\ walks' # <<>> => Calling(walks'[Len(walks')])
  BY Zenon, <1>1, <1>2, <1>6, WalkPopped
<1> HIDE DEF w
<1>10. WalkTypes'
  BY Zenon, <1>1, <1>2, <1>3, <1>6, <1>8, <1>9 DEF WalkTypes
<1>11. Shape'
  BY Zenon, <1>1, <1>9 DEF Shape, Inner
<1>12. Returns'
  <2>1. /\ n = Len(w.visited) /\ regs.x0 = Word("int", w.answers[n])
        /\ \A i \in 1..n - 1 : w.answers[i] = 0
    BY Zenon, <1>4 DEF Told, Zeros
  <2>2. StopsAtFirstNonzero'
    BY Zenon, <1>1, <1>4, <2>1 DEF StopsAtFirstNonzero
  <2>3. ResultIsLastAnswer'
    BY Zenon, <1>1, <1>8, <2>1 DEF ResultIsLastAnswer
  <2>4. StackRestored'
    BY Zenon, <1>1, <1>6, <1>8 DEF StackRestored
  <2> QED BY Zenon, <1>1, <2>2, <2>3, <2>4 DEF Returns
<1> QED BY Zenon, <1>1, <1>9, <1>10, <1>11, <1>12 DEF WalkInv

\* The saved registers.
LEMMA SavedFacts ==
  ASSUME WalkTypes
  PROVE  SavedRegisters \in Seq(Words) /\ Len(SavedRegisters) = 2 /\ SavedRegisters[1] = regs.x30
<1>1. regs.x30 \in Words
  BY Zenon DEF WalkTypes
<1>2. Word("fp", 0) \in Words
  BY DEF Word, Words
<1> HIDE DEF WalkTypes
<1> QED BY <1>1, <1>2 DEF SavedRegisters

\* dlopen's stub saves the registers and finds an empty list.
LEMMA DlopenStep ==
  ASSUME WalkInv, dlopen
  PROVE  WalkInv'
<1>1. /\ pc = "guest" /\ pc' = "dlopen_loop" /\ stack' = (stack \o SavedRegisters) \o <<Null, Null>>
      /\ regs' = [regs EXCEPT !.x0 = Null] /\ calls' = calls + 1 /\ returned' = NoWalk
      /\ walks' = walks /\ modules' = modules /\ info' = info
  BY Zenon DEF dlopen
<1>2. /\ WalkTypes /\ Outer(walks, info) /\ stack \in Seq(Words) /\ calls \in Nat
      /\ GuestShape(stack, walks, info)
  BY Zenon, <1>1 DEF WalkInv, Shape, WalkTypes
<1>3. walks # <<>> => Calling(walks[Len(walks)])
  BY Zenon, <1>1 DEF WalkInv, Shape, Inner
<1>4. <<Null, Null>> \in Seq(Words) /\ Len(<<Null, Null>>) = 2
  BY AnswerWords
<1>5. /\ stack' \in Seq(Words) /\ Len(stack') = Len(stack) + 2 + 2
      /\ SubSeq(stack', 1, Len(stack)) = stack
  <2> DEFINE u == <<Null, Null>>
  <2>1. SavedRegisters \in Seq(Words) /\ Len(SavedRegisters) = 2
    BY Zenon, <1>2, SavedFacts
  <2>2. u \in Seq(Words) /\ Len(u) = 2 /\ stack' = (stack \o SavedRegisters) \o u
    BY Zenon, <1>1, <1>4
  <2> HIDE DEF u
  <2>3. /\ (stack \o SavedRegisters) \o u \in Seq(Words)
        /\ Len((stack \o SavedRegisters) \o u) = Len(stack) + Len(SavedRegisters) + Len(u)
        /\ SubSeq((stack \o SavedRegisters) \o u, 1, Len(stack)) = stack
    <3>1. stack \in Seq(Words) /\ SavedRegisters \in Seq(Words) /\ u \in Seq(Words)
      BY Zenon, <1>2, <2>1, <2>2
    <3> QED BY <3>1, PushPop
  <2> QED BY Zenon, <2>1, <2>2, <2>3
<1>6. Len(stack') >= 4 /\ Len(stack') - 4 = Len(stack)
  <2>1. Len(stack) \in Nat
    BY <1>2
  <2> QED BY <1>5, <2>1
<1>7. Pop(4)' = stack
  BY Zenon, <1>5, <1>6 DEF Pop
<1>8. WalkTypes'
  <2>1. regs' \in [x0 : Words, x1 : Words, x2 : Words, x13 : Words, x30 : Words]
    BY Zenon, <1>1, <1>2, AnswerWords DEF WalkTypes
  <2>2. calls' \in Nat
    BY <1>1, <1>2
  <2> QED BY Zenon, <1>1, <1>2, <1>5, <2>1, <2>2 DEF WalkTypes
<1>9. Shape'
  BY Zenon, <1>1, <1>2, <1>3, <1>6, <1>7 DEF Shape, Inner
<1> QED BY Zenon, <1>1, <1>2, <1>8, <1>9 DEF WalkInv, Returns

\* dlopen's stub returns.
LEMMA DlopenLoopStep ==
  ASSUME WalkInv, dlopen_loop
  PROVE  WalkInv'
<1>1. /\ pc = "dlopen_loop" /\ pc' = "guest" /\ stack' = Pop(4)
      /\ regs' = [regs EXCEPT !.x13 = Top, !.x0 = Nth(1), !.x30 = Nth(3)]
      /\ walks' = walks /\ modules' = modules /\ info' = info /\ returned' = returned /\ calls' = calls
  BY Zenon DEF dlopen_loop
<1>2. /\ WalkTypes /\ Outer(walks, info) /\ Returns /\ stack \in Seq(Words)
      /\ Len(stack) >= 4 /\ GuestShape(Pop(4), walks, info)
  BY Zenon, <1>1 DEF WalkInv, Shape, WalkTypes
<1>3. walks # <<>> => Calling(walks[Len(walks)])
  BY Zenon, <1>1 DEF WalkInv, Shape, Inner
<1>4. /\ Len(stack) \in 1..Len(stack) /\ Len(stack) - 1 \in 1..Len(stack)
      /\ Len(stack) - 3 \in 1..Len(stack) /\ 4 \in Nat /\ 4 <= Len(stack)
  <2>1. Len(stack) \in Nat
    BY <1>2
  <2> QED BY <1>2, <2>1
<1>5. Top \in Words /\ Nth(1) \in Words /\ Nth(3) \in Words
  BY Zenon, <1>2, <1>4, Element DEF Top, Nth
<1>6. stack' \in Seq(Words)
  BY Zenon, <1>1, <1>2, <1>4, PopFacts
<1>7. regs' \in [x0 : Words, x1 : Words, x2 : Words, x13 : Words, x30 : Words]
  BY Zenon, <1>1, <1>2, <1>5 DEF WalkTypes
<1>8. WalkTypes'
  BY Zenon, <1>1, <1>2, <1>6, <1>7 DEF WalkTypes
<1>9. Shape'
  BY Zenon, <1>1, <1>2, <1>3 DEF Shape, Inner
<1> QED BY Zenon, <1>1, <1>2, <1>8, <1>9 DEF WalkInv, Returns

\* What the host has pushed is a frame for each module of the list.
LEMMA WalkBegins ==
  ASSUME WalkTypes, NEW data \in Words, NEW v, v = NewWalk(data),
         NEW st, st = (stack \o SavedRegisters) \o frames(data), NEW blocks, blocks = info \o listed
  PROVE  /\ v \in WalkSet /\ WalkOK(v) /\ \A x0 : Between(v, x0)
         /\ st \in Seq(Words) /\ Len(st) = Height(v, Left(v)) /\ Frames(st, v, Left(v), blocks)
         /\ blocks \in Seq(LibNames) /\ Grown(info, blocks)
<1> DEFINE l == <<Libart>> \o WithElf
           n == Len(l)
           L == Len(stack)
           F == frames(data)
           SR == SavedRegisters
<1>1. /\ stack \in Seq(Words) /\ L \in Nat /\ regs.x30 \in Words /\ info \in Seq(LibNames)
      /\ modules \in Seq([name : LibNames, elf : BOOLEAN])
  <2>1. /\ stack \in Seq(Words) /\ regs.x30 \in Words /\ info \in Seq(LibNames)
        /\ modules \in Seq([name : LibNames, elf : BOOLEAN])
    BY Zenon DEF WalkTypes
  <2>2. L \in Nat
    BY <2>1
  <2> QED BY Zenon, <2>1, <2>2
<1>2. /\ l \in Seq(LibNames) /\ n \in Nat /\ n >= 1 /\ listed \in Seq(LibNames) /\ Len(listed) = n
      /\ \A j \in 1..n : listed[j] = l[n + 1 - j]
  BY Zenon, <1>1, ListedFacts
<1>3. v = [stack |-> stack, lr |-> regs.x30, data |-> data, list |-> l, visited |-> <<>>, answers |-> <<>>]
  BY Zenon DEF NewWalk
<1> HIDE DEF l
<1>4. /\ v.stack = stack /\ v.lr = regs.x30 /\ v.data = data /\ v.list = l
      /\ v.visited = <<>> /\ v.answers = <<>>
  BY SMTT(30), <1>3
<1>5. v \in WalkSet
  <2>1. <<>> \in Seq(LibNames \X Words \X Words) /\ <<>> \in Seq(Int)
    OBVIOUS
  <2> QED BY SMTT(30), <1>1, <1>2, <1>3, <2>1 DEF WalkSet
<1>6. Len(v.visited) = 0 /\ Len(v.answers) = 0 /\ Left(v) = n
  <2>1. Len(<<>>) = 0 /\ \A a \in Nat : a - 0 = a
    OBVIOUS
  <2> HIDE DEF n
  <2> QED BY Zenon, <1>2, <1>4, <2>1 DEF Left, n
<1>7. WalkOK(v) /\ \A x0 : Between(v, x0)
  <2>1. 0 <= n /\ ~ (0 >= 1) /\ \A i \in 1..0 : FALSE
    BY <1>2
  <2> QED BY Zenon, <1>2, <1>4, <1>6, <2>1 DEF WalkOK, Between, Zeros
<1>8. /\ F \in Seq(Words) /\ Len(F) = 1 + 4 * n /\ F[1] = Null
      /\ \A j \in 1..n : /\ F[1 + 4 * j] = Word("code", "cb") /\ F[4 * j] = Word("ptr", Len(info) + j)
                         /\ F[4 * j - 1] = InfoSize /\ F[4 * j - 2] = data
  BY ZenonT(30), <1>2, FramesPushed
<1>9. SR \in Seq(Words) /\ Len(SR) = 2 /\ SR[1] = regs.x30
  BY Zenon, SavedFacts
<1> HIDE DEF F, SR
<1>10. /\ st \in Seq(Words) /\ Len(st) = L + Len(SR) + Len(F)
       /\ \A k \in 1..L : st[k] = stack[k]
       /\ \A k \in 1..Len(SR) : st[L + k] = SR[k]
       /\ \A k \in 1..Len(F) : st[L + Len(SR) + k] = F[k]
  <2>1. st = (stack \o SR) \o F
    BY Zenon DEF SR, F
  <2>2. stack \in Seq(Words) /\ SR \in Seq(Words) /\ F \in Seq(Words)
    BY Zenon, <1>1, <1>8, <1>9
  <2>3. (stack \o SR) \o F \in Seq(Words) /\ Len((stack \o SR) \o F) = L + Len(SR) + Len(F)
    BY SMTT(30), <2>2, PushPop
  <2>4. \A k \in 1..L : ((stack \o SR) \o F)[k] = stack[k]
    BY SMTT(30), <2>2, PushPop
  <2>5. \A k \in 1..Len(SR) : ((stack \o SR) \o F)[L + k] = SR[k]
    BY SMTT(30), <2>2, PushPop
  <2>6. \A k \in 1..Len(F) : ((stack \o SR) \o F)[L + Len(SR) + k] = F[k]
    BY SMTT(30), <2>2, PushPop
  <2> QED BY Zenon, <2>1, <2>3, <2>4, <2>5, <2>6
<1> HIDE DEF n, L
<1>11. \A j : Height(v, j) = L + 3 + 4 * j
  BY Zenon, <1>4 DEF Height, L
<1>12. Len(st) = Height(v, Left(v))
  <2>1. Len(st) = L + 2 + (1 + 4 * n)
    BY Zenon, <1>8, <1>9, <1>10
  <2>2. L + 2 + (1 + 4 * n) = L + 3 + 4 * n
    BY <1>1, <1>2
  <2> QED BY Zenon, <1>6, <1>11, <2>1, <2>2
<1>13. Saved(st, v)
  <2>1. 1 \in 1..2
    OBVIOUS
  <2>2. st[L + 1] = regs.x30
    BY Zenon, <1>9, <1>10, <2>1
  <2> QED BY Zenon, <1>4, <1>10, <2>2 DEF Saved, L
<1>14. \A k \in 1..1 + 4 * n : st[L + 2 + k] = F[k]
  BY Zenon, <1>8, <1>9, <1>10
<1>15. st[Height(v, 0)] = Null
  <2>1. L + 3 + 4 * 0 = L + 2 + 1 /\ 1 \in 1..1 + 4 * n
    BY <1>1, <1>2
  <2> QED BY Zenon, <1>8, <1>11, <1>14, <2>1
<1>16. /\ blocks \in Seq(LibNames) /\ DOMAIN info = 1..Len(info) /\ DOMAIN blocks = 1..Len(info) + n
       /\ \A k \in 1..Len(info) : blocks[k] = info[k]
       /\ \A k \in 1..n : blocks[Len(info) + k] = listed[k]
       /\ Len(info) \in Nat
  <2>1. info \in Seq(LibNames) /\ listed \in Seq(LibNames)
    BY Zenon, <1>1, <1>2
  <2>2. /\ info \o listed \in Seq(LibNames) /\ DOMAIN info = 1..Len(info)
        /\ DOMAIN (info \o listed) = 1..Len(info) + Len(listed)
        /\ \A k \in 1..Len(info) : (info \o listed)[k] = info[k]
        /\ \A k \in 1..Len(listed) : (info \o listed)[Len(info) + k] = listed[k]
        /\ Len(info) \in Nat
    BY <2>1, ConcatFacts
  <2> QED BY Zenon, <1>2, <2>2
<1>17. Grown(info, blocks)
  <2>1. \A k \in 1..Len(info) : k \in 1..Len(info) + n
    BY <1>2, <1>16
  <2> QED BY Zenon, <1>16, <2>1 DEF Grown
<1>18. ASSUME NEW j \in 1..n PROVE FrameAt(st, v, j, blocks)
  <2> DEFINE h == Height(v, j)
  <2>1. h = L + 3 + 4 * j
    BY Zenon, <1>11
  <2>2. /\ L + 3 + 4 * j = L + 2 + (1 + 4 * j) /\ (L + 3 + 4 * j) - 1 = L + 2 + 4 * j
        /\ (L + 3 + 4 * j) - 2 = L + 2 + (4 * j - 1) /\ (L + 3 + 4 * j) - 3 = L + 2 + (4 * j - 2)
        /\ 1 + 4 * j \in 1..1 + 4 * n /\ 4 * j \in 1..1 + 4 * n
        /\ 4 * j - 1 \in 1..1 + 4 * n /\ 4 * j - 2 \in 1..1 + 4 * n
    BY <1>1, <1>2
  <2>3. /\ st[h] = F[1 + 4 * j] /\ st[h - 1] = F[4 * j] /\ st[h - 2] = F[4 * j - 1] /\ st[h - 3] = F[4 * j - 2]
    <3> HIDE DEF h
    <3> QED BY Zenon, <1>14, <2>1, <2>2
  <2>4. /\ st[h] = Word("code", "cb") /\ st[h - 1] = Word("ptr", Len(info) + j)
        /\ st[h - 2] = InfoSize /\ st[h - 3] = data
    <3> HIDE DEF h
    <3> QED BY Zenon, <1>8, <2>3
  <2>5. Len(info) + j \in DOMAIN blocks
    <3>1. Len(info) + j \in 1..Len(info) + n
      BY <1>2, <1>16
    <3> QED BY Zenon, <1>16, <3>1
  <2>6. blocks[Len(info) + j] = v.list[Len(v.list) + 1 - j]
    BY Zenon, <1>2, <1>4, <1>16 DEF n
  <2> QED BY Zenon, <1>4, <2>4, <2>5, <2>6 DEF FrameAt
<1>19. Frames(st, v, Left(v), blocks)
  BY Zenon, <1>6, <1>13, <1>15, <1>18 DEF Frames
<1> QED BY Zenon, <1>5, <1>7, <1>10, <1>12, <1>16, <1>17, <1>19

\* Guest code calls dl_iterate_phdr, perhaps in a callback of another walk.
LEMMA IterateStep ==
  ASSUME WalkInv, NEW data \in Words, dl_iterate_phdr(data)
  PROVE  WalkInv'
<1> DEFINE v == NewWalk(data)
<1>1. /\ pc = "guest" /\ pc' = "loop" /\ stack' = (stack \o SavedRegisters) \o frames(data)
      /\ info' = info \o listed /\ walks' = Append(walks, v) /\ calls' = calls + 1
      /\ returned' = NoWalk /\ regs' = regs /\ modules' = modules
  BY Zenon DEF dl_iterate_phdr
<1>2. /\ WalkTypes /\ Outer(walks, info) /\ walks \in Seq(WalkSet) /\ calls \in Nat
      /\ GuestShape(stack, walks, info) /\ (walks # <<>> => Calling(walks[Len(walks)]))
  BY Zenon, <1>1 DEF WalkInv, Shape, Inner, WalkTypes
<1>3. /\ v \in WalkSet /\ WalkOK(v) /\ Between(v, regs.x0)
      /\ stack' \in Seq(Words) /\ Len(stack') = Height(v, Left(v)) /\ Frames(stack', v, Left(v), info')
      /\ info' \in Seq(LibNames) /\ Grown(info, info')
  BY Zenon, <1>1, <1>2, WalkBegins
<1>4. v.stack = stack
  BY Zenon DEF NewWalk
<1> HIDE DEF v
<1>5. Outer(walks, info')
  BY Zenon, <1>2, <1>3, OuterGrown
<1>6. GuestShape(stack, walks, info')
  <2>1. CASE walks = <<>>
    BY Zenon, <1>2, <2>1 DEF GuestShape
  <2>2. CASE walks # <<>>
    <3>1. Len(walks) \in 1..Len(walks)
      BY <1>2, <2>2
    <3>2. walks[Len(walks)] \in WalkSet /\ WalkOK(walks[Len(walks)])
      BY Zenon, <1>2, <3>1, Element DEF Outer
    <3> QED BY Zenon, <1>2, <1>3, <2>2, <3>2, InCallKept DEF GuestShape
  <2> QED BY Zenon, <2>1, <2>2
<1>7. /\ walks' \in Seq(WalkSet) /\ walks' # <<>> /\ walks'[Len(walks')] = v /\ Outer(walks', info')
  <2> DEFINE ws2 == Append(walks, v)
  <2>1. /\ ws2 \in Seq(WalkSet) /\ ws2 # <<>> /\ ws2[Len(ws2)] = v /\ Outer(ws2, info')
    BY Zenon, <1>2, <1>3, <1>4, <1>5, <1>6, WalkPushed
  <2> QED BY Zenon, <1>1, <2>1
<1>8. WalkTypes'
  <2>1. calls' \in Nat
    BY <1>1, <1>2
  <2> QED BY Zenon, <1>1, <1>2, <1>3, <1>7, <2>1 DEF WalkTypes
<1>9. Shape'
  BY Zenon, <1>1, <1>3, <1>7 DEF Shape, Inner
<1> QED BY Zenon, <1>1, <1>7, <1>8, <1>9 DEF WalkInv, Returns

\* The host loads a library; the walks in progress are not told.
LEMMA HostLoadsStep ==
  ASSUME WalkInv, NEW l \in Libraries, HostLoads(l)
  PROVE  WalkInv'
<1>1. /\ pc = "guest" /\ modules' = Append(modules, [name |-> l, elf |-> TRUE]) /\ returned' = NoWalk
      /\ stack' = stack /\ regs' = regs /\ pc' = pc /\ info' = info /\ walks' = walks /\ calls' = calls
  BY Zenon DEF HostLoads
<1>2. WalkTypes /\ Outer(walks, info) /\ Shape
  BY Zenon DEF WalkInv
<1>3. modules' \in Seq([name : LibNames, elf : BOOLEAN])
  <2> DEFINE M == [name : LibNames, elf : BOOLEAN]
             x == [name |-> l, elf |-> TRUE]
  <2>1. x \in M /\ modules \in Seq(M) /\ modules' = Append(modules, x)
    BY Zenon, <1>1, <1>2 DEF LibNames, WalkTypes
  <2> HIDE DEF M, x
  <2>2. modules' \in Seq(M)
    BY <2>1
  <2> QED BY Zenon, <2>2 DEF M
<1>4. WalkTypes'
  BY Zenon, <1>1, <1>2, <1>3 DEF WalkTypes
<1>5. Shape'
  BY Zenon, <1>1, <1>2 DEF Shape, Inner, Pop
<1> QED BY Zenon, <1>1, <1>2, <1>4, <1>5 DEF WalkInv, Returns

\* The allocation fails and the task stops.
LEMMA AllocationFailsStep ==
  ASSUME WalkInv, AllocationFails
  PROVE  WalkInv'
<1>1. /\ pc = "guest" /\ pc' = "stopped" /\ modules' = modules /\ returned' = returned
      /\ stack' = stack /\ regs' = regs /\ info' = info /\ walks' = walks /\ calls' = calls
  BY Zenon DEF AllocationFails
<1>2. WalkTypes /\ Outer(walks, info) /\ Returns
  BY Zenon DEF WalkInv
<1>3. WalkTypes'
  BY Zenon, <1>1, <1>2 DEF WalkTypes
<1>4. Shape'
  BY Zenon, <1>1 DEF Shape, Inner
<1>5. Returns'
  BY Zenon, <1>1, <1>2 DEF Returns, StopsAtFirstNonzero, ResultIsLastAnswer, StackRestored
<1> QED BY Zenon, <1>1, <1>2, <1>3, <1>4, <1>5 DEF WalkInv

\* A step that changes nothing of a walk.
LEMMA WalkStutter ==
  ASSUME WalkInv, UNCHANGED walkVars
  PROVE  WalkInv'
<1>1. /\ stack' = stack /\ regs' = regs /\ pc' = pc /\ modules' = modules /\ info' = info
      /\ walks' = walks /\ returned' = returned /\ calls' = calls
  BY Zenon DEF walkVars
<1>2. WalkTypes /\ Outer(walks, info) /\ Shape /\ Returns
  BY Zenon DEF WalkInv
<1>3. WalkTypes'
  BY Zenon, <1>1, <1>2 DEF WalkTypes
<1>4. Shape'
  BY Zenon, <1>1, <1>2 DEF Shape, Inner, Pop
<1>5. Returns'
  BY Zenon, <1>1, <1>2 DEF Returns, StopsAtFirstNonzero, ResultIsLastAnswer, StackRestored
<1> QED BY Zenon, <1>1, <1>2, <1>3, <1>4, <1>5 DEF WalkInv

\* Before the guest's first call.
LEMMA WalkStart ==
  ASSUME WalkInit
  PROVE  WalkInv
<1>1. WalkTypes
  <2>1. Word("guest", 0) \in Words
    BY DEF Word, Words
  <2>2. regs \in [x0 : Words, x1 : Words, x2 : Words, x13 : Words, x30 : Words]
    BY Zenon, <2>1, AnswerWords DEF WalkInit
  <2>3. <<[name |-> "virtual", elf |-> FALSE]>> \in Seq([name : LibNames, elf : BOOLEAN])
    BY DEF LibNames
  <2>4. <<>> \in Seq(Words) /\ <<>> \in Seq(LibNames) /\ <<>> \in Seq(WalkSet) /\ 0 \in Nat
    OBVIOUS
  <2> QED BY Zenon, <2>2, <2>3, <2>4 DEF WalkInit, WalkTypes
<1>2. Outer(walks, info)
  <2>1. Len(<<>>) = 0 /\ \A i \in 1..0 : FALSE
    OBVIOUS
  <2> QED BY Zenon, <2>1 DEF WalkInit, Outer
<1>3. Shape
  BY Zenon DEF WalkInit, Shape, GuestShape
<1> QED BY Zenon, <1>1, <1>2, <1>3 DEF WalkInv, WalkInit, Returns

\* What the invariant says of the visits.
LEMMA WalkSound ==
  ASSUME WalkInv
  PROVE  WalkExact
<1>1. VisitsInOrder
  <2> SUFFICES ASSUME NEW k \in 1..Len(walks)
               PROVE  /\ IsPrefixOf([i \in 1..Len(walks[k].visited) |-> walks[k].visited[i][1]], walks[k].list)
                      /\ \A i \in 1..Len(walks[k].visited) : /\ walks[k].visited[i][2] = InfoSize
                                                             /\ walks[k].visited[i][3] = walks[k].data
    BY Zenon DEF VisitsInOrder
  <2> DEFINE w == walks[k]
             u == Len(w.visited)
             names == [i \in 1..u |-> w.visited[i][1]]
  <2>1. w \in WalkSet /\ WalkOK(w)
    BY Zenon, Element DEF WalkInv, WalkTypes, Outer
  <2>2. u \in Nat /\ u <= Len(w.list) /\ w.list \in Seq(LibNames) /\ Len(w.list) \in Nat
    BY Zenon, <2>1, WalkFields DEF WalkOK
  <2>3. \A i \in 1..u : w.visited[i] = <<w.list[i], InfoSize, w.data>>
    BY Zenon, <2>1 DEF WalkOK
  <2> HIDE DEF w
  <2>4. \A i \in 1..u : w.visited[i][1] = w.list[i] /\ w.visited[i][2] = InfoSize /\ w.visited[i][3] = w.data
    BY <2>3
  <2> HIDE DEF u
  <2>5. \A i \in 1..u : w.list[i] \in LibNames
    <3>1. \A i \in 1..u : i \in 1..Len(w.list)
      BY <2>2
    <3> QED BY Zenon, <2>2, <3>1, Element
  <2>6. names \in [1..u -> LibNames] /\ \A i \in 1..u : names[i] = w.list[i]
    BY Zenon, <2>4, <2>5
  <2> HIDE DEF names
  <2>7. names \in Seq(LibNames) /\ Len(names) = u
    BY SMTT(30), <2>2, <2>6
  <2>8. /\ SubSeq(w.list, 1, u) \in Seq(LibNames) /\ Len(SubSeq(w.list, 1, u)) = u
        /\ \A i \in 1..u : SubSeq(w.list, 1, u)[i] = w.list[i]
    BY <2>2, FrontFacts
  <2>9. SubSeq(w.list, 1, u) = names
    <3>1. \A i \in 1..Len(SubSeq(w.list, 1, u)) : SubSeq(w.list, 1, u)[i] = names[i]
      BY Zenon, <2>6, <2>8
    <3> QED BY Zenon, <2>7, <2>8, <3>1, SameSequence
  <2>10. IsPrefixOf(names, w.list)
    BY Zenon, <2>2, <2>7, <2>9 DEF IsPrefixOf
  <2> QED BY Zenon, <2>4, <2>10 DEF names, u, w
<1>2. StopsAtFirstNonzero /\ ResultIsLastAnswer /\ StackRestored
  BY Zenon DEF WalkInv, Returns, StopsAtFirstNonzero, ResultIsLastAnswer, StackRestored
<1> QED BY Zenon, <1>1, <1>2 DEF WalkExact

\* A walk over the modules, however many walks and loads its callbacks make
\* and however deep they enclose one another, visits what was loaded when it
\* began, in order and up to the first nonzero answer, answers that and gives
\* the caller its stack back: dl_iterate_phdr's stub and its host half.
THEOREM WalksExact == WalkSpec => []WalkExact
<1>1. WalkInit => WalkInv
  BY Zenon, WalkStart
<1>2. WalkInv /\ [WalkNext]_walkVars => WalkInv'
  <2> SUFFICES ASSUME WalkInv, [WalkNext]_walkVars PROVE WalkInv'
    BY Zenon
  <2>1. CASE dl_iterate_phdr(Word("data", calls))
    <3>1. Word("data", calls) \in Words
      BY DEF WalkInv, WalkTypes, Word, Words
    <3> QED BY Zenon, <2>1, <3>1, IterateStep
  <2>2. CASE AllocationFails
    BY Zenon, <2>2, AllocationFailsStep
  <2>3. CASE loop
    BY ZenonT(30), <2>3, LoopTerminates, LoopVisits
  <2>4. CASE AfterCallback
    BY Zenon, <2>4, AfterCallbackStep
  <2>5. CASE drain
    BY Zenon, <2>5, DrainStep
  <2>6. CASE post
    BY Zenon, <2>6, PostStep
  <2>7. CASE dlopen
    BY Zenon, <2>7, DlopenStep
  <2>8. CASE dlopen_loop
    BY Zenon, <2>8, DlopenLoopStep
  <2>9. CASE CallbackEntered
    BY Zenon, <2>9, CallbackEnteredStep
  <2>10. ASSUME NEW a \in Results, CallbackReturns(a) PROVE WalkInv'
    BY Zenon, <2>10, CallbackReturnsStep
  <2>11. ASSUME NEW l \in Libraries, HostLoads(l) PROVE WalkInv'
    BY Zenon, <2>11, HostLoadsStep
  <2>12. CASE UNCHANGED walkVars
    BY Zenon, <2>12, WalkStutter
  <2> QED BY Zenon, <2>1, <2>2, <2>3, <2>4, <2>5, <2>6, <2>7, <2>8, <2>9, <2>10, <2>11, <2>12 DEF WalkNext
<1>3. WalkInv => WalkExact
  BY Zenon, WalkSound
<1> QED BY <1>1, <1>2, <1>3, PTL DEF WalkSpec
=============================================================================
