--------------------------- MODULE RideJournalProofs ---------------------------
(***************************************************************************)
(* The ride journal keeps what it acknowledged.  Two invariants carry it.  *)
(* StoreOK is about the store against its slots and against the writer,    *)
(* and holds whatever fails.  ContentOK is about the bytes: what the card  *)
(* holds of the ride while it is mounted, and what the next mount finds.   *)
(* It supposes what Survivable says, for the reasons README.md gives.      *)
(***************************************************************************)
EXTENDS RideJournal, SequenceTheorems, TLAPS

\* What the proofs use of the constants: a page has room for a sample and the
\* footer.
LEMMA PageNat == Page \in Nat /\ Page >= 2 /\ Slots \in Nat /\ Slots >= 3 /\ Reserve \in Nat
BY JournalAssumption

\* The quotient and the remainder of a division are those of any way to write it.
LEMMA Division ==
    ASSUME NEW a \in Nat, NEW q \in Nat, NEW d \in Nat \ {0}, NEW r \in 0 .. d - 1,
           a = d * q + r
    PROVE  a \div d = q /\ a % d = r
OBVIOUS

\* Every number is its quotient times the divisor and its remainder.
LEMMA Divided ==
    ASSUME NEW a \in Nat, NEW d \in Nat \ {0}
    PROVE  /\ a \div d \in Nat /\ a % d \in 0 .. d - 1
           /\ a = d * (a \div d) + (a % d)
OBVIOUS

\* Two sequence numbers less than a ring apart are in different slots (journal.rs
\* SlotHeader: the slot is the sequence modulo SLOTS).
LEMMA RingDistinct ==
    ASSUME NEW a \in Nat, NEW b \in Nat, a < b, b < a + Slots
    PROVE  SlotOf(a) # SlotOf(b)
<1> DEFINE q == a \div Slots
           p == b \div Slots
<1>1. Slots \in Nat \ {0}  BY PageNat
<1>2. /\ q \in Nat /\ SlotOf(a) \in 0 .. Slots - 1 /\ a = Slots * q + SlotOf(a)
      /\ p \in Nat /\ SlotOf(b) \in 0 .. Slots - 1 /\ b = Slots * p + SlotOf(b)
  BY <1>1, Divided DEF SlotOf
<1>3. ASSUME SlotOf(a) = SlotOf(b) PROVE FALSE
  <2> HIDE DEF q, p
  <2>1. b - a = Slots * (p - q)
    BY <1>1, <1>2, <1>3
  <2>2. p - q > 0
    BY <2>1, <1>1, <1>2
  <2>3. Slots * (p - q) >= Slots
    BY <2>2, <1>1, <1>2
  <2> QED  BY <2>1, <2>3, <1>1
<1> QED  BY <1>3

\* Every sequence number has a slot.
LEMMA RingSlot ==
    ASSUME NEW a \in Nat
    PROVE  SlotOf(a) \in Ring
BY PageNat, Divided DEF SlotOf, Ring

\* Page arithmetic.
LEMMA WholePages ==
    ASSUME NEW f \in Nat, f % Page = 0
    PROVE  /\ f \div Page \in Nat /\ f = Page * (f \div Page)
           /\ (f + Page) % Page = 0 /\ (f + Page) \div Page = (f \div Page) + 1
<1> DEFINE q == f \div Page
<1>1. Page \in Nat \ {0}  BY PageNat
<1>2. q \in Nat /\ f = Page * q  BY <1>1, Divided
<1>3. f + Page = Page * (q + 1) + 0
  <2> HIDE DEF q
  <2> QED  BY <1>1, <1>2
<1>4. (f + Page) % Page = 0 /\ (f + Page) \div Page = q + 1
  <2> DEFINE a == f + Page
             p == q + 1
             r == 0
  <2>1. a \in Nat /\ p \in Nat /\ r \in 0 .. Page - 1 /\ a = Page * p + r  BY <1>1, <1>2, <1>3
  <2> HIDE DEF a, p, r
  <2>2. a \div Page = p /\ a % Page = r  BY <2>1, <1>1, Division
  <2> QED  BY <2>2 DEF a, p, r
<1> QED  BY <1>2, <1>4

\* A whole number of pages that is not zero, and one page less.
LEMMA PageBefore ==
    ASSUME NEW f \in Nat, f % Page = 0, f >= Page
    PROVE  /\ (f - Page) % Page = 0 /\ (f - Page) \div Page \in Nat
           /\ f \div Page = ((f - Page) \div Page) + 1
<1> DEFINE q == f \div Page
           e == f - Page
           r == q - 1
           z == 0
<1>1. Page \in Nat \ {0}  BY PageNat
<1>2. q \in Nat /\ f = Page * q /\ e = f - Page  BY <1>1, Divided
<1> HIDE DEF q, e
<1>3. q # 0
  <2>1. q = 0 => f = 0  BY <1>1, <1>2
  <2> QED  BY <2>1, <1>1
<1>4. Page * (q - 1) = Page * q - Page  BY <1>1, <1>2
<1>5. e \in Nat /\ r \in Nat /\ z \in 0 .. Page - 1 /\ e = Page * r + z
  BY <1>1, <1>2, <1>3, <1>4
<1>6. q = r + 1  BY <1>2
<1> HIDE DEF r, z
<1>7. e \div Page = r /\ e % Page = z  BY <1>1, <1>5, Division
<1>8. e % Page = 0 /\ e \div Page \in Nat /\ q = (e \div Page) + 1
  BY <1>5, <1>6, <1>7 DEF z
<1> QED  BY <1>8 DEF q, e

\* A byte below a whole number of pages is in one of those pages.
LEMMA BelowPages ==
    ASSUME NEW f \in Nat, f % Page = 0, NEW n \in 1 .. f
    PROVE  (n - 1) \div Page \in 0 .. (f \div Page) - 1
<1> DEFINE q == f \div Page
           k == (n - 1) \div Page
<1>1. Page \in Nat \ {0}  BY PageNat
<1>2. q \in Nat /\ f = Page * q  BY <1>1, Divided
<1>3. n - 1 \in Nat  OBVIOUS
<1>4. k \in Nat /\ (n - 1) % Page \in 0 .. Page - 1 /\ n - 1 = Page * k + ((n - 1) % Page)
  BY <1>1, <1>3, Divided
<1>5. k < q
  <2> SUFFICES ASSUME k >= q PROVE FALSE  BY <1>2, <1>4
  <2> DEFINE m == (n - 1) % Page
  <2>1. m \in Nat /\ n - 1 = Page * k + m /\ n - 1 < f BY <1>4
  <2> HIDE DEF q, k, m
  <2>2. Page * k >= Page * q  BY <1>1, <1>2, <1>4
  <2> QED  BY <2>1, <2>2, <1>1, <1>2, <1>4
<1>6. k \in 0 .. q - 1
  <2> HIDE DEF q, k
  <2> QED  BY <1>2, <1>4, <1>5
<1> QED  BY <1>6

\* The bytes of the next page, at their place in it.
LEMMA InPage ==
    ASSUME NEW f \in Nat, f % Page = 0, NEW n \in f + 1 .. f + Page
    PROVE  (n - 1) \div Page = f \div Page /\ (n - 1) % Page = n - 1 - f
<1> DEFINE q == f \div Page
<1>1. Page \in Nat \ {0}  BY PageNat
<1>2. q \in Nat /\ f = Page * q  BY <1>1, Divided
<1>3. n - 1 \in Nat /\ n - 1 - f \in 0 .. Page - 1 /\ n - 1 = Page * q + (n - 1 - f)
  <2> HIDE DEF q
  <2> QED BY <1>1, <1>2
<1> HIDE DEF q
<1>4. (n - 1) \div Page = q /\ (n - 1) % Page = n - 1 - f
  <2> DEFINE a == n - 1
             r == n - 1 - f
  <2>1. a \in Nat /\ r \in 0 .. Page - 1 /\ a = Page * q + r  BY <1>3
  <2> HIDE DEF a, r
  <2>2. a \div Page = q /\ a % Page = r  BY <2>1, <1>1, <1>2, Division
  <2> QED  BY <2>2 DEF a, r
<1> QED  BY <1>4 DEF q

\* What is not longer has no more whole pages.
LEMMA PagesWithin ==
    ASSUME NEW a \in Nat, NEW b \in Nat, a <= b
    PROVE  a \div Page \in 0 .. b \div Page
<1> DEFINE p == a \div Page
           q == b \div Page
<1>1. Page \in Nat \ {0}  BY PageNat
<1>2. /\ p \in Nat /\ a % Page \in 0 .. Page - 1 /\ a = Page * p + (a % Page)
      /\ q \in Nat /\ b % Page \in 0 .. Page - 1 /\ b = Page * q + (b % Page)
  BY <1>1, Divided
<1>3. p <= q
  <2> DEFINE x == a % Page
             y == b % Page
  <2> SUFFICES ASSUME q + 1 <= p PROVE FALSE  BY <1>2
  <2>1. x \in 0 .. Page - 1 /\ y \in 0 .. Page - 1 /\ a = Page * p + x /\ b = Page * q + y  BY <1>2
  <2> HIDE DEF p, q, x, y
  <2>2. Page * p >= Page * (q + 1)  BY <1>1, <1>2
  <2>3. Page * (q + 1) = Page * q + Page  BY <1>1, <1>2
  <2> QED  BY <2>1, <2>2, <2>3, <1>1, <1>2
<1> QED  BY <1>2, <1>3

-----------------------------------------------------------------------------
(* Sequences.                                                              *)

\* A payload of whole pages and of the tail that follows them: what a slot
\* describes.
Ends(payload, flushed, tail) ==
    /\ Len(payload) = flushed + Len(tail)
    /\ \A n \in 1 .. Len(tail) : payload[flushed + n] = tail[n]

\* A payload is a finite sequence of samples.
LEMMA BytesLen ==
    ASSUME NEW s \in Bytes
    PROVE  Len(s) \in Nat /\ s \in Seq(Sample)
BY LenProperties DEF Bytes

\* Two payloads in a row: the samples of the one, then those of the other.
LEMMA BytesConcat ==
    ASSUME NEW s \in Bytes, NEW t \in Bytes
    PROVE  /\ s \o t \in Bytes /\ Len(s \o t) = Len(s) + Len(t)
           /\ \A n \in 1 .. Len(s) : (s \o t)[n] = s[n]
           /\ \A n \in 1 .. Len(t) : (s \o t)[Len(s) + n] = t[n]
<1>1. Len(s) \in Nat /\ Len(t) \in Nat /\ s \in Seq(Sample) /\ t \in Seq(Sample)
  BY BytesLen
<1>2. /\ s \o t \in Seq(Sample) /\ Len(s \o t) = Len(s) + Len(t)
      /\ \A i \in 1 .. Len(s) + Len(t) :
           (s \o t)[i] = IF i <= Len(s) THEN s[i] ELSE t[i - Len(s)]
  BY <1>1, ConcatProperties
<1>3. ASSUME NEW n \in 1 .. Len(s) PROVE (s \o t)[n] = s[n]
  <2>1. n \in 1 .. Len(s) + Len(t) /\ n <= Len(s)  BY <1>1
  <2> QED  BY <2>1, <1>2
<1>4. ASSUME NEW n \in 1 .. Len(t) PROVE (s \o t)[Len(s) + n] = t[n]
  <2> DEFINE i == Len(s) + n
  <2>1. i \in 1 .. Len(s) + Len(t) /\ ~(i <= Len(s)) /\ i - Len(s) = n  BY <1>1
  <2>2. (s \o t)[i] = t[i - Len(s)]  BY <2>1, <1>2
  <2> QED  BY <2>1, <2>2
<1> QED  BY <1>2, <1>3, <1>4 DEF Bytes

\* Nothing is a payload.
LEMMA EmptyBytes == <<>> \in Bytes /\ Len(<<>>) = 0
BY EmptySeq DEF Bytes

\* A part of a payload, sample by sample.
LEMMA BytesSub ==
    ASSUME NEW s \in Bytes, NEW m \in Nat \ {0}, NEW n \in 0 .. Len(s), m <= n + 1
    PROVE  /\ SubSeq(s, m, n) \in Bytes /\ Len(SubSeq(s, m, n)) = n - m + 1
           /\ \A i \in 1 .. n - m + 1 : SubSeq(s, m, n)[i] = s[m + i - 1]
<1>1. Len(s) \in Nat /\ s \in Seq(Sample)  BY BytesLen
<1>2. \A i \in m .. n : s[i] \in Sample
  <2> TAKE i \in m .. n
  <2>1. i \in 1 .. Len(s)  BY <1>1
  <2> QED  BY <2>1, <1>1, ElementOfSeq
<1>3. m \in Int /\ n \in Int  BY <1>1
<1>4. /\ SubSeq(s, m, n) \in Seq(Sample)
      /\ Len(SubSeq(s, m, n)) = IF m <= n THEN n - m + 1 ELSE 0
      /\ \A i \in 1 .. n - m + 1 : SubSeq(s, m, n)[i] = s[m + i - 1]
  BY <1>2, <1>3, SubSeqProperties
<1>5. Len(SubSeq(s, m, n)) = n - m + 1  BY <1>3, <1>4
<1> QED  BY <1>4, <1>5 DEF Bytes

\* Payloads with the same samples are the same.
LEMMA BytesEqual ==
    ASSUME NEW s \in Bytes, NEW t \in Bytes, Len(s) = Len(t),
           \A n \in 1 .. Len(s) : s[n] = t[n]
    PROVE  s = t
BY SeqEqual DEF Bytes

\* A prefix has the samples of the whole, as far as it goes.
LEMMA PrefixIs ==
    ASSUME NEW a \in Bytes, NEW p \in Bytes
    PROVE  IsPrefix(a, p) <=> Len(a) <= Len(p) /\ \A n \in 1 .. Len(a) : a[n] = p[n]
<1>1. Len(a) \in Nat /\ Len(p) \in Nat  BY BytesLen
<1>2. CASE Len(a) <= Len(p)
  <2>1. 1 \in Nat \ {0} /\ Len(a) \in 0 .. Len(a) /\ Len(a) \in 0 .. Len(p) /\ 1 <= Len(a) + 1
        /\ Len(a) - 1 + 1 = Len(a)
    BY <1>1, <1>2
  <2>2. /\ SubSeq(a, 1, Len(a)) \in Bytes /\ Len(SubSeq(a, 1, Len(a))) = Len(a)
        /\ \A n \in 1 .. Len(a) : SubSeq(a, 1, Len(a))[n] = a[1 + n - 1]
    BY <2>1, BytesSub
  <2>3. /\ SubSeq(p, 1, Len(a)) \in Bytes /\ Len(SubSeq(p, 1, Len(a))) = Len(a)
        /\ \A n \in 1 .. Len(a) : SubSeq(p, 1, Len(a))[n] = p[1 + n - 1]
    BY <2>1, BytesSub
  <2>4. \A n \in 1 .. Len(a) : 1 + n - 1 = n  BY <1>1
  <2>5. SubSeq(a, 1, Len(a)) = SubSeq(p, 1, Len(a)) <=> \A n \in 1 .. Len(a) : a[n] = p[n]
    BY <2>2, <2>3, <2>4, BytesEqual
  <2> QED  BY <2>5, <1>2 DEF IsPrefix
<1>3. CASE ~(Len(a) <= Len(p))  BY <1>3 DEF IsPrefix
<1> QED  BY <1>2, <1>3

\* What a payload started with, it still starts with when it grows.
LEMMA PrefixConcat ==
    ASSUME NEW a \in Bytes, NEW p \in Bytes, NEW x \in Bytes, IsPrefix(a, p)
    PROVE  IsPrefix(a, p \o x)
<1>1. Len(a) \in Nat /\ Len(p) \in Nat /\ Len(x) \in Nat  BY BytesLen
<1>2. p \o x \in Bytes /\ Len(p \o x) = Len(p) + Len(x)
      /\ \A n \in 1 .. Len(p) : (p \o x)[n] = p[n]
  BY BytesConcat
<1>3. Len(a) <= Len(p) /\ \A n \in 1 .. Len(a) : a[n] = p[n]  BY PrefixIs
<1>4. \A n \in 1 .. Len(a) : n \in 1 .. Len(p)  BY <1>1, <1>3
<1>5. Len(a) <= Len(p \o x) /\ \A n \in 1 .. Len(a) : a[n] = (p \o x)[n]
  BY <1>1, <1>2, <1>3, <1>4
<1> QED  BY <1>2, <1>5, PrefixIs

\* A payload starts with itself.
LEMMA PrefixSelf ==
    ASSUME NEW p \in Bytes
    PROVE  IsPrefix(p, p)
<1>1. Len(p) \in Nat  BY BytesLen
<1> QED  BY <1>1, PrefixIs

\* Nothing starts with nothing else.
LEMMA PrefixOfNothing ==
    ASSUME NEW a \in Bytes, IsPrefix(a, <<>>)
    PROVE  a = <<>>
<1>1. Len(a) <= 0 /\ Len(a) \in Nat  BY EmptyBytes, PrefixIs, BytesLen
<1>2. a \in Seq(Sample)  BY BytesLen
<1> QED  BY <1>1, <1>2, EmptySeq

\* A checkpoint extends the tail and the payload by the same bytes.
LEMMA EndsConcat ==
    ASSUME NEW p \in Bytes, NEW f \in Nat, NEW t \in Bytes, NEW x \in Bytes, Ends(p, f, t)
    PROVE  Ends(p \o x, f, t \o x)
<1>1. Len(p) \in Nat /\ Len(t) \in Nat /\ Len(x) \in Nat /\ Len(p) = f + Len(t)
  BY BytesLen DEF Ends
<1>2. /\ Len(p \o x) = Len(p) + Len(x)
      /\ \A n \in 1 .. Len(p) : (p \o x)[n] = p[n]
      /\ \A n \in 1 .. Len(x) : (p \o x)[Len(p) + n] = x[n]
  BY BytesConcat
<1>3. /\ Len(t \o x) = Len(t) + Len(x)
      /\ \A n \in 1 .. Len(t) : (t \o x)[n] = t[n]
      /\ \A n \in 1 .. Len(x) : (t \o x)[Len(t) + n] = x[n]
  BY BytesConcat
<1>4. ASSUME NEW n \in 1 .. Len(t) + Len(x) PROVE (p \o x)[f + n] = (t \o x)[n]
  <2>1. CASE n <= Len(t)
    <3>1. n \in 1 .. Len(t) /\ f + n \in 1 .. Len(p)  BY <1>1, <2>1
    <3> QED  BY <3>1, <1>2, <1>3 DEF Ends
  <2>2. CASE n > Len(t)
    <3> DEFINE m == n - Len(t)
    <3>1. m \in 1 .. Len(x) /\ n = Len(t) + m /\ f + n = Len(p) + m  BY <1>1, <2>2
    <3> QED  BY <3>1, <1>2, <1>3
  <2> QED  BY <2>1, <2>2, <1>1
<1>5. Len(p \o x) = f + Len(t \o x)  BY <1>1, <1>2, <1>3
<1> QED  BY <1>3, <1>4, <1>5 DEF Ends

\* One that fills the page cuts it there.
Cuts(p, f, t, x, into, spill) ==
    /\ into \in Bytes /\ spill \in Bytes
    /\ Len(t \o into) = Page /\ Len(spill) < Page
    /\ Ends(p \o into, f, t \o into)
    /\ Ends(p \o x, f + Page, spill)
    /\ \A n \in 1 .. Page : (t \o into)[n] = (p \o x)[f + n]

\* Cut this way, both slots describe what they should: the proof the payload as far
\* as the page goes, the logical slot the whole payload.
LEMMA EndsRollover ==
    ASSUME NEW p \in Bytes, NEW f \in Nat, NEW t \in Bytes, NEW x \in Bytes, Ends(p, f, t),
           Len(t) < Page, Len(x) <= Page, Len(t) + Len(x) >= Page,
           NEW into, into = SubSeq(x, 1, Page - Len(t)),
           NEW spill, spill = SubSeq(x, Page - Len(t) + 1, Len(x))
    PROVE  Cuts(p, f, t, x, into, spill)
<1> DEFINE c == Page - Len(t)
<1>1. /\ Len(p) \in Nat /\ Len(t) \in Nat /\ Len(x) \in Nat /\ Len(p) = f + Len(t)
      /\ Page \in Nat
  BY BytesLen, PageNat DEF Ends
<1>2. c \in 1 .. Len(x) /\ c + 1 \in Nat \ {0} /\ 1 \in Nat \ {0} /\ c \in 0 .. Len(x)
      /\ Len(x) \in 0 .. Len(x) /\ 1 <= c + 1 /\ c + 1 <= Len(x) + 1 /\ c - 1 + 1 = c
      /\ Len(x) - (c + 1) + 1 = Len(x) - c
  BY <1>1
<1> HIDE DEF c
<1>a. into = SubSeq(x, 1, c) /\ spill = SubSeq(x, c + 1, Len(x))  BY DEF c
<1>b. c = Page - Len(t)  BY DEF c
<1>3. /\ into \in Bytes /\ Len(into) = c
      /\ \A i \in 1 .. c : into[i] = x[1 + i - 1]
  <2>1. /\ SubSeq(x, 1, c) \in Bytes /\ Len(SubSeq(x, 1, c)) = c - 1 + 1
        /\ \A i \in 1 .. c - 1 + 1 : SubSeq(x, 1, c)[i] = x[1 + i - 1]
    BY <1>2, BytesSub
  <2> QED  BY <2>1, <1>2, <1>a
<1>4. /\ spill \in Bytes /\ Len(spill) = Len(x) - c
      /\ \A i \in 1 .. Len(x) - c : spill[i] = x[(c + 1) + i - 1]
  <2> DEFINE m == c + 1
  <2>1. m \in Nat \ {0} /\ m <= Len(x) + 1 /\ Len(x) \in 0 .. Len(x) /\ Len(x) - m + 1 = Len(x) - c
    BY <1>2
  <2> HIDE DEF m
  <2>2. /\ SubSeq(x, m, Len(x)) \in Bytes /\ Len(SubSeq(x, m, Len(x))) = Len(x) - m + 1
        /\ \A i \in 1 .. Len(x) - m + 1 : SubSeq(x, m, Len(x))[i] = x[m + i - 1]
    BY <2>1, BytesSub
  <2>3. m = c + 1  BY DEF m
  <2> QED  BY <2>1, <2>2, <2>3, <1>a
<1>5. Ends(p \o into, f, t \o into)  BY <1>3, EndsConcat
<1>6. Ends(p \o x, f, t \o x)  BY EndsConcat
<1>7. /\ Len(p \o x) = Len(p) + Len(x)
      /\ \A n \in 1 .. Len(x) : (p \o x)[Len(p) + n] = x[n]
  BY BytesConcat
<1>8. /\ Len(t \o into) = Len(t) + Len(into)
      /\ \A n \in 1 .. Len(t) : (t \o into)[n] = t[n]
      /\ \A n \in 1 .. Len(into) : (t \o into)[Len(t) + n] = into[n]
  BY <1>3, BytesConcat
<1>9. /\ Len(t \o x) = Len(t) + Len(x)
      /\ \A n \in 1 .. Len(t) : (t \o x)[n] = t[n]
      /\ \A n \in 1 .. Len(x) : (t \o x)[Len(t) + n] = x[n]
  BY BytesConcat
<1>10. Len(t \o into) = Page  BY <1>8, <1>3, <1>b, <1>1, <1>2
<1>11. Len(spill) < Page  BY <1>4, <1>b, <1>1, <1>2
<1>12. ASSUME NEW n \in 1 .. Page PROVE (t \o into)[n] = (p \o x)[f + n]
  <2>1. n \in 1 .. Len(t) + Len(x)  BY <1>1
  <2>2. (p \o x)[f + n] = (t \o x)[n]  BY <2>1, <1>6, <1>9 DEF Ends
  <2>3. (t \o into)[n] = (t \o x)[n]
    <3>1. CASE n <= Len(t)
      <4>1. n \in 1 .. Len(t)  BY <3>1, <1>1
      <4> QED  BY <4>1, <1>8, <1>9
    <3>2. CASE n > Len(t)
      <4> DEFINE m == n - Len(t)
      <4>1. m \in 1 .. c /\ m \in 1 .. Len(x) /\ n = Len(t) + m /\ 1 + m - 1 = m
        BY <3>2, <1>1, <1>b, <1>2
      <4>2. m \in 1 .. Len(into)  BY <4>1, <1>3
      <4> HIDE DEF m
      <4>3. (t \o into)[Len(t) + m] = into[m] /\ (t \o x)[Len(t) + m] = x[m] /\ into[m] = x[m]
        BY <4>1, <4>2, <1>8, <1>9, <1>3
      <4> QED  BY <4>1, <4>3
    <3> QED  BY <3>1, <3>2, <1>1
  <2> QED  BY <2>2, <2>3
<1>13. Ends(p \o x, f + Page, spill)
  <2>1. Len(p \o x) = f + Page + Len(spill)
    <3>1. Len(p) + Len(x) = f + Page + (Len(x) - c)  BY <1>b, <1>1, <1>2
    <3>2. Len(p \o x) = Len(p) + Len(x) /\ Len(spill) = Len(x) - c  BY <1>7, <1>4
    <3> QED  BY <3>1, <3>2
  <2>2. ASSUME NEW n \in 1 .. Len(spill) PROVE (p \o x)[f + Page + n] = spill[n]
    <3> DEFINE m == c + n
    <3>1. m \in 1 .. Len(x) /\ f + Page + n = Len(p) + m /\ (c + 1) + n - 1 = m /\ n \in 1 .. Len(x) - c
      BY <1>1, <1>2, <1>b, <1>4
    <3> QED  BY <3>1, <1>7, <1>4
  <2> QED  BY <2>1, <2>2 DEF Ends
<1> QED  BY <1>3, <1>4, <1>5, <1>10, <1>11, <1>12, <1>13 DEF Cuts

-----------------------------------------------------------------------------
(* What the store keeps whatever fails.                                    *)

\* The states of the writer that owe the store a checkpoint.
Outstanding == {"pending", "repair", "closing"}
\* All states of the writer.
States      == Outstanding \cup {"live", "publish", "discard", "idle"}

\* The commands of a checkpoint within the page.
Plain   == {"tail", "head"}
\* The commands of a checkpoint that fills the page, up to the second gate.
Rolling == {"proof_tail", "proof_head", "logical_tail", "logical_head"}
\* All places of the store.
Stages  == Plain \cup Rolling \cup
           {"idle", "repair", "flush", "commit", "ended", "mount", "repairing",
            "recover", "unreadable"}

\* The types, without the bounds that only hold while the content does.
TypesOK ==
    /\ heads \in [Ring -> HeaderType \cup {None}]
    /\ tails \in [Ring -> Bytes \cup {Torn}]
    /\ pages \in [0 .. Reserve \div Page -> Bytes \cup {Torn}]
    /\ ride \in RideType \cup {None}
    /\ writer \in [state : States, append : Bytes, crc : Bytes]
    /\ pc \in Stages
    /\ acked \in Bytes
    /\ boots \in 0 .. MaxBoots /\ refused \in BOOLEAN /\ idles \in 0 .. MaxIdle

\* The shape of a header: it is in its slot, a proof holds exactly one page, and a
\* logical slot describes its payload and names, if any, the proof just before it.
HeaderOK(i, h) ==
    /\ h.sequence >= 1 /\ SlotOf(h.sequence) = i
    /\ h.flushed % Page = 0
    /\ Ends(h.payload, h.flushed, h.tail)
    /\ h.proof => Len(h.tail) = Page /\ h.proof_sequence = 0
    /\ ~h.proof =>
         /\ Len(h.tail) < Page
         /\ h.proof_sequence # 0 =>
              h.sequence = h.proof_sequence + 1 /\ h.flushed >= Page

\* Every header that decodes has that shape, the remains of attempts that failed
\* included.
HeadersOK == \A i \in Ring : heads[i] # None => HeaderOK(i, heads[i])

\* The slot the ride continues from.
Source == SlotOf(ride.next_sequence - 1)

\* The mounted ride is the one of its source slot, which is on the card intact;
\* while the copy of a page is owed, the source names the proof.
RideOK ==
    ride # None =>
        /\ Len(ride.tail) < Page
        /\ ride.flushed % Page = 0
        /\ Ends(ride.payload, ride.flushed, ride.tail)
        /\ ride.pending_proof # 0 =>
              /\ ride.next_sequence = ride.pending_proof + 2
              /\ ride.flushed >= Page
              /\ heads[Source].proof_sequence = ride.pending_proof
        /\ current_ride_slot /\ SourceIntact

\* The headers of the checkpoint that is outstanding.
Ordinary ==
    Header(ride.next_sequence, ride.flushed, ride.tail \o writer.append,
           writer.crc, FALSE, 0)
\* The proof header of one that fills it.
ProofPart ==
    Header(ride.next_sequence, ride.flushed, ride.tail \o IntoPage,
           ride.payload \o IntoPage, TRUE, 0)
\* And its logical header.
LogicalPart ==
    Header(ride.next_sequence + 1, ride.flushed + Page, Spill,
           writer.crc, FALSE, ride.next_sequence)

\* The place of the store fits the writer and the ride: which command is under way,
\* whose append it carries, and what it has already written.
StageOK ==
    /\ (ride = None) <=> (pc \in {"ended", "mount", "unreadable"})
    /\ writer.state = "idle" <=>
         pc \in {"ended", "mount", "unreadable", "repairing", "recover"}
    /\ pc \in Plain \cup Rolling \cup {"repair"} => writer.state \in Outstanding
    /\ pc \in Plain \cup Rolling \cup {"recover", "flush", "commit"} =>
         ride.pending_proof = 0
    /\ pc \in {"repair", "repairing"} => ride.pending_proof # 0
    /\ pc \in {"flush", "commit"} => writer.state = "publish"
    /\ pc \in Plain => Len(ride.tail) + Len(writer.append) < Page
    /\ pc \in Rolling => Len(ride.tail) + Len(writer.append) >= Page
    /\ pc = "head" => tails[SlotOf(ride.next_sequence)] = Ordinary.tail
    /\ pc = "proof_head" => tails[SlotOf(ride.next_sequence)] = ProofPart.tail
    /\ pc = "logical_head" => tails[SlotOf(ride.next_sequence + 1)] = LogicalPart.tail

\* The running CRC of the writer continues the CRC of the store by exactly the bytes
\* that are not yet acknowledged.
ContinuesOK ==
    /\ Len(writer.append) <= Delta
    /\ writer.state # "idle" =>
         /\ ride.pending_proof = 0 => writer.crc = ride.payload \o writer.append
         /\ ride.pending_proof # 0 =>
              /\ writer.crc = ride.payload
              /\ writer.append = ride.pending_append
              /\ writer.state \in Outstanding \cup {"discard"}
         /\ writer.state = "live" => Len(writer.append) + 1 <= Delta
         /\ writer.state = "publish" => writer.append = <<>>

\* The inductive invariant of the journal that holds whatever fails.
StoreOK == TypesOK /\ HeadersOK /\ RideOK /\ StageOK /\ ContinuesOK

-----------------------------------------------------------------------------
\* A header has the fields it was built with.
LEMMA HeaderFields ==
    ASSUME NEW s \in Nat, NEW f \in Nat, NEW t \in Bytes, NEW p \in Bytes,
           NEW b \in BOOLEAN, NEW q \in Nat
    PROVE  /\ Header(s, f, t, p, b, q) \in HeaderType
           /\ Header(s, f, t, p, b, q).sequence = s
           /\ Header(s, f, t, p, b, q).flushed = f
           /\ Header(s, f, t, p, b, q).tail = t
           /\ Header(s, f, t, p, b, q).payload = p
           /\ Header(s, f, t, p, b, q).proof = b
           /\ Header(s, f, t, p, b, q).proof_sequence = q
BY DEF Header, HeaderType

\* A header that decodes is not the absent one.
LEMMA NotNone == \A h \in HeaderType : h # None
BY NoneAssumption

\* The fields of a ride that is mounted.
LEMMA RideFields ==
    ASSUME ride \in RideType
    PROVE  /\ ride # None
           /\ ride.flushed \in Nat /\ ride.next_sequence \in Nat /\ ride.next_sequence >= 1
           /\ ride.tail \in Bytes /\ ride.payload \in Bytes
           /\ ride.pending_proof \in Nat /\ ride.pending_append \in Bytes
           /\ ride.next_sequence + 1 \in Nat
           /\ Len(ride.tail) \in Nat /\ Len(ride.payload) \in Nat
<1>1. ride.tail \in Bytes /\ ride.payload \in Bytes  BY DEF RideType
<1>2. Len(ride.tail) \in Nat /\ Len(ride.payload) \in Nat  BY <1>1, BytesLen
<1> QED  BY <1>1, <1>2, NoneAssumption DEF RideType

\* The two slots that the next checkpoint may write, and the source, which is
\* neither.
LEMMA RideSlots ==
    ASSUME ride \in RideType
    PROVE  /\ SlotOf(ride.next_sequence) \in Ring /\ SlotOf(ride.next_sequence + 1) \in Ring
           /\ SlotOf(ride.next_sequence) # SlotOf(ride.next_sequence + 1)
           /\ SlotOf(ride.pending_proof) \in Ring
           /\ ride.next_sequence > 1 =>
                /\ Source \in Ring
                /\ Source # SlotOf(ride.next_sequence)
                /\ Source # SlotOf(ride.next_sequence + 1)
<1> DEFINE m == ride.next_sequence
<1>1. m \in Nat /\ m + 1 \in Nat /\ m >= 1 /\ m - 1 \in Nat /\ ride.pending_proof \in Nat
  BY RideFields
<1>2. m < m + 1 /\ m + 1 < m + Slots /\ m - 1 < m /\ m < m - 1 + Slots
      /\ m - 1 < m + 1 /\ m + 1 < m - 1 + Slots
  BY <1>1, PageNat
<1> HIDE DEF m
<1>3. SlotOf(m) \in Ring /\ SlotOf(m + 1) \in Ring /\ SlotOf(m - 1) \in Ring
  BY <1>1, RingSlot
<1>4. SlotOf(m) # SlotOf(m + 1)  BY <1>1, <1>2, RingDistinct
<1>5. SlotOf(m - 1) # SlotOf(m)  BY <1>1, <1>2, RingDistinct
<1>6. SlotOf(m - 1) # SlotOf(m + 1)  BY <1>1, <1>2, RingDistinct
<1>7. SlotOf(ride.pending_proof) \in Ring  BY <1>1, RingSlot
<1> QED  BY <1>3, <1>4, <1>5, <1>6, <1>7 DEF m, Source

\* The fields of the recorder's writer.
LEMMA WriterFields ==
    ASSUME TypesOK
    PROVE  /\ writer.append \in Bytes /\ writer.crc \in Bytes /\ writer.state \in States
           /\ Len(writer.append) \in Nat /\ Len(writer.crc) \in Nat
<1>1. writer.append \in Bytes /\ writer.crc \in Bytes /\ writer.state \in States
  BY DEF TypesOK
<1> QED  BY <1>1, BytesLen

\* The header an ordinary checkpoint writes.
LEMMA OrdinaryOK ==
    ASSUME TypesOK, RideOK, ContinuesOK, ride # None, writer.state # "idle",
           ride.pending_proof = 0, Len(ride.tail) + Len(writer.append) < Page
    PROVE  /\ Ordinary \in HeaderType
           /\ Ordinary.sequence = ride.next_sequence /\ Ordinary.flushed = ride.flushed
           /\ Ordinary.tail = ride.tail \o writer.append /\ Ordinary.tail \in Bytes
           /\ Ordinary.payload = writer.crc /\ ~Ordinary.proof
           /\ Ordinary.proof_sequence = 0
           /\ HeaderOK(SlotOf(ride.next_sequence), Ordinary)
<1>1. ride \in RideType  BY DEF TypesOK
<1>2. /\ ride.flushed \in Nat /\ ride.next_sequence \in Nat /\ ride.next_sequence >= 1
      /\ ride.tail \in Bytes /\ ride.payload \in Bytes
  BY <1>1, RideFields
<1>3. writer.append \in Bytes /\ writer.crc \in Bytes  BY WriterFields
<1>4. ride.tail \o writer.append \in Bytes
      /\ Len(ride.tail \o writer.append) = Len(ride.tail) + Len(writer.append)
  BY <1>2, <1>3, BytesConcat
<1>5. writer.crc = ride.payload \o writer.append  BY DEF ContinuesOK
<1>6. Ends(writer.crc, ride.flushed, ride.tail \o writer.append)
  BY <1>2, <1>3, <1>5, EndsConcat DEF RideOK
<1>7. /\ Ordinary \in HeaderType
      /\ Ordinary.sequence = ride.next_sequence /\ Ordinary.flushed = ride.flushed
      /\ Ordinary.tail = ride.tail \o writer.append /\ Ordinary.payload = writer.crc
      /\ Ordinary.proof = FALSE /\ Ordinary.proof_sequence = 0
  BY <1>2, <1>3, <1>4 DEF Ordinary, Header, HeaderType
<1>8. HeaderOK(SlotOf(ride.next_sequence), Ordinary)
  BY <1>2, <1>4, <1>6, <1>7 DEF HeaderOK, RideOK
<1> QED  BY <1>4, <1>7, <1>8

\* The two headers of one that fills the page.
LEMMA RolloverOK ==
    ASSUME TypesOK, RideOK, ContinuesOK, ride # None, writer.state # "idle",
           ride.pending_proof = 0, Len(ride.tail) + Len(writer.append) >= Page
    PROVE  /\ ProofPart \in HeaderType
           /\ ProofPart.sequence = ride.next_sequence /\ ProofPart.flushed = ride.flushed
           /\ ProofPart.tail \in Bytes /\ ProofPart.proof
           /\ HeaderOK(SlotOf(ride.next_sequence), ProofPart)
           /\ LogicalPart \in HeaderType
           /\ LogicalPart.sequence = ride.next_sequence + 1
           /\ LogicalPart.flushed = ride.flushed + Page
           /\ LogicalPart.tail = Spill /\ LogicalPart.tail \in Bytes
           /\ LogicalPart.payload = writer.crc /\ ~LogicalPart.proof
           /\ LogicalPart.proof_sequence = ride.next_sequence
           /\ HeaderOK(SlotOf(ride.next_sequence + 1), LogicalPart)
           /\ \A n \in 1 .. Page : ProofPart.tail[n] = writer.crc[ride.flushed + n]
<1>1. ride \in RideType  BY DEF TypesOK
<1>2. /\ ride.flushed \in Nat /\ ride.next_sequence \in Nat /\ ride.next_sequence >= 1
      /\ ride.tail \in Bytes /\ ride.payload \in Bytes /\ ride.next_sequence + 1 \in Nat
  BY <1>1, RideFields
<1>3. writer.append \in Bytes /\ writer.crc \in Bytes /\ Len(writer.append) \in Nat
  BY WriterFields
<1>4. writer.crc = ride.payload \o writer.append  BY DEF ContinuesOK
<1>5. Len(writer.append) <= Page
  BY <1>3, JournalAssumption DEF ContinuesOK
<1>6. /\ IntoPage \in Bytes /\ Spill \in Bytes
      /\ Len(ride.tail \o IntoPage) = Page /\ Len(Spill) < Page
      /\ Ends(ride.payload \o IntoPage, ride.flushed, ride.tail \o IntoPage)
      /\ Ends(ride.payload \o writer.append, ride.flushed + Page, Spill)
      /\ \A n \in 1 .. Page : (ride.tail \o IntoPage)[n] = (ride.payload \o writer.append)[ride.flushed + n]
  <2>1. Ends(ride.payload, ride.flushed, ride.tail) /\ Len(ride.tail) < Page  BY DEF RideOK
  <2>2. IntoPage = SubSeq(writer.append, 1, Page - Len(ride.tail))
        /\ Spill = SubSeq(writer.append, Page - Len(ride.tail) + 1, Len(writer.append))
    BY DEF IntoPage, Spill
  <2> DEFINE p == ride.payload
             f == ride.flushed
             t == ride.tail
             x == writer.append
             i == IntoPage
             l == Spill
  <2>3. /\ p \in Bytes /\ f \in Nat /\ t \in Bytes /\ x \in Bytes /\ Ends(p, f, t)
        /\ Len(t) < Page /\ Len(x) <= Page /\ Len(t) + Len(x) >= Page
        /\ i = SubSeq(x, 1, Page - Len(t)) /\ l = SubSeq(x, Page - Len(t) + 1, Len(x))
    BY <1>2, <1>3, <1>5, <2>1, <2>2
  <2> HIDE DEF p, f, t, x, i, l
  <2>4. Cuts(p, f, t, x, i, l)  BY <2>3, EndsRollover
  <2> QED  BY <2>4 DEF p, f, t, x, i, l, Cuts
<1>7. ride.tail \o IntoPage \in Bytes /\ ride.payload \o IntoPage \in Bytes
  BY <1>2, <1>6, BytesConcat
<1>8. (ride.flushed + Page) % Page = 0 /\ ride.flushed + Page \in Nat
      /\ ride.flushed + Page >= Page
  <2>1. ride.flushed % Page = 0  BY DEF RideOK
  <2>2. (ride.flushed + Page) % Page = 0  BY <1>2, <2>1, WholePages
  <2> QED  BY <1>2, <2>2, PageNat
<1>9. /\ ProofPart \in HeaderType
      /\ ProofPart.sequence = ride.next_sequence /\ ProofPart.flushed = ride.flushed
      /\ ProofPart.tail = ride.tail \o IntoPage /\ ProofPart.payload = ride.payload \o IntoPage
      /\ ProofPart.proof = TRUE /\ ProofPart.proof_sequence = 0
  BY <1>2, <1>7 DEF ProofPart, Header, HeaderType
<1>10. /\ LogicalPart \in HeaderType
       /\ LogicalPart.sequence = ride.next_sequence + 1
       /\ LogicalPart.flushed = ride.flushed + Page
       /\ LogicalPart.tail = Spill /\ LogicalPart.payload = writer.crc
       /\ LogicalPart.proof = FALSE /\ LogicalPart.proof_sequence = ride.next_sequence
  BY <1>2, <1>3, <1>6, <1>8 DEF LogicalPart, Header, HeaderType
<1>11. HeaderOK(SlotOf(ride.next_sequence), ProofPart)
  BY <1>2, <1>6, <1>9 DEF HeaderOK, RideOK
<1>12. HeaderOK(SlotOf(ride.next_sequence + 1), LogicalPart)
  BY <1>2, <1>4, <1>6, <1>8, <1>10 DEF HeaderOK
<1> QED  BY <1>4, <1>6, <1>7, <1>9, <1>10, <1>11, <1>12

\* Which header the call is writing, by its place.
LEMMA SlotWriteIs ==
    /\ pc \in Plain => SlotWrite = Ordinary
    /\ pc \in {"proof_tail", "proof_head"} => SlotWrite = ProofPart
    /\ pc \in {"logical_tail", "logical_head"} => SlotWrite = LogicalPart
BY DEF SlotWrite, Ordinary, ProofPart, LogicalPart, Plain

\* The header the store is writing, whichever it is.
LEMMA SlotWriteOK ==
    ASSUME TypesOK, RideOK, ContinuesOK, StageOK, pc \in Plain \cup Rolling
    PROVE  /\ ride \in RideType
           /\ SlotWrite \in HeaderType /\ SlotWrite.tail \in Bytes
           /\ SlotOf(SlotWrite.sequence) \in Ring
           /\ HeaderOK(SlotOf(SlotWrite.sequence), SlotWrite)
           /\ SlotWrite.sequence \in {ride.next_sequence, ride.next_sequence + 1}
<1>1. ride # None /\ ride.pending_proof = 0 /\ writer.state # "idle"
  BY DEF StageOK, Plain, Rolling, Outstanding
<1>2. ride \in RideType  BY <1>1 DEF TypesOK
<1>3. SlotOf(ride.next_sequence) \in Ring /\ SlotOf(ride.next_sequence + 1) \in Ring
  BY <1>2, RideSlots
<1>4. CASE pc \in Plain
  <2>1. SlotWrite = Ordinary  BY <1>4, SlotWriteIs
  <2>2. Len(ride.tail) + Len(writer.append) < Page  BY <1>4 DEF StageOK
  <2> QED  BY <2>1, <2>2, <1>1, <1>2, <1>3, OrdinaryOK
<1>5. CASE pc \in {"proof_tail", "proof_head"}
  <2>1. SlotWrite = ProofPart  BY <1>5, SlotWriteIs
  <2>2. Len(ride.tail) + Len(writer.append) >= Page  BY <1>5 DEF StageOK, Rolling
  <2> QED  BY <2>1, <2>2, <1>1, <1>2, <1>3, RolloverOK
<1>6. CASE pc \in {"logical_tail", "logical_head"}
  <2>1. SlotWrite = LogicalPart  BY <1>6, SlotWriteIs
  <2>2. Len(ride.tail) + Len(writer.append) >= Page  BY <1>6 DEF StageOK, Rolling
  <2> QED  BY <2>1, <2>2, <1>1, <1>2, <1>3, RolloverOK
<1> QED  BY <1>4, <1>5, <1>6 DEF Rolling

-----------------------------------------------------------------------------
(* What a card command leaves, finished or not.                            *)

\* A tail write, finished or not, leaves the other slots alone.
LEMMA TailWrite ==
    ASSUME TypesOK, RideOK, ContinuesOK, StageOK, pc \in Plain \cup Rolling,
           NEW ends \in BOOLEAN, WriteTail(ends)
    PROVE  /\ tails' \in [Ring -> Bytes \cup {Torn}]
           /\ \A j \in Ring : j # SlotOf(SlotWrite.sequence) => tails'[j] = tails[j]
           /\ ends => tails'[SlotOf(SlotWrite.sequence)] = SlotWrite.tail
<1> DEFINE i == SlotOf(SlotWrite.sequence)
           w == SlotWrite.tail
<1>1. i \in Ring /\ w \in Bytes  BY SlotWriteOK
<1>2. PICK left \in IF ends THEN {w} ELSE {tails[i], Torn, w} :
        tails' = [tails EXCEPT ![i] = left]
  BY DEF WriteTail
<1>3. tails \in [Ring -> Bytes \cup {Torn}]  BY DEF TypesOK
<1> HIDE DEF i, w
<1>4. left \in Bytes \cup {Torn} /\ (ends => left = w)  BY <1>1, <1>2, <1>3
<1>5. /\ tails' \in [Ring -> Bytes \cup {Torn}]
      /\ \A j \in Ring : j # i => tails'[j] = tails[j]
      /\ ends => tails'[i] = w
  BY <1>1, <1>2, <1>3, <1>4
<1> QED  BY <1>5 DEF i, w

\* So does a header write; it leaves the old header, none, or the new one.
LEMMA HeadWrite ==
    ASSUME TypesOK, RideOK, ContinuesOK, StageOK, pc \in Plain \cup Rolling,
           NEW ends \in BOOLEAN, WriteHead(ends)
    PROVE  /\ heads' \in [Ring -> HeaderType \cup {None}]
           /\ \A j \in Ring : j # SlotOf(SlotWrite.sequence) => heads'[j] = heads[j]
           /\ heads'[SlotOf(SlotWrite.sequence)]
                \in {heads[SlotOf(SlotWrite.sequence)], None, SlotWrite}
           /\ ends => heads'[SlotOf(SlotWrite.sequence)] = SlotWrite
<1> DEFINE i == SlotOf(SlotWrite.sequence)
           w == SlotWrite
<1>1. i \in Ring /\ w \in HeaderType  BY SlotWriteOK
<1>2. PICK left \in IF ends THEN {w} ELSE {heads[i], None, w} :
        heads' = [heads EXCEPT ![i] = left]
  BY DEF WriteHead
<1>3. heads \in [Ring -> HeaderType \cup {None}]  BY DEF TypesOK
<1> HIDE DEF i, w
<1>4. left \in HeaderType \cup {None} /\ left \in {heads[i], None, w} /\ (ends => left = w)
  BY <1>1, <1>2, <1>3
<1>5. /\ heads' \in [Ring -> HeaderType \cup {None}]
      /\ \A j \in Ring : j # i => heads'[j] = heads[j]
      /\ heads'[i] \in {heads[i], None, w}
      /\ ends => heads'[i] = w
  BY <1>1, <1>2, <1>3, <1>4
<1> QED  BY <1>5 DEF i, w

\* A page write leaves the other pages alone.
LEMMA PageWrite ==
    ASSUME TypesOK, NEW k, NEW bytes \in Bytes \cup {Torn},
           NEW ends \in BOOLEAN, WritePage(k, bytes, ends)
    PROVE  /\ pages' \in [0 .. Reserve \div Page -> Bytes \cup {Torn}]
           /\ \A j \in 0 .. Reserve \div Page : j # k => pages'[j] = pages[j]
           /\ ends /\ k \in 0 .. Reserve \div Page => pages'[k] = bytes
<1> DEFINE D == 0 .. Reserve \div Page
<1>1. PICK left \in IF ends THEN {bytes} ELSE {pages[k], Torn, bytes} :
        pages' = [pages EXCEPT ![k] = left]
  BY DEF WritePage
<1>2. pages \in [D -> Bytes \cup {Torn}]  BY DEF TypesOK
<1> HIDE DEF D
<1>3. CASE k \in D
  <2>1. left \in Bytes \cup {Torn} /\ (ends => left = bytes)  BY <1>1, <1>2, <1>3
  <2>2. /\ pages' \in [D -> Bytes \cup {Torn}]
        /\ \A j \in D : j # k => pages'[j] = pages[j]
        /\ ends => pages'[k] = bytes
    BY <1>1, <1>2, <1>3, <2>1
  <2> QED  BY <2>2 DEF D
<1>4. CASE k \notin D
  <2>1. pages' = pages  BY <1>1, <1>2, <1>4
  <2> QED  BY <2>1, <1>2, <1>4 DEF D
<1> QED  BY <1>3, <1>4

\* No header write, torn or whole, leaves a header of a wrong shape.
LEMMA HeadersKept ==
    ASSUME TypesOK, HeadersOK, RideOK, ContinuesOK, StageOK, pc \in Plain \cup Rolling,
           NEW ends \in BOOLEAN, WriteHead(ends)
    PROVE  HeadersOK'
<1> DEFINE i == SlotOf(SlotWrite.sequence)
<1>1. HeaderOK(i, SlotWrite)  BY SlotWriteOK
<1>2. /\ \A j \in Ring : j # i => heads'[j] = heads[j]
      /\ heads'[i] \in {heads[i], None, SlotWrite}
  BY HeadWrite
<1> HIDE DEF i
<1>3. ASSUME NEW j \in Ring, heads'[j] # None PROVE HeaderOK(j, heads'[j])
  <2>1. CASE heads'[j] = heads[j]
    BY <1>3, <2>1 DEF HeadersOK
  <2>2. CASE heads'[j] # heads[j]
    <3>1. j = i /\ heads'[j] = SlotWrite  BY <1>2, <1>3, <2>2
    <3> QED  BY <3>1, <1>1
  <2> QED  BY <2>1, <2>2
<1> QED  BY <1>3 DEF HeadersOK, HeaderOK, Ends, SlotOf

\* The slot being written is never the one the ride continues from.
LEMMA SlotsApart ==
    ASSUME TypesOK, RideOK, ContinuesOK, StageOK, pc \in Plain \cup Rolling
    PROVE  ride.next_sequence > 1 => Source \in Ring /\ Source # SlotOf(SlotWrite.sequence)
<1>1. ride \in RideType
      /\ SlotWrite.sequence \in {ride.next_sequence, ride.next_sequence + 1}
  BY SlotWriteOK
<1> QED  BY <1>1, RideSlots

\* A command under way disturbs neither the slot the ride continues from nor the
\* shape of any header.
LEMMA CommandUnderWay ==
    ASSUME StoreOK, ride # None, NEW ends \in BOOLEAN, InFlight(ends)
    PROVE  /\ heads' \in [Ring -> HeaderType \cup {None}]
           /\ tails' \in [Ring -> Bytes \cup {Torn}]
           /\ pages' \in [0 .. Reserve \div Page -> Bytes \cup {Torn}]
           /\ HeadersOK'
           /\ ride.next_sequence > 1 =>
                /\ heads'[Source] = heads[Source] /\ tails'[Source] = tails[Source]
<1> USE DEF StoreOK
<1>0. /\ heads \in [Ring -> HeaderType \cup {None}]
      /\ tails \in [Ring -> Bytes \cup {Torn}]
      /\ pages \in [0 .. Reserve \div Page -> Bytes \cup {Torn}]
      /\ ride \in RideType
  BY DEF TypesOK
<1>1. CASE /\ pc \in {"tail", "proof_tail", "logical_tail"}
           /\ WriteTail(ends)
           /\ UNCHANGED <<heads, pages>>
  <2>1. pc \in Plain \cup Rolling  BY <1>1 DEF Plain, Rolling
  <2>2. /\ tails' \in [Ring -> Bytes \cup {Torn}]
        /\ \A j \in Ring : j # SlotOf(SlotWrite.sequence) => tails'[j] = tails[j]
    BY <1>1, <2>1, TailWrite
  <2>3. ride.next_sequence > 1 => Source \in Ring /\ Source # SlotOf(SlotWrite.sequence)
    BY <2>1, SlotsApart
  <2>4. HeadersOK'  BY <1>1 DEF HeadersOK, HeaderOK, Ends, SlotOf
  <2> QED  BY <1>0, <1>1, <2>2, <2>3, <2>4
<1>2. CASE /\ pc \in {"head", "proof_head", "logical_head"}
           /\ WriteHead(ends)
           /\ UNCHANGED <<tails, pages>>
  <2>1. pc \in Plain \cup Rolling  BY <1>2 DEF Plain, Rolling
  <2>2. /\ heads' \in [Ring -> HeaderType \cup {None}]
        /\ \A j \in Ring : j # SlotOf(SlotWrite.sequence) => heads'[j] = heads[j]
    BY <1>2, <2>1, HeadWrite
  <2>3. ride.next_sequence > 1 => Source \in Ring /\ Source # SlotOf(SlotWrite.sequence)
    BY <2>1, SlotsApart
  <2>4. HeadersOK'  BY <1>2, <2>1, HeadersKept
  <2> QED  BY <1>0, <1>2, <2>2, <2>3, <2>4
<1>3. ASSUME NEW k, NEW bytes \in Bytes \cup {Torn}, WritePage(k, bytes, ends),
             UNCHANGED <<heads, tails>>
      PROVE  /\ heads' \in [Ring -> HeaderType \cup {None}]
             /\ tails' \in [Ring -> Bytes \cup {Torn}]
             /\ pages' \in [0 .. Reserve \div Page -> Bytes \cup {Torn}]
             /\ HeadersOK'
             /\ heads'[Source] = heads[Source] /\ tails'[Source] = tails[Source]
  <2>1. pages' \in [0 .. Reserve \div Page -> Bytes \cup {Torn}]  BY <1>3, PageWrite
  <2>2. HeadersOK'  BY <1>3 DEF HeadersOK, HeaderOK, Ends, SlotOf
  <2> QED  BY <1>0, <1>3, <2>1, <2>2
<1>4. CASE /\ pc \in {"repair", "repairing"}
           /\ WritePage(PendingPage, tails[PendingProof], ends)
           /\ UNCHANGED <<heads, tails>>
  <2>1. PendingProof \in Ring  BY <1>0, RideSlots DEF PendingProof
  <2>2. tails[PendingProof] \in Bytes \cup {Torn}  BY <2>1, <1>0
  <2> QED  BY <1>3, <1>4, <2>2
<1>5. CASE /\ pc = "flush"
           /\ WritePage(ride.flushed \div Page, ride.tail, ends)
           /\ UNCHANGED <<heads, tails>>
  <2>1. ride.tail \in Bytes \cup {Torn}  BY <1>0, RideFields
  <2> QED  BY <1>3, <1>5, <2>1
<1> QED  BY <1>1, <1>2, <1>4, <1>5 DEF InFlight

\* ... so the ride stays as it is.
LEMMA RideKept ==
    ASSUME StoreOK, ride' = ride,
           ride # None /\ ride.next_sequence > 1 =>
             heads'[Source] = heads[Source] /\ tails'[Source] = tails[Source]
    PROVE  RideOK'
<1> SUFFICES ASSUME ride # None PROVE RideOK'
  BY DEF RideOK
<1>1. ride \in RideType  BY DEF StoreOK, TypesOK
<1>2. Source' = Source  BY DEF Source, SlotOf
<1>3. ride.next_sequence \in Nat /\ ride.next_sequence >= 1 /\ ride.pending_proof \in Nat
  BY <1>1, RideFields
<1>4. CASE ride.next_sequence > 1
  <2>1. heads'[Source] = heads[Source] /\ tails'[Source] = tails[Source]  BY <1>4
  <2>2. current_ride_slot'
    BY <1>2, <1>4, <2>1 DEF StoreOK, RideOK, current_ride_slot, Source
  <2>3. SourceIntact'
    BY <1>2, <1>4, <2>1 DEF StoreOK, RideOK, SourceIntact, slot_intact, Source
  <2> QED  BY <1>2, <2>1, <2>2, <2>3 DEF StoreOK, RideOK, Ends
<1>5. CASE ride.next_sequence = 1
  <2>1. ride.pending_proof = 0  BY <1>3, <1>5 DEF StoreOK, RideOK
  <2>2. current_ride_slot' /\ SourceIntact'
    BY <1>5 DEF StoreOK, RideOK, current_ride_slot, SourceIntact
  <2> QED  BY <2>1, <2>2 DEF StoreOK, RideOK, Ends
<1> QED  BY <1>3, <1>4, <1>5

\* Without a card command, headers and ride stay as they are.
LEMMA NothingWritten ==
    ASSUME StoreOK, UNCHANGED <<media, ride>>
    PROVE  HeadersOK' /\ RideOK'
<1>1. HeadersOK'  BY DEF StoreOK, media, HeadersOK, HeaderOK, Ends, SlotOf
<1>2. RideOK'
  <2>1. ride' = ride /\ heads' = heads /\ tails' = tails  BY DEF media
  <2> QED  BY <2>1, RideKept
<1> QED  BY <1>1, <1>2

-----------------------------------------------------------------------------
(* The steps keep it: those of the recorder's writer.                      *)

\* One sample is a payload.
LEMMA SampleBytes ==
    ASSUME NEW x \in Sample
    PROVE  <<x>> \in Bytes /\ Len(<<x>>) = 1
BY DEF Bytes

\* What append and finish add are samples.
LEMMA BootIsSample ==
    ASSUME TypesOK
    PROVE  boots \in Sample /\ Footer \in Sample
BY DEF TypesOK, Sample

\* A sample or the footer joins the append and the running CRC alike.
LEMMA Joined ==
    ASSUME StoreOK, pc = "idle", writer.state = "live", NEW x \in Sample
    PROVE  /\ writer.append \o <<x>> \in Bytes /\ writer.crc \o <<x>> \in Bytes
           /\ Len(writer.append \o <<x>>) = Len(writer.append) + 1
           /\ Len(writer.crc \o <<x>>) = Len(writer.crc) + 1
           /\ ride.pending_proof = 0
           /\ writer.crc \o <<x>> = ride.payload \o (writer.append \o <<x>>)
<1>1. writer.append \in Bytes /\ writer.crc \in Bytes  BY WriterFields DEF StoreOK
<1>2. <<x>> \in Bytes /\ Len(<<x>>) = 1  BY SampleBytes
<1>3. ride # None  BY DEF StoreOK, StageOK
<1>4. ride.payload \in Bytes /\ ride.pending_proof \in Nat
  BY <1>3, RideFields DEF StoreOK, TypesOK
<1>5. ride.pending_proof = 0  BY DEF StoreOK, ContinuesOK, Outstanding
<1>6. writer.crc = ride.payload \o writer.append  BY <1>5 DEF StoreOK, ContinuesOK
<1>7. (ride.payload \o writer.append) \o <<x>> = ride.payload \o (writer.append \o <<x>>)
  <2> DEFINE y == <<x>>
             p == ride.payload
             a == writer.append
  <2>1. y \in Seq(Sample) /\ p \in Seq(Sample) /\ a \in Seq(Sample)  BY <1>1, <1>2, <1>4, BytesLen
  <2> HIDE DEF y, p, a
  <2>2. (p \o a) \o y = p \o (a \o y)  BY <2>1, ConcatAssociative
  <2> QED  BY <2>2 DEF y, p, a
<1>8. /\ writer.append \o <<x>> \in Bytes
      /\ Len(writer.append \o <<x>>) = Len(writer.append) + Len(<<x>>)
  BY <1>1, <1>2, BytesConcat
<1>9. /\ writer.crc \o <<x>> \in Bytes
      /\ Len(writer.crc \o <<x>>) = Len(writer.crc) + Len(<<x>>)
  BY <1>1, <1>2, BytesConcat
<1>10. writer.crc \o <<x>> = ride.payload \o (writer.append \o <<x>>)
  BY <1>6, <1>7
<1> QED  BY <1>2, <1>5, <1>8, <1>9, <1>10

\* append keeps the invariant.
LEMMA StoreAppend ==
    ASSUME StoreOK, append
    PROVE  StoreOK'
<1> USE DEF append, Idle
<1>1. HeadersOK' /\ RideOK'  BY NothingWritten DEF media
<1>2. boots \in Sample  BY BootIsSample DEF StoreOK
<1>3. /\ writer.append \o <<boots>> \in Bytes /\ writer.crc \o <<boots>> \in Bytes
      /\ Len(writer.append \o <<boots>>) = Len(writer.append) + 1
      /\ ride.pending_proof = 0
      /\ writer.crc \o <<boots>> = ride.payload \o (writer.append \o <<boots>>)
  BY <1>2, Joined
<1>4. /\ writer'.state = "live" /\ writer'.append = writer.append \o <<boots>>
      /\ writer'.crc = writer.crc \o <<boots>>
      /\ writer' \in [state : States, append : Bytes, crc : Bytes]
  BY <1>3 DEF Writer, States
<1>5. TypesOK'  BY <1>4 DEF StoreOK, TypesOK, media, counts
<1>6. StageOK'
  BY <1>4 DEF StoreOK, StageOK, Plain, Rolling
<1>7. ContinuesOK'
  <2>1. Len(writer.append) + 2 <= Delta /\ Len(writer.append) \in Nat /\ Delta \in Nat
    BY WriterFields, JournalAssumption DEF StoreOK
  <2>2. Len(writer'.append) + 1 <= Delta /\ Len(writer'.append) <= Delta
    BY <1>3, <1>4, <2>1
  <2> QED  BY <1>3, <1>4, <2>2 DEF ContinuesOK
<1> QED  BY <1>1, <1>5, <1>6, <1>7 DEF StoreOK

\* checkpoint keeps it.
LEMMA StoreCheckpoint ==
    ASSUME StoreOK, checkpoint
    PROVE  StoreOK'
<1> USE DEF checkpoint, Idle
<1>1. HeadersOK' /\ RideOK'  BY NothingWritten DEF media
<1>2. writer \in [state : States, append : Bytes, crc : Bytes]  BY DEF StoreOK, TypesOK
<1>3. /\ writer'.state = "pending" /\ writer'.append = writer.append
      /\ writer'.crc = writer.crc
      /\ writer' \in [state : States, append : Bytes, crc : Bytes]
  BY <1>2 DEF States, Outstanding
<1>4. idles' \in 0 .. MaxIdle
  <2>1. idles \in 0 .. MaxIdle /\ MaxIdle \in Nat  BY JournalAssumption DEF StoreOK, TypesOK
  <2> QED  BY <2>1
<1>5. TypesOK'  BY <1>3, <1>4 DEF StoreOK, TypesOK, media
<1>6. StageOK'  BY <1>3 DEF StoreOK, StageOK, Plain, Rolling
<1>7. ContinuesOK'  BY <1>3 DEF StoreOK, ContinuesOK, Outstanding
<1> QED  BY <1>1, <1>5, <1>6, <1>7 DEF StoreOK

\* finish keeps it: the footer joins the append only when none is outstanding.
LEMMA StoreFinish ==
    ASSUME StoreOK, finish
    PROVE  StoreOK'
<1> USE DEF finish, Idle
<1>1. HeadersOK' /\ RideOK'  BY NothingWritten DEF media
<1>2. writer \in [state : States, append : Bytes, crc : Bytes]  BY DEF StoreOK, TypesOK
<1>3. CASE /\ writer.state = "live"
           /\ writer' = Writer("closing", writer.append \o <<Footer>>,
                               writer.crc \o <<Footer>>)
  <2>1. Footer \in Sample  BY BootIsSample DEF StoreOK
  <2>2. /\ writer.append \o <<Footer>> \in Bytes /\ writer.crc \o <<Footer>> \in Bytes
        /\ Len(writer.append \o <<Footer>>) = Len(writer.append) + 1
        /\ ride.pending_proof = 0
        /\ writer.crc \o <<Footer>> = ride.payload \o (writer.append \o <<Footer>>)
    BY <1>3, <2>1, Joined
  <2>3. /\ writer'.state = "closing" /\ writer'.append = writer.append \o <<Footer>>
        /\ writer'.crc = writer.crc \o <<Footer>>
        /\ writer' \in [state : States, append : Bytes, crc : Bytes]
    BY <1>3, <2>2 DEF Writer, States, Outstanding
  <2>4. TypesOK'  BY <2>3 DEF StoreOK, TypesOK, media, counts
  <2>5. StageOK'  BY <1>3, <2>3 DEF StoreOK, StageOK, Plain, Rolling
  <2>6. ContinuesOK'
    <3>1. Len(writer.append) + 1 <= Delta  BY <1>3 DEF StoreOK, ContinuesOK
    <3>2. Len(writer'.append) <= Delta  BY <2>2, <2>3, <3>1
    <3> QED  BY <2>2, <2>3, <3>2 DEF ContinuesOK
  <2> QED  BY <1>1, <2>4, <2>5, <2>6 DEF StoreOK
<1>4. CASE /\ writer.state = "pending"
           /\ writer' = [writer EXCEPT !.state = "repair"]
  <2>1. /\ writer'.state = "repair" /\ writer'.append = writer.append
        /\ writer'.crc = writer.crc
        /\ writer' \in [state : States, append : Bytes, crc : Bytes]
    BY <1>2, <1>4 DEF States, Outstanding
  <2>2. TypesOK'  BY <2>1 DEF StoreOK, TypesOK, media, counts
  <2>3. StageOK'  BY <1>4, <2>1 DEF StoreOK, StageOK, Plain, Rolling
  <2>4. ContinuesOK'  BY <1>4, <2>1 DEF StoreOK, ContinuesOK, Outstanding
  <2> QED  BY <1>1, <2>2, <2>3, <2>4 DEF StoreOK
<1> QED  BY <1>3, <1>4

\* discard keeps it.
LEMMA StoreDiscard ==
    ASSUME StoreOK, discard
    PROVE  StoreOK'
<1> USE DEF discard, Idle
<1>1. HeadersOK' /\ RideOK'  BY NothingWritten DEF media
<1>2. writer \in [state : States, append : Bytes, crc : Bytes]  BY DEF StoreOK, TypesOK
<1>3. /\ writer'.state = "discard" /\ writer'.append = writer.append
      /\ writer'.crc = writer.crc
      /\ writer' \in [state : States, append : Bytes, crc : Bytes]
  BY <1>2 DEF States
<1>4. TypesOK'  BY <1>3 DEF StoreOK, TypesOK, media, counts
<1>5. StageOK'  BY <1>3 DEF StoreOK, StageOK, Plain, Rolling
<1>6. ContinuesOK'  BY <1>3 DEF StoreOK, ContinuesOK, Outstanding
<1> QED  BY <1>1, <1>4, <1>5, <1>6 DEF StoreOK

\* Exactly the outstanding append is acknowledged, and no more is owed than the
\* footer.
LEMMA Acknowledged ==
    ASSUME StoreOK, writer.state \in Outstanding, NEW p \in Bytes, acknowledge(p)
    PROVE  /\ acked' = p
           /\ writer' \in [state : States, append : Bytes, crc : Bytes]
           /\ writer'.state \in {"live", "closing", "publish"}
           /\ writer'.append \in Bytes
           /\ writer'.state = "live" => Len(writer'.append) + 1 <= Delta
           /\ Len(writer'.append) <= Delta
           /\ writer'.state = "publish" => writer'.append = <<>>
           /\ writer'.crc = writer.crc \o writer'.append
<1>1. writer.append \in Bytes /\ writer.crc \in Bytes  BY WriterFields DEF StoreOK
<1>2. Footer \in Sample  BY BootIsSample DEF StoreOK
<1>3. <<Footer>> \in Bytes /\ Len(<<Footer>>) = 1 /\ writer.crc \o <<Footer>> \in Bytes
  BY <1>1, <1>2, SampleBytes, BytesConcat
<1>4. <<>> \in Bytes /\ Len(<<>>) = 0 /\ writer.crc \o <<>> = writer.crc
  BY <1>1, EmptyBytes, ConcatEmptySeq DEF Bytes
<1>5. Delta \in Nat /\ 0 + 1 <= Delta /\ 1 <= Delta /\ 0 <= Delta  BY JournalAssumption
<1>6. CASE writer.state = "pending"
  <2>1. writer' = Writer("live", <<>>, writer.crc)  BY <1>6 DEF acknowledge
  <2>2. writer'.state = "live" /\ writer'.append = <<>> /\ writer'.crc = writer.crc
        /\ writer' \in [state : States, append : Bytes, crc : Bytes]
    BY <2>1, <1>1, <1>4 DEF Writer, States
  <2>3. Len(writer'.append) = 0 /\ writer'.crc = writer.crc \o writer'.append
    BY <2>2, <1>4
  <2>4. Len(writer'.append) + 1 <= Delta /\ Len(writer'.append) <= Delta  BY <2>3, <1>5
  <2> QED  BY <2>2, <2>3, <2>4, <1>4 DEF acknowledge
<1>7. CASE writer.state = "repair"
  <2>1. writer' = Writer("closing", <<Footer>>, writer.crc \o <<Footer>>)
    BY <1>7 DEF acknowledge
  <2>2. writer'.state = "closing" /\ writer'.append = <<Footer>>
        /\ writer'.crc = writer.crc \o <<Footer>>
        /\ writer' \in [state : States, append : Bytes, crc : Bytes]
    BY <2>1, <1>3 DEF Writer, States, Outstanding
  <2>3. Len(writer'.append) <= Delta  BY <2>2, <1>3, <1>5
  <2> QED  BY <2>2, <2>3, <1>3 DEF acknowledge
<1>8. CASE writer.state = "closing"
  <2>1. writer' = Writer("publish", <<>>, writer.crc)  BY <1>8 DEF acknowledge
  <2>2. writer'.state = "publish" /\ writer'.append = <<>> /\ writer'.crc = writer.crc
        /\ writer' \in [state : States, append : Bytes, crc : Bytes]
    BY <2>1, <1>1, <1>4 DEF Writer, States
  <2>3. Len(writer'.append) = 0 /\ writer'.crc = writer.crc \o writer'.append
    BY <2>2, <1>4
  <2>4. Len(writer'.append) <= Delta  BY <2>3, <1>5
  <2> QED  BY <2>2, <2>3, <2>4, <1>4 DEF acknowledge
<1> QED  BY <1>6, <1>7, <1>8 DEF Outstanding

-----------------------------------------------------------------------------
(* Those of the store.                                                     *)

\* Entering FlatStore::journal keeps it: what the call checks first makes the
\* headers it will write well-formed.
LEMMA StoreJournal ==
    ASSUME StoreOK, journal
    PROVE  StoreOK'
<1> USE DEF journal, Idle
<1>1. HeadersOK' /\ RideOK'  BY NothingWritten
<1>2. ride # None /\ ride.pending_proof \in Nat
  <2>1. ride # None  BY DEF StoreOK, StageOK
  <2> QED  BY <2>1, RideFields DEF StoreOK, TypesOK
<1>3. Len(ride.tail) \in Nat /\ Len(writer.append) \in Nat /\ Page \in Nat
  <2>1. ride \in RideType  BY <1>2 DEF StoreOK, TypesOK
  <2> QED  BY <2>1, RideFields, WriterFields, PageNat DEF StoreOK
<1>4. writer.state \in Outstanding  BY DEF Outstanding
<1>5. ContinuesOK'  BY DEF StoreOK, ContinuesOK
<1>6. CASE ride.pending_proof # 0
  <2>1. pc' = "repair"  BY <1>6
  <2>2. TypesOK'  BY <2>1 DEF StoreOK, TypesOK, media, counts, Stages
  <2>3. StageOK'  BY <1>2, <1>4, <1>6, <2>1 DEF StoreOK, StageOK, Plain, Rolling, Outstanding
  <2> QED  BY <1>1, <1>5, <2>2, <2>3 DEF StoreOK
<1>7. CASE ride.pending_proof = 0 /\ Len(ride.tail) + Len(writer.append) >= Page
  <2>1. pc' = "proof_tail"  BY <1>7
  <2>2. TypesOK'  BY <2>1 DEF StoreOK, TypesOK, media, counts, Stages, Rolling
  <2>3. StageOK'  BY <1>2, <1>4, <1>7, <2>1 DEF StoreOK, StageOK, Plain, Rolling, Outstanding
  <2> QED  BY <1>1, <1>5, <2>2, <2>3 DEF StoreOK
<1>8. CASE ride.pending_proof = 0 /\ ~(Len(ride.tail) + Len(writer.append) >= Page)
  <2>0. pc' = "tail"  BY <1>8
  <2>a. Len(ride.tail) + Len(writer.append) < Page
    <3> DEFINE a == Len(ride.tail)
               b == Len(writer.append)
    <3>1. a \in Nat /\ b \in Nat /\ ~(a + b >= Page)  BY <1>3, <1>8
    <3> HIDE DEF a, b
    <3>2. a + b < Page  BY <3>1, <1>3
    <3> QED  BY <3>2 DEF a, b
  <2>1. pc' = "tail" /\ Len(ride.tail) + Len(writer.append) < Page  BY <2>0, <2>a
  <2>2. TypesOK'  BY <2>1 DEF StoreOK, TypesOK, media, counts, Stages, Plain
  <2>3. StageOK'  BY <1>2, <1>4, <1>8, <2>1 DEF StoreOK, StageOK, Plain, Rolling, Outstanding
  <2> QED  BY <1>1, <1>5, <2>2, <2>3 DEF StoreOK
<1> QED  BY <1>6, <1>7, <1>8

\* A step of the call that only moves the media, with the ride and the writer as
\* they are.
LEMMA MediaStep ==
    ASSUME StoreOK, ride # None, NEW ends \in BOOLEAN, InFlight(ends), pc' \in Stages,
           UNCHANGED <<ride, writer>>, acked' = acked,
           boots' = boots, refused' \in BOOLEAN, idles' = idles
    PROVE  TypesOK' /\ HeadersOK' /\ RideOK' /\ ContinuesOK'
<1>1. /\ heads' \in [Ring -> HeaderType \cup {None}]
      /\ tails' \in [Ring -> Bytes \cup {Torn}]
      /\ pages' \in [0 .. Reserve \div Page -> Bytes \cup {Torn}]
      /\ HeadersOK'
      /\ ride.next_sequence > 1 =>
           /\ heads'[Source] = heads[Source] /\ tails'[Source] = tails[Source]
  BY CommandUnderWay
<1>2. TypesOK'  BY <1>1 DEF StoreOK, TypesOK
<1>3. RideOK'  BY <1>1, RideKept
<1>4. ContinuesOK'  BY DEF StoreOK, ContinuesOK
<1> QED  BY <1>1, <1>2, <1>3, <1>4

\* A finished tail keeps it.
LEMMA StoreTailDone ==
    ASSUME StoreOK, TailDone
    PROVE  StoreOK'
<1>1. pc \in {"tail", "proof_tail", "logical_tail"} /\ pc \in Plain \cup Rolling
  BY DEF TailDone, Plain, Rolling
<1>2. ride # None  BY <1>1 DEF StoreOK, StageOK
<1>3. InFlight(TRUE)  BY <1>1 DEF TailDone, InFlight
<1>4. SourceIntact  BY <1>2 DEF StoreOK, RideOK
<1>5. /\ pc = "tail" => pc' = "head"
      /\ pc = "proof_tail" => pc' = "proof_head"
      /\ pc = "logical_tail" => pc' = "logical_head"
  BY <1>1, <1>4 DEF TailDone
<1>6. /\ UNCHANGED <<ride, writer>> /\ acked' = acked /\ boots' = boots
      /\ refused' = refused /\ idles' = idles
  BY DEF TailDone, counts
<1>7. pc' \in Stages /\ refused' \in BOOLEAN
  BY <1>1, <1>5, <1>6 DEF Stages, Plain, Rolling, StoreOK, TypesOK
<1>8. TypesOK' /\ HeadersOK' /\ RideOK' /\ ContinuesOK'
  BY <1>2, <1>3, <1>6, <1>7, MediaStep
<1>9. tails'[SlotOf(SlotWrite.sequence)] = SlotWrite.tail
  BY <1>1, TailWrite DEF TailDone, StoreOK
<1>10. /\ ride.pending_proof = 0 /\ writer.state # "idle"
       /\ writer.state \in Outstanding
  BY <1>1 DEF StoreOK, StageOK, Outstanding
<1>11. StageOK'
  <2>1. CASE pc = "tail"
    <3>1. SlotWrite = Ordinary  BY <2>1, SlotWriteIs DEF Plain
    <3>2. Len(ride.tail) + Len(writer.append) < Page  BY <2>1 DEF StoreOK, StageOK, Plain
    <3>3. SlotWrite.sequence = ride.next_sequence
      BY <3>1, <3>2, <1>2, <1>10, OrdinaryOK DEF StoreOK
    <3>4. Ordinary' = Ordinary /\ SlotOf(ride.next_sequence)' = SlotOf(ride.next_sequence)
      BY <1>6 DEF Ordinary, Header, SlotOf
    <3>5. tails'[SlotOf(ride.next_sequence)] = Ordinary.tail  BY <1>9, <3>1, <3>3
    <3>6. pc' = "head"  BY <2>1, <1>5
    <3> QED  BY <3>2, <3>4, <3>5, <3>6, <1>2, <1>6, <1>10 DEF StageOK, Plain, Rolling, Outstanding
  <2>2. CASE pc = "proof_tail"
    <3>1. SlotWrite = ProofPart  BY <2>2, SlotWriteIs
    <3>2. Len(ride.tail) + Len(writer.append) >= Page  BY <2>2 DEF StoreOK, StageOK, Rolling
    <3>3. SlotWrite.sequence = ride.next_sequence
      BY <3>1, <3>2, <1>2, <1>10, RolloverOK DEF StoreOK
    <3>4. ProofPart' = ProofPart /\ SlotOf(ride.next_sequence)' = SlotOf(ride.next_sequence)
      BY <1>6 DEF ProofPart, Header, SlotOf, IntoPage
    <3>5. tails'[SlotOf(ride.next_sequence)] = ProofPart.tail  BY <1>9, <3>1, <3>3
    <3>6. pc' = "proof_head"  BY <2>2, <1>5
    <3> QED  BY <3>2, <3>4, <3>5, <3>6, <1>2, <1>6, <1>10 DEF StageOK, Plain, Rolling, Outstanding
  <2>3. CASE pc = "logical_tail"
    <3>1. SlotWrite = LogicalPart  BY <2>3, SlotWriteIs
    <3>2. Len(ride.tail) + Len(writer.append) >= Page  BY <2>3 DEF StoreOK, StageOK, Rolling
    <3>3. SlotWrite.sequence = ride.next_sequence + 1
      BY <3>1, <3>2, <1>2, <1>10, RolloverOK DEF StoreOK
    <3>4. LogicalPart' = LogicalPart /\ SlotOf(ride.next_sequence + 1)' = SlotOf(ride.next_sequence + 1)
      BY <1>6 DEF LogicalPart, Header, SlotOf, Spill
    <3>5. tails'[SlotOf(ride.next_sequence + 1)] = LogicalPart.tail  BY <1>9, <3>1, <3>3
    <3>6. pc' = "logical_head"  BY <2>3, <1>5
    <3> QED  BY <3>2, <3>4, <3>5, <3>6, <1>2, <1>6, <1>10 DEF StageOK, Plain, Rolling, Outstanding
  <2> QED  BY <1>1, <2>1, <2>2, <2>3
<1> QED  BY <1>8, <1>11 DEF StoreOK

\* The store goes on from a slot it has just written, or just found.
LEMMA TakenUp ==
    ASSUME NEW h \in HeaderType, ~h.proof, HeaderOK(SlotOf(h.sequence), h),
           heads'[SlotOf(h.sequence)] = h, tails'[SlotOf(h.sequence)] = h.tail,
           ride' \in RideType,
           ride'.next_sequence = h.sequence + 1, ride'.flushed = h.flushed,
           ride'.tail = h.tail, ride'.payload = h.payload,
           ride'.pending_proof \in {0, h.proof_sequence}
    PROVE  RideOK'
<1> DEFINE n == ride'.next_sequence
<1>1. /\ h # None /\ h.sequence \in Nat /\ h.sequence >= 1 /\ h.proof_sequence \in Nat
      /\ h.proof \in BOOLEAN
  BY NotNone DEF HeaderOK, HeaderType
<1>2. n - 1 = h.sequence /\ n # 1 /\ n > 1  BY <1>1
<1>3. Source' = SlotOf(h.sequence)  BY <1>2 DEF Source, SlotOf
<1>4. SlotOf(ride.next_sequence - 1)' = SlotOf(h.sequence)  BY <1>2 DEF SlotOf
<1>5. current_ride_slot'
  BY <1>1, <1>2, <1>4 DEF current_ride_slot
<1>6. SourceIntact'
  BY <1>1, <1>2, <1>4 DEF SourceIntact, slot_intact
<1>7. ride'.pending_proof # 0 =>
        /\ ride'.next_sequence = ride'.pending_proof + 2
        /\ ride'.flushed >= Page
        /\ heads'[Source'].proof_sequence = ride'.pending_proof
  BY <1>1, <1>2, <1>3 DEF HeaderOK
<1>8. Len(ride'.tail) < Page /\ ride'.flushed % Page = 0
      /\ Ends(ride'.payload, ride'.flushed, ride'.tail)
  BY <1>1 DEF HeaderOK
<1> QED  BY <1>5, <1>6, <1>7, <1>8 DEF RideOK, Ends

\* The gate of a checkpoint within the page keeps it: the slot just written is the
\* new source.
LEMMA StoreHeadDone ==
    ASSUME StoreOK, HeadDone
    PROVE  StoreOK'
<1> DEFINE m == ride.next_sequence
<1>1. pc = "head" /\ pc \in Plain \cup Rolling /\ pc \in Plain  BY DEF HeadDone, Plain
<1>2. ride # None /\ ride.pending_proof = 0 /\ writer.state # "idle"
      /\ writer.state \in Outstanding /\ Len(ride.tail) + Len(writer.append) < Page
      /\ tails[SlotOf(m)] = Ordinary.tail
  BY <1>1 DEF StoreOK, StageOK, Outstanding
<1>3. ride \in RideType  BY <1>2 DEF StoreOK, TypesOK
<1>4. /\ Ordinary \in HeaderType
      /\ Ordinary.sequence = m /\ Ordinary.flushed = ride.flushed
      /\ Ordinary.tail = ride.tail \o writer.append /\ Ordinary.tail \in Bytes
      /\ Ordinary.payload = writer.crc /\ ~Ordinary.proof
      /\ Ordinary.proof_sequence = 0
      /\ HeaderOK(SlotOf(m), Ordinary)
  BY <1>2, OrdinaryOK DEF StoreOK
<1>5. SlotWrite = Ordinary  BY <1>1, SlotWriteIs
<1>6. heads' \in [Ring -> HeaderType \cup {None}] /\ heads'[SlotOf(m)] = Ordinary
  BY <1>1, <1>4, <1>5, HeadWrite DEF HeadDone, StoreOK
<1>7. HeadersOK'  BY <1>1, HeadersKept DEF HeadDone, StoreOK
<1>8. writer.crc \in Bytes  BY WriterFields DEF StoreOK
<1>9. /\ ride' \in RideType
      /\ ride'.next_sequence = m + 1 /\ ride'.flushed = ride.flushed
      /\ ride'.tail = ride.tail \o writer.append /\ ride'.payload = writer.crc
      /\ ride'.pending_proof = 0
  <2>1. m + 1 \in Nat \ {0}  BY <1>3, RideFields
  <2>2. ride.tail \o writer.append \in Bytes  BY <1>4
  <2> QED  BY <2>1, <2>2, <1>2, <1>3, <1>8 DEF HeadDone, RideType
<1>10. RideOK'
  <2>1. tails'[SlotOf(m)] = Ordinary.tail  BY <1>2 DEF HeadDone
  <2> DEFINE h == Ordinary
  <2>2. /\ h \in HeaderType /\ ~h.proof /\ HeaderOK(SlotOf(h.sequence), h)
        /\ heads'[SlotOf(h.sequence)] = h /\ tails'[SlotOf(h.sequence)] = h.tail
        /\ ride'.next_sequence = h.sequence + 1 /\ ride'.flushed = h.flushed
        /\ ride'.tail = h.tail /\ ride'.payload = h.payload
        /\ ride'.pending_proof \in {0, h.proof_sequence}
    BY <1>4, <1>6, <1>9, <2>1
  <2> HIDE DEF h
  <2> QED  BY <2>2, <1>9, TakenUp
<1>11. /\ acked' = writer.crc
       /\ writer' \in [state : States, append : Bytes, crc : Bytes]
       /\ writer'.state \in {"live", "closing", "publish"}
       /\ writer'.state = "live" => Len(writer'.append) + 1 <= Delta
       /\ Len(writer'.append) <= Delta
       /\ writer'.state = "publish" => writer'.append = <<>>
       /\ writer'.crc = writer.crc \o writer'.append
  BY <1>2, <1>8, Acknowledged DEF HeadDone
<1>12. TypesOK'
  BY <1>6, <1>8, <1>9, <1>11 DEF HeadDone, StoreOK, TypesOK, counts, Stages
<1>13. StageOK'
  <2>1. pc' = "idle"  BY DEF HeadDone
  <2>2. ride' # None  BY <1>9, NoneAssumption
  <2> QED  BY <2>1, <2>2, <1>11 DEF StageOK, Plain, Rolling
<1>14. ContinuesOK'  BY <1>9, <1>11 DEF ContinuesOK
<1> QED  BY <1>7, <1>10, <1>12, <1>13, <1>14 DEF StoreOK

\* The gate of the proof keeps it.
LEMMA StoreProofDone ==
    ASSUME StoreOK, ProofDone
    PROVE  StoreOK'
<1>1. pc = "proof_head" /\ pc \in Rolling  BY DEF ProofDone, Rolling
<1>2. ride # None  BY <1>1 DEF StoreOK, StageOK
<1>3. InFlight(TRUE)  BY <1>1 DEF ProofDone, InFlight
<1>4. /\ UNCHANGED <<ride, writer>> /\ acked' = acked /\ boots' = boots
      /\ refused' = refused /\ idles' = idles /\ pc' = "logical_tail"
  BY DEF ProofDone, counts
<1>5. pc' \in Stages /\ refused' \in BOOLEAN
  BY <1>4 DEF Stages, Rolling, StoreOK, TypesOK
<1>6. TypesOK' /\ HeadersOK' /\ RideOK' /\ ContinuesOK'
  BY <1>2, <1>3, <1>4, <1>5, MediaStep
<1>7. StageOK'
  BY <1>1, <1>2, <1>4 DEF StoreOK, StageOK, Plain, Rolling, Outstanding
<1> QED  BY <1>6, <1>7 DEF StoreOK

\* The second gate of a rollover keeps it: the ride advances by a page and owes its
\* copy.
LEMMA StoreLogicalDone ==
    ASSUME StoreOK, LogicalDone
    PROVE  StoreOK'
<1> DEFINE m == ride.next_sequence
<1>1. pc = "logical_head" /\ pc \in Plain \cup Rolling /\ pc \in Rolling
  BY DEF LogicalDone, Rolling
<1>2. ride # None /\ ride.pending_proof = 0 /\ writer.state # "idle"
      /\ writer.state \in Outstanding /\ Len(ride.tail) + Len(writer.append) >= Page
      /\ tails[SlotOf(m + 1)] = LogicalPart.tail
  BY <1>1 DEF StoreOK, StageOK, Outstanding
<1>3. ride \in RideType  BY <1>2 DEF StoreOK, TypesOK
<1>4. /\ LogicalPart \in HeaderType
      /\ LogicalPart.sequence = m + 1 /\ LogicalPart.flushed = ride.flushed + Page
      /\ LogicalPart.tail = Spill /\ LogicalPart.tail \in Bytes
      /\ LogicalPart.payload = writer.crc /\ ~LogicalPart.proof
      /\ LogicalPart.proof_sequence = m
      /\ HeaderOK(SlotOf(m + 1), LogicalPart)
  BY <1>2, RolloverOK DEF StoreOK
<1>5. SlotWrite = LogicalPart  BY <1>1, SlotWriteIs
<1>6. heads' \in [Ring -> HeaderType \cup {None}] /\ heads'[SlotOf(m + 1)] = LogicalPart
  BY <1>1, <1>4, <1>5, HeadWrite DEF LogicalDone, StoreOK
<1>7. HeadersOK'  BY <1>1, HeadersKept DEF LogicalDone, StoreOK
<1>8. writer.crc \in Bytes /\ writer.append \in Bytes  BY WriterFields DEF StoreOK
<1>9. /\ ride' \in RideType
      /\ ride'.next_sequence = m + 2 /\ ride'.flushed = ride.flushed + Page
      /\ ride'.tail = Spill /\ ride'.payload = writer.crc
      /\ ride'.pending_proof = m /\ ride'.pending_append = writer.append
  <2>1. m \in Nat /\ m + 2 \in Nat \ {0} /\ ride.flushed + Page \in Nat
    BY <1>3, RideFields, PageNat
  <2>2. Spill \in Bytes  BY <1>4
  <2> QED  BY <2>1, <2>2, <1>8 DEF LogicalDone, RideType
<1>10. m \in Nat /\ m >= 1  BY <1>3, RideFields
<1>11. RideOK'
  <2>1. tails'[SlotOf(m + 1)] = LogicalPart.tail  BY <1>2 DEF LogicalDone
  <2> DEFINE h == LogicalPart
  <2>2. /\ h \in HeaderType /\ ~h.proof /\ HeaderOK(SlotOf(h.sequence), h)
        /\ heads'[SlotOf(h.sequence)] = h /\ tails'[SlotOf(h.sequence)] = h.tail
        /\ ride'.next_sequence = h.sequence + 1 /\ ride'.flushed = h.flushed
        /\ ride'.tail = h.tail /\ ride'.payload = h.payload
        /\ ride'.pending_proof \in {0, h.proof_sequence}
    BY <1>4, <1>6, <1>9, <1>10, <2>1
  <2> HIDE DEF h
  <2> QED  BY <2>2, <1>9, TakenUp
<1>12. TypesOK'
  BY <1>6, <1>9 DEF LogicalDone, StoreOK, TypesOK, counts, Stages
<1>13. StageOK'
  <2>1. pc' = "repair" /\ writer' = writer  BY DEF LogicalDone
  <2>2. ride' # None  BY <1>9, NoneAssumption
  <2>3. ride'.pending_proof # 0  BY <1>9, <1>10
  <2> QED  BY <2>1, <2>2, <2>3, <1>2 DEF StageOK, Plain, Rolling
<1>14. ContinuesOK'
  <2>1. writer' = writer  BY DEF LogicalDone
  <2>2. ride'.pending_proof # 0  BY <1>9, <1>10
  <2> QED  BY <2>1, <2>2, <1>2, <1>9 DEF StoreOK, ContinuesOK, Outstanding
<1> QED  BY <1>7, <1>11, <1>12, <1>13, <1>14 DEF StoreOK

\* A repaired page leaves the slots, so the ride still continues from its source.
LEMMA RepairKeeps ==
    ASSUME StoreOK, ride # None, UNCHANGED <<heads, tails>>, ride' = Repaired
    PROVE  /\ RideOK' /\ HeadersOK' /\ ride' \in RideType
           /\ ride'.pending_proof = 0 /\ ride'.payload = ride.payload
<1>1. ride \in RideType  BY DEF StoreOK, TypesOK
<1>2. /\ ride' \in RideType /\ ride'.pending_proof = 0
      /\ ride'.flushed = ride.flushed /\ ride'.next_sequence = ride.next_sequence
      /\ ride'.tail = ride.tail /\ ride'.payload = ride.payload
  BY <1>1, EmptyBytes DEF Repaired, RideType
<1>3. HeadersOK'  BY DEF StoreOK, HeadersOK, HeaderOK, Ends, SlotOf
<1>4. current_ride_slot'
  BY <1>2 DEF StoreOK, RideOK, current_ride_slot, SlotOf
<1>5. SourceIntact'
  BY <1>2 DEF StoreOK, RideOK, SourceIntact, slot_intact, SlotOf
<1>6. RideOK'
  BY <1>2, <1>4, <1>5 DEF StoreOK, RideOK, Ends
<1> QED  BY <1>2, <1>3, <1>6

\* The copy of the page keeps it, and acknowledges the checkpoint it completes.
LEMMA StoreRepairRollover ==
    ASSUME StoreOK, repair_rollover
    PROVE  StoreOK'
<1>1. pc = "repair" /\ ride' = Repaired /\ UNCHANGED <<heads, tails>>
  BY DEF repair_rollover
<1>2. ride # None /\ ride.pending_proof # 0 /\ writer.state \in Outstanding
      /\ writer.state # "idle"
  BY <1>1 DEF StoreOK, StageOK, Outstanding
<1>3. InFlight(TRUE)  BY <1>1 DEF repair_rollover, InFlight
<1>4. pages' \in [0 .. Reserve \div Page -> Bytes \cup {Torn}]
  BY <1>2, <1>3, CommandUnderWay
<1>5. /\ RideOK' /\ HeadersOK' /\ ride' \in RideType
      /\ ride'.pending_proof = 0 /\ ride'.payload = ride.payload
  BY <1>1, <1>2, RepairKeeps
<1>6. ride.payload \in Bytes /\ writer.crc = ride.payload
  BY <1>2, RideFields DEF StoreOK, TypesOK, ContinuesOK
<1>7. /\ acked' = ride.payload
      /\ writer' \in [state : States, append : Bytes, crc : Bytes]
      /\ writer'.state \in {"live", "closing", "publish"}
      /\ writer'.state = "live" => Len(writer'.append) + 1 <= Delta
      /\ Len(writer'.append) <= Delta
      /\ writer'.state = "publish" => writer'.append = <<>>
      /\ writer'.crc = writer.crc \o writer'.append
  BY <1>2, <1>6, Acknowledged DEF repair_rollover
<1>8. TypesOK'
  BY <1>1, <1>4, <1>5, <1>6, <1>7 DEF repair_rollover, StoreOK, TypesOK, counts, Stages
<1>9. StageOK'
  <2>1. pc' = "idle"  BY DEF repair_rollover
  <2>2. ride' # None  BY <1>5, NoneAssumption
  <2> QED  BY <2>1, <2>2, <1>7 DEF StageOK, Plain, Rolling
<1>10. ContinuesOK'  BY <1>5, <1>6, <1>7 DEF ContinuesOK
<1> QED  BY <1>5, <1>8, <1>9, <1>10 DEF StoreOK

\* A refused command keeps it: ride and writer stay, so the same checkpoint can be
\* asked for again.
LEMMA StoreJournalFails ==
    ASSUME StoreOK, JournalFails
    PROVE  StoreOK'
<1>1. InFlight(FALSE) /\ pc # "repairing" /\ pc' = "idle" /\ refused' = TRUE
      /\ UNCHANGED <<ride, writer>> /\ acked' = acked /\ boots' = boots /\ idles' = idles
  BY DEF JournalFails, Refuses
<1>2. pc \in {"tail", "proof_tail", "logical_tail", "head", "proof_head", "logical_head",
              "repair", "flush"}
  BY <1>1 DEF InFlight
<1>3. ride # None /\ writer.state # "idle"  BY <1>2 DEF StoreOK, StageOK
<1>4. pc' \in Stages /\ refused' \in BOOLEAN  BY <1>1 DEF Stages
<1>5. TypesOK' /\ HeadersOK' /\ RideOK' /\ ContinuesOK'
  BY <1>1, <1>3, <1>4, MediaStep
<1>6. StageOK'  BY <1>1, <1>3 DEF StageOK, Plain, Rolling
<1> QED  BY <1>5, <1>6 DEF StoreOK

\* Entering publish_ride keeps it.
LEMMA StoreBeginPublish ==
    ASSUME StoreOK, BeginPublish
    PROVE  StoreOK'
<1> USE DEF BeginPublish, Idle
<1>1. HeadersOK' /\ RideOK'  BY NothingWritten
<1>2. ride # None /\ writer.state = "publish"  BY DEF StoreOK, StageOK
<1>3. ride.pending_proof = 0
  BY <1>2 DEF StoreOK, ContinuesOK, Outstanding
<1>4. pc' \in {"commit", "flush"}  OBVIOUS
<1>5. TypesOK'  BY <1>4 DEF StoreOK, TypesOK, media, counts, Stages
<1>6. StageOK'  BY <1>2, <1>3, <1>4 DEF StageOK, Plain, Rolling
<1>7. ContinuesOK'  BY DEF StoreOK, ContinuesOK
<1> QED  BY <1>1, <1>5, <1>6, <1>7 DEF StoreOK

\* The copy of the last partial page keeps it.
LEMMA StoreFlush ==
    ASSUME StoreOK, flush_ride_tail
    PROVE  StoreOK'
<1>1. InFlight(TRUE) /\ pc = "flush" /\ pc' = "commit" /\ refused' = refused
      /\ UNCHANGED <<ride, writer>> /\ acked' = acked /\ boots' = boots /\ idles' = idles
  BY DEF flush_ride_tail, counts
<1>2. ride # None /\ writer.state = "publish" /\ ride.pending_proof = 0
  BY <1>1 DEF StoreOK, StageOK
<1>3. pc' \in Stages /\ refused' \in BOOLEAN  BY <1>1 DEF Stages, StoreOK, TypesOK
<1>4. TypesOK' /\ HeadersOK' /\ RideOK' /\ ContinuesOK'
  BY <1>1, <1>2, <1>3, MediaStep
<1>5. StageOK'  BY <1>1, <1>2 DEF StageOK, Plain, Rolling
<1> QED  BY <1>4, <1>5 DEF StoreOK

\* The writer that has no ride.
LEMMA IdleWriter ==
    /\ Writer("idle", <<>>, <<>>) \in [state : States, append : Bytes, crc : Bytes]
    /\ Writer("idle", <<>>, <<>>).state = "idle"
    /\ Len(Writer("idle", <<>>, <<>>).append) <= Delta
<1>1. Writer("idle", <<>>, <<>>).append = <<>>  BY DEF Writer
<1>2. Len(<<>>) <= Delta  BY EmptyBytes, JournalAssumption
<1> QED  BY <1>1, <1>2, EmptyBytes DEF Writer, States

\* The ride is gone: published or removed.
LEMMA Settled ==
    ASSUME StoreOK, settle_ride, UNCHANGED <<tails, pages, acked, counts>>
    PROVE  StoreOK'
<1>1. /\ ride' = None /\ writer' = Writer("idle", <<>>, <<>>)
      /\ heads' = [i \in Ring |-> None] /\ pc' = "ended"
  BY DEF settle_ride
<1>2. TypesOK'  BY <1>1, IdleWriter DEF StoreOK, TypesOK, counts, Stages
<1>3. HeadersOK'  BY <1>1 DEF HeadersOK
<1>4. RideOK'  BY <1>1 DEF RideOK
<1>5. StageOK'  BY <1>1, IdleWriter DEF StageOK, Plain, Rolling
<1>6. ContinuesOK'  BY <1>1, IdleWriter DEF ContinuesOK
<1> QED  BY <1>2, <1>3, <1>4, <1>5, <1>6 DEF StoreOK

\* The commit that publishes or removes the ride keeps it.
LEMMA StorePublish ==
    ASSUME StoreOK, Publish \/ RemoveRide
    PROVE  StoreOK'
BY Settled DEF Publish, RemoveRide

\* A refused commit keeps it: the ride stays to be published.
LEMMA StorePublishFails ==
    ASSUME StoreOK, PublishFails
    PROVE  StoreOK'
<1>1. UNCHANGED <<media, ride>> /\ writer' = writer /\ pc = "commit" /\ pc' = "idle"
      /\ acked' = acked /\ boots' = boots /\ idles' = idles /\ refused' = TRUE
  BY DEF PublishFails, Refuses
<1>2. HeadersOK' /\ RideOK'  BY <1>1, NothingWritten
<1>3. ride # None /\ writer.state = "publish"  BY <1>1 DEF StoreOK, StageOK
<1>4. TypesOK'  BY <1>1 DEF StoreOK, TypesOK, media, Stages
<1>5. StageOK'  BY <1>1, <1>3 DEF StageOK, Plain, Rolling
<1>6. ContinuesOK'  BY <1>1 DEF StoreOK, ContinuesOK
<1> QED  BY <1>2, <1>4, <1>5, <1>6 DEF StoreOK

\* A power cut keeps it: what it leaves on the card is well-formed.
LEMMA StoreCut ==
    ASSUME StoreOK, Cut
    PROVE  StoreOK'
<1>1. /\ ride' = None /\ writer' = Writer("idle", <<>>, <<>>) /\ pc' = "mount"
      /\ boots' = boots + 1 /\ acked' = acked /\ refused' = refused /\ idles' = idles
      /\ boots < (IF refused THEN MaxRefusedBoots ELSE MaxBoots)
  BY DEF Cut
<1>2. /\ heads' \in [Ring -> HeaderType \cup {None}]
      /\ tails' \in [Ring -> Bytes \cup {Torn}]
      /\ pages' \in [0 .. Reserve \div Page -> Bytes \cup {Torn}]
      /\ HeadersOK'
  <2>1. CASE InFlight(FALSE)
    <3>1. ride # None  BY <2>1 DEF InFlight, StoreOK, StageOK
    <3> QED  BY <2>1, <3>1, CommandUnderWay
  <2>2. CASE UNCHANGED media
    <3>1. HeadersOK'  BY <2>2 DEF StoreOK, media, HeadersOK, HeaderOK, Ends, SlotOf
    <3> QED  BY <2>2, <3>1 DEF StoreOK, TypesOK, media
  <2> QED  BY <2>1, <2>2 DEF Cut
<1>3. boots' \in 0 .. MaxBoots
  <2>1. boots \in 0 .. MaxBoots /\ MaxBoots \in Nat /\ MaxRefusedBoots \in 0 .. MaxBoots
        /\ refused \in BOOLEAN
    BY JournalAssumption DEF StoreOK, TypesOK
  <2> QED  BY <2>1, <1>1
<1>4. TypesOK'  BY <1>1, <1>2, <1>3, IdleWriter DEF StoreOK, TypesOK, Stages
<1>5. RideOK'  BY <1>1 DEF RideOK
<1>6. StageOK'  BY <1>1, IdleWriter DEF StageOK, Plain, Rolling
<1>7. ContinuesOK'  BY <1>1, IdleWriter DEF ContinuesOK
<1> QED  BY <1>2, <1>4, <1>5, <1>6, <1>7 DEF StoreOK

\* A ride that has no slot yet.
LEMMA EmptyRideOK ==
    /\ EmptyRide \in RideType /\ Len(EmptyRide.tail) < Page /\ EmptyRide.flushed % Page = 0
    /\ Ends(EmptyRide.payload, EmptyRide.flushed, EmptyRide.tail)
    /\ EmptyRide.pending_proof = 0 /\ EmptyRide.next_sequence = 1
    /\ EmptyRide.flushed = 0 /\ EmptyRide.tail = <<>> /\ EmptyRide.payload = <<>>
<1>1. EmptyRide \in RideType  BY EmptyBytes DEF EmptyRide, RideType
<1>2. /\ EmptyRide.pending_proof = 0 /\ EmptyRide.next_sequence = 1
      /\ EmptyRide.flushed = 0 /\ EmptyRide.tail = <<>> /\ EmptyRide.payload = <<>>
  BY DEF EmptyRide
<1>3. Len(<<>>) = 0 /\ Page \in Nat /\ Page >= 2  BY EmptyBytes, PageNat
<1>4. 0 % Page = 0  BY <1>3
<1>5. Ends(<<>>, 0, <<>>)  BY <1>3 DEF Ends
<1> QED  BY <1>1, <1>2, <1>3, <1>4, <1>5

\* recover_ride keeps it: the newest candidate is intact and becomes the source.
LEMMA StoreRecoverRide ==
    ASSUME StoreOK, recover_ride
    PROVE  StoreOK'
<1>1. pc = "mount" /\ UNCHANGED <<media, writer, acked, published, counts>>
      /\ pc' = IF ride'.pending_proof = 0 THEN "recover" ELSE "repairing"
  BY DEF recover_ride
<1>2. HeadersOK'  BY <1>1 DEF StoreOK, media, HeadersOK, HeaderOK, Ends, SlotOf
<1>3. ride' \in RideType /\ RideOK'
  <2>1. CASE ride' = EmptyRide
    <3>1. /\ ride' \in RideType /\ Len(ride'.tail) < Page /\ ride'.flushed % Page = 0
          /\ Ends(ride'.payload, ride'.flushed, ride'.tail)
          /\ ride'.pending_proof = 0 /\ ride'.next_sequence = 1
          /\ ride'.flushed = 0 /\ ride'.tail = <<>> /\ ride'.payload = <<>>
      BY <2>1, EmptyRideOK
    <3>2. current_ride_slot' /\ SourceIntact'
      BY <3>1 DEF current_ride_slot, SourceIntact
    <3> QED  BY <3>1, <3>2 DEF RideOK, Ends
  <2>2. CASE \E read \in SUBSET Ring : \E i \in Candidates(read) : ride' = Resumed(i)
    <3>1. PICK read \in SUBSET Ring : \E i \in Candidates(read) : ride' = Resumed(i)
      BY <2>2
    <3>2. PICK i \in Candidates(read) : ride' = Resumed(i)  BY <3>1
    <3>3. i \in Ring /\ slot_intact(i) /\ ~heads[i].proof  BY <3>1, <3>2 DEF Candidates
    <3>4. heads[i] # None /\ tails[i] = heads[i].tail /\ heads[i] \in HeaderType
          /\ HeaderOK(i, heads[i])
      BY <3>3 DEF slot_intact, StoreOK, TypesOK, HeadersOK
    <3> DEFINE h == heads[i]
    <3>5. /\ ride' \in RideType
          /\ ride'.next_sequence = h.sequence + 1 /\ ride'.flushed = h.flushed
          /\ ride'.tail = h.tail /\ ride'.payload = h.payload
          /\ ride'.pending_proof = h.proof_sequence
      BY <3>2, <3>4, EmptyBytes DEF Resumed, RideType, HeaderType
    <3>6. /\ h \in HeaderType /\ ~h.proof /\ HeaderOK(SlotOf(h.sequence), h)
          /\ heads'[SlotOf(h.sequence)] = h /\ tails'[SlotOf(h.sequence)] = h.tail
      BY <1>1, <3>3, <3>4 DEF HeaderOK, media
    <3> HIDE DEF h
    <3> QED  BY <3>5, <3>6, TakenUp
  <2> QED  BY <2>1, <2>2 DEF recover_ride
<1>4. ride' # None  BY <1>3, NoneAssumption
<1>5. TypesOK'  BY <1>1, <1>3 DEF StoreOK, TypesOK, media, counts, Stages
<1>6. StageOK'  BY <1>1, <1>4 DEF StoreOK, StageOK, Plain, Rolling
<1>7. ContinuesOK'  BY <1>1 DEF StoreOK, StageOK, ContinuesOK
<1> QED  BY <1>2, <1>3, <1>5, <1>6, <1>7 DEF StoreOK

\* The repair of the page at mount keeps it.
LEMMA StoreRecoverRepair ==
    ASSUME StoreOK, RecoverRepair
    PROVE  StoreOK'
<1>1. pc = "repairing" /\ InFlight(TRUE) /\ ride' = Repaired /\ pc' = "recover"
      /\ UNCHANGED <<writer, acked, published, counts>>
  BY DEF RecoverRepair
<1>2. ride # None /\ writer.state = "idle"  BY <1>1 DEF StoreOK, StageOK
<1>3. UNCHANGED <<heads, tails>>  BY <1>1 DEF InFlight
<1>4. pages' \in [0 .. Reserve \div Page -> Bytes \cup {Torn}]
  BY <1>1, <1>2, CommandUnderWay
<1>5. /\ RideOK' /\ HeadersOK' /\ ride' \in RideType /\ ride'.pending_proof = 0
  BY <1>1, <1>2, <1>3, RepairKeeps
<1>6. ride' # None  BY <1>5, NoneAssumption
<1>7. TypesOK'  BY <1>1, <1>3, <1>4, <1>5 DEF StoreOK, TypesOK, counts, Stages
<1>8. StageOK'  BY <1>1, <1>2, <1>5, <1>6 DEF StageOK, Plain, Rolling
<1>9. ContinuesOK'  BY <1>1, <1>2 DEF StoreOK, ContinuesOK
<1> QED  BY <1>5, <1>7, <1>8, <1>9 DEF StoreOK

\* A mount that fails closed keeps it.
LEMMA StoreRecoverFails ==
    ASSUME StoreOK, RecoverFails
    PROVE  StoreOK'
<1>1. pc = "repairing" /\ InFlight(FALSE) /\ ride' = None /\ pc' = "unreadable"
      /\ writer' = writer /\ acked' = acked /\ refused' = TRUE /\ boots' = boots
      /\ idles' = idles
  BY DEF RecoverFails, Refuses
<1>2. ride # None /\ writer.state = "idle"  BY <1>1 DEF StoreOK, StageOK
<1>3. /\ heads' \in [Ring -> HeaderType \cup {None}]
      /\ tails' \in [Ring -> Bytes \cup {Torn}]
      /\ pages' \in [0 .. Reserve \div Page -> Bytes \cup {Torn}]
      /\ HeadersOK'
  BY <1>1, <1>2, CommandUnderWay
<1>4. TypesOK'  BY <1>1, <1>3 DEF StoreOK, TypesOK, Stages
<1>5. RideOK'  BY <1>1 DEF RideOK
<1>6. StageOK'  BY <1>1, <1>2 DEF StageOK, Plain, Rolling
<1>7. ContinuesOK'  BY <1>1, <1>2 DEF StoreOK, ContinuesOK
<1> QED  BY <1>3, <1>4, <1>5, <1>6, <1>7 DEF StoreOK

\* RideWriter::recover keeps it: the running CRC restarts from the one the store
\* resumed.
LEMMA StoreRecover ==
    ASSUME StoreOK, recover
    PROVE  StoreOK'
<1>1. /\ pc = "recover" /\ pc' = "idle" /\ UNCHANGED <<media, ride>>
      /\ acked' = acked /\ UNCHANGED counts
  BY DEF recover
<1>2. ride # None /\ ride.pending_proof = 0  BY <1>1 DEF StoreOK, StageOK
<1>3. ride.payload \in Bytes  BY <1>2, RideFields DEF StoreOK, TypesOK
<1>4. PICK s \in {"publish", "live"} : writer' = Writer(s, <<>>, ride.payload)
  BY DEF recover
<1>5. /\ writer'.state = s /\ writer'.append = <<>> /\ writer'.crc = ride.payload
      /\ writer' \in [state : States, append : Bytes, crc : Bytes]
  BY <1>3, <1>4, EmptyBytes DEF Writer, States
<1>6. HeadersOK' /\ RideOK'  BY <1>1, NothingWritten
<1>7. TypesOK'  BY <1>1, <1>5 DEF StoreOK, TypesOK, media, counts, Stages
<1>8. StageOK'  BY <1>1, <1>2, <1>5 DEF StageOK, Plain, Rolling
<1>9. ContinuesOK'
  <2>1. Len(<<>>) + 1 <= Delta /\ Len(<<>>) <= Delta  BY EmptyBytes, JournalAssumption
  <2>2. ride.payload \o <<>> = ride.payload  BY <1>3, ConcatEmptySeq DEF Bytes
  <2> QED  BY <1>1, <1>2, <1>5, <2>1, <2>2 DEF ContinuesOK
<1> QED  BY <1>6, <1>7, <1>8, <1>9 DEF StoreOK

\* It holds of a ride that has just begun.
LEMMA StoreInit ==
    ASSUME Init
    PROVE  StoreOK
<1> USE DEF Init
<1>1. TypesOK
  <2>1. Writer("live", <<>>, <<>>) \in [state : States, append : Bytes, crc : Bytes]
    BY EmptyBytes DEF Writer, States
  <2>2. boots \in 0 .. MaxBoots /\ idles \in 0 .. MaxIdle /\ refused \in BOOLEAN
    <3>1. \A n \in Nat : 0 \in 0 .. n  OBVIOUS
    <3>2. MaxBoots \in Nat /\ MaxIdle \in Nat  BY JournalAssumption
    <3>3. 0 \in 0 .. MaxBoots /\ 0 \in 0 .. MaxIdle  BY <3>1, <3>2
    <3>4. refused = FALSE  OBVIOUS
    <3> QED  BY <3>3, <3>4
  <2>3. /\ heads \in [Ring -> HeaderType \cup {None}]
        /\ tails \in [Ring -> Bytes \cup {Torn}]
        /\ pages \in [0 .. Reserve \div Page -> Bytes \cup {Torn}]
    OBVIOUS
  <2>4. acked \in Bytes /\ pc \in Stages  BY EmptyBytes DEF Stages
  <2>5. ride \in RideType  BY EmptyRideOK
  <2> QED  BY <2>1, <2>2, <2>3, <2>4, <2>5 DEF TypesOK
<1>2. HeadersOK  BY DEF HeadersOK
<1>3. RideOK
  <2>1. current_ride_slot /\ SourceIntact
    BY EmptyRideOK DEF current_ride_slot, SourceIntact
  <2> QED  BY <2>1, EmptyRideOK DEF RideOK
<1>4. EmptyRide # None  BY EmptyRideOK, NoneAssumption
<1>5. StageOK  BY <1>4 DEF StageOK, Plain, Rolling, Writer
<1>6. ContinuesOK
  <2>1. Len(<<>>) + 1 <= Delta /\ Len(<<>>) <= Delta  BY EmptyBytes, JournalAssumption
  <2>2. <<>> \o <<>> = <<>>  BY EmptyBytes, ConcatEmptySeq DEF Bytes
  <2> QED  BY <2>1, <2>2, EmptyRideOK DEF ContinuesOK, Writer
<1> QED  BY <1>1, <1>2, <1>3, <1>5, <1>6 DEF StoreOK

\* Every step keeps it.
LEMMA StoreStep ==
    ASSUME StoreOK, [Next]_vars
    PROVE  StoreOK'
<1>1. CASE UNCHANGED vars
  <2>1. HeadersOK' /\ RideOK'  BY <1>1, NothingWritten DEF vars, media
  <2>2. TypesOK'  BY <1>1 DEF vars, StoreOK, TypesOK
  <2>3. StageOK'
    BY <1>1 DEF vars, StoreOK, StageOK, Ordinary, ProofPart, LogicalPart, Header, IntoPage, Spill, SlotOf
  <2>4. ContinuesOK'  BY <1>1 DEF vars, StoreOK, ContinuesOK
  <2> QED  BY <2>1, <2>2, <2>3, <2>4 DEF StoreOK
<1>2. CASE append  BY <1>2, StoreAppend
<1>3. CASE checkpoint  BY <1>3, StoreCheckpoint
<1>4. CASE finish  BY <1>4, StoreFinish
<1>5. CASE discard  BY <1>5, StoreDiscard
<1>6. CASE journal  BY <1>6, StoreJournal
<1>7. CASE TailDone  BY <1>7, StoreTailDone
<1>8. CASE HeadDone  BY <1>8, StoreHeadDone
<1>9. CASE ProofDone  BY <1>9, StoreProofDone
<1>10. CASE LogicalDone  BY <1>10, StoreLogicalDone
<1>11. CASE repair_rollover  BY <1>11, StoreRepairRollover
<1>12. CASE JournalFails  BY <1>12, StoreJournalFails
<1>13. CASE BeginPublish  BY <1>13, StoreBeginPublish
<1>14. CASE flush_ride_tail  BY <1>14, StoreFlush
<1>15. CASE Publish  BY <1>15, StorePublish
<1>16. CASE PublishFails  BY <1>16, StorePublishFails
<1>17. CASE RemoveRide  BY <1>17, StorePublish
<1>18. CASE Cut  BY <1>18, StoreCut
<1>19. CASE recover_ride  BY <1>19, StoreRecoverRide
<1>20. CASE RecoverRepair  BY <1>20, StoreRecoverRepair
<1>21. CASE RecoverFails  BY <1>21, StoreRecoverFails
<1>22. CASE recover  BY <1>22, StoreRecover
<1> QED
  BY <1>1, <1>2, <1>3, <1>4, <1>5, <1>6, <1>7, <1>8, <1>9, <1>10, <1>11, <1>12, <1>13,
     <1>14, <1>15, <1>16, <1>17, <1>18, <1>19, <1>20, <1>21, <1>22 DEF Next

\* Whatever is refused, cut or unreadable at mount, every header on the card keeps
\* its shape, the slot the ride continues from is intact, and the running CRC of the
\* writer continues that of the store.
THEOREM StoreIsInvariant == Spec => []StoreOK
<1>1. Init => StoreOK  BY StoreInit
<1>2. StoreOK /\ [Next]_vars => StoreOK'  BY StoreStep
<1> QED  BY <1>1, <1>2, PTL DEF Spec

\* The store never wedges a ride: a checkpoint that is outstanding is accepted when
\* it is asked for again, after every refusal and at every place of a rollover
\* (Retriable; store.rs journal against RideWriter's retry).
THEOREM RideIsRetriable == Spec => []Retriable
<1>1. StoreOK => Retriable
  <2> SUFFICES ASSUME StoreOK, Idle PROVE Retriable  BY DEF Retriable
  <2>1. ride # None /\ writer.state # "idle"  BY DEF Idle, StoreOK, StageOK
  <2>2. current_ride_slot /\ SourceIntact  BY <2>1 DEF StoreOK, RideOK
  <2>3. ASSUME writer.state \in Outstanding PROVE Journals
    BY <2>1, <2>2 DEF StoreOK, ContinuesOK, Journals
  <2>4. ASSUME writer.state = "publish" PROVE writer.crc = ride.payload
    <3>1. ride.payload \in Bytes  BY <2>1, RideFields DEF StoreOK, TypesOK
    <3>2. ride.payload \o <<>> = ride.payload  BY <3>1, ConcatEmptySeq DEF Bytes
    <3> QED  BY <2>1, <2>4, <3>2 DEF StoreOK, ContinuesOK, Outstanding
  <2> QED  BY <2>2, <2>3, <2>4 DEF Retriable, Outstanding
<1> QED  BY <1>1, StoreIsInvariant, PTL

-----------------------------------------------------------------------------
(* What the card holds of the ride.                                        *)

\* The sample at one offset of the ride's extents.
Cell(pg, n) ==
    LET page == pg[(n - 1) \div Page]
        at   == ((n - 1) % Page) + 1
    IN  IF at \in DOMAIN page THEN page[at] ELSE None

\* The first bytes of the ride's extents are those of a payload.
Holds(pg, payload, upto) == \A n \in 1 .. upto : Cell(pg, n) = payload[n]

\* The pages that are on the card: all below flushed, but for the one whose copy is
\* owed.
PageEnd == IF ride.pending_proof = 0 THEN ride.flushed ELSE ride.flushed - Page

\* A proof slot holds the last page before flushed.
ProofGood(hs, ts, p, payload, flushed) ==
    LET h == hs[SlotOf(p)] IN
    /\ h # None /\ ts[SlotOf(p)] = h.tail
    /\ h.proof /\ h.sequence = p /\ h.flushed + Page = flushed
    /\ \A n \in 1 .. Page : h.tail[n] = payload[flushed - Page + n]

\* The proof that the source names holds its page.
ProofHeld(hs, ts) ==
    ride.next_sequence > 1 /\ hs[Source].proof_sequence # 0 =>
        ProofGood(hs, ts, hs[Source].proof_sequence, ride.payload, ride.flushed)

\* A header that belongs to the outstanding checkpoint.
Attempt(h) ==
    /\ ride.pending_proof = 0 /\ writer.state \in Outstanding \cup {"discard"}
    /\ IF Len(ride.tail) + Len(writer.append) < Page
       THEN h = Ordinary
       ELSE h = ProofPart \/ h = LogicalPart

\* A slot holds a header that is newer than the ride.
Ahead(hs, j) == hs[j] # None /\ hs[j].sequence >= ride.next_sequence

\* Headers newer than the ride: without a refusal only a proof that a cut left
\* alone, and in the first boot only those of the checkpoint that is still to be
\* retried.
Disk(hs, ts, pg) ==
    /\ Holds(pg, ride.payload, PageEnd)
    /\ ProofHeld(hs, ts)
    /\ ~refused => \A j \in Ring : Ahead(hs, j) =>
         \/ hs[j].proof /\ hs[j].sequence = ride.next_sequence
         \/ pc \in {"head", "logical_head"} /\ hs[j] = SlotWrite
    /\ boots = 0 => \A j \in Ring : Ahead(hs, j) => Attempt(hs[j])
    /\ pc \in {"logical_tail", "logical_head"} =>
         /\ hs[SlotOf(ride.next_sequence)] = ProofPart
         /\ ts[SlotOf(ride.next_sequence)] = ProofPart.tail

\* A payload that ends with the footer.
Whole(s)   == s # <<>> /\ Last(s) = Footer
\* A payload that leaves room for the footer, or has it.
Bounded(s) == Len(s) + 1 <= Reserve \/ (Whole(s) /\ Len(s) <= Reserve)

\* What holds of a mounted ride: its payload starts with what was acknowledged, and
\* the card holds it.
RidePart ==
    ride # None =>
        /\ Disk(heads, tails, pages)
        /\ IsPrefix(acked, ride.payload)
        /\ Bounded(ride.payload)

\* No header on the card describes more than the reserve takes.
HeadsBounded ==
    \A i \in Ring : heads[i] # None /\ ~heads[i].proof => Bounded(heads[i].payload)

\* Neither does the writer's CRC, with what is still to come.
WriterBounded ==
    /\ Len(writer.crc) <= Reserve
    /\ writer.state \in {"live", "pending", "repair"} => Len(writer.crc) + 1 <= Reserve
    /\ writer.state \in {"closing", "publish"} => Whole(writer.crc)

\* Before the commit, the last partial page is in its place.
TailPublished ==
    pc = "commit" /\ ride.tail # <<>> => pages[ride.flushed \div Page] = ride.tail

\* A ride whose mount failed has seen a refusal.
Booted ==
    /\ pc \in {"mount", "repairing", "recover", "unreadable"} => boots # 0
    /\ pc = "unreadable" => refused

\* Newer headers than those of one attempt are proofs that a cut left without their
\* logical slot.
LoneProofs(hs, m) ==
    \A j \in Ring : hs[j] # None /\ hs[j].sequence >= m =>
        hs[j].proof /\ hs[j].sequence = m

\* The candidate that a mount takes up.
Newest(i) ==
    /\ i \in Candidates(Ring)
    /\ \A j \in Candidates(Ring) : heads[j].sequence <= heads[i].sequence

\* Whatever the next mount finds, it is the ride: the newest candidate describes a
\* payload that starts with what was acknowledged, its pages are on the card, and
\* the last of them is there or in the proof the candidate names.
Recoverable ==
    /\ Candidates(Ring) = {} => acked = <<>> /\ (~refused => LoneProofs(heads, 1))
    /\ \A i \in Ring : Newest(i) =>
         /\ IsPrefix(acked, heads[i].payload)
         /\ Holds(pages, heads[i].payload,
                  IF heads[i].proof_sequence = 0 THEN heads[i].flushed
                  ELSE heads[i].flushed - Page)
         /\ heads[i].proof_sequence # 0 =>
              ProofGood(heads, tails, heads[i].proof_sequence, heads[i].payload,
                        heads[i].flushed)
         /\ ~refused => LoneProofs(heads, heads[i].sequence + 1)

\* It holds from a cut to the mount.
MountPart == pc = "mount" => Recoverable

\* A published ride is whole.
PublishedPart ==
    published # None =>
        /\ pc = "ended"
        /\ published \in [crc : Bytes, bytes : Bytes]
        /\ PublishedIsWhole

\* The inductive invariant of the ride's content, beside StoreOK.
ContentOK ==
    /\ RidePart /\ HeadsBounded /\ WriterBounded /\ TailPublished /\ Booted
    /\ MountPart /\ PublishedPart

-----------------------------------------------------------------------------
(* The proof slot the source names is neither of the next two slots.       *)
LEMMA ProofSlot ==
    ASSUME StoreOK, ride # None, ride.next_sequence > 1,
           heads[Source].proof_sequence # 0
    PROVE  /\ heads[Source].proof_sequence \in Nat
           /\ ride.next_sequence = heads[Source].proof_sequence + 2
           /\ SlotOf(heads[Source].proof_sequence) \in Ring
           /\ SlotOf(heads[Source].proof_sequence) # Source
           /\ SlotOf(heads[Source].proof_sequence) # SlotOf(ride.next_sequence)
           /\ Slots >= 4 =>
                SlotOf(heads[Source].proof_sequence) # SlotOf(ride.next_sequence + 1)
<1> DEFINE m == ride.next_sequence
           p == heads[Source].proof_sequence
<1>1. ride \in RideType  BY DEF StoreOK, TypesOK
<1>2. m \in Nat /\ Source \in Ring  BY <1>1, RideFields, RideSlots
<1>3. heads[Source] # None /\ ~heads[Source].proof /\ heads[Source].sequence = m - 1
  BY DEF StoreOK, RideOK, current_ride_slot, Source
<1>4. HeaderOK(Source, heads[Source])  BY <1>2, <1>3 DEF StoreOK, HeadersOK
<1>5. heads[Source].sequence = p + 1  BY <1>3, <1>4 DEF HeaderOK
<1>6. p \in Nat
  <2>1. heads[Source] \in HeaderType  BY <1>2, <1>3 DEF StoreOK, TypesOK
  <2> QED  BY <2>1 DEF HeaderType
<1>7. m = p + 2  BY <1>2, <1>3, <1>5, <1>6
<1>8. SlotOf(m - 1) = Source  BY DEF Source
<1> HIDE DEF m, p
<1>9. /\ p < m - 1 /\ m - 1 < p + Slots /\ p < m /\ m < p + Slots /\ p < m + 1
      /\ m - 1 \in Nat /\ m + 1 \in Nat
      /\ Slots >= 4 => m + 1 < p + Slots
  BY <1>2, <1>6, <1>7, PageNat
<1>10. SlotOf(p) # SlotOf(m - 1)  BY <1>6, <1>9, RingDistinct
<1>11. SlotOf(p) # SlotOf(m)  BY <1>2, <1>6, <1>9, RingDistinct
<1>12. Slots >= 4 => SlotOf(p) # SlotOf(m + 1)  BY <1>6, <1>9, RingDistinct
<1>13. SlotOf(p) \in Ring  BY <1>6, RingSlot
<1> QED  BY <1>6, <1>7, <1>8, <1>10, <1>11, <1>12, <1>13 DEF m, p

\* The pages of a ride lie within its reserve.
LEMMA RideWithin ==
    ASSUME StoreOK, RidePart, ride # None
    PROVE  /\ ride.flushed \in Nat /\ ride.flushed <= Reserve
           /\ Len(ride.payload) <= Reserve
           /\ ride.flushed \div Page \in 0 .. Reserve \div Page
           /\ PageEnd \in 0 .. ride.flushed /\ PageEnd % Page = 0
           /\ ride.pending_proof # 0 =>
                /\ PageEnd + Page = ride.flushed
                /\ PendingPage = PageEnd \div Page
                /\ PendingPage \in 0 .. Reserve \div Page
           /\ ride.pending_proof = 0 => PageEnd = ride.flushed
<1>1. ride \in RideType  BY DEF StoreOK, TypesOK
<1>2. /\ ride.flushed \in Nat /\ Len(ride.tail) \in Nat /\ Len(ride.payload) \in Nat
      /\ ride.pending_proof \in Nat
  BY <1>1, RideFields
<1>3. Len(ride.payload) = ride.flushed + Len(ride.tail) /\ ride.flushed % Page = 0
  BY DEF StoreOK, RideOK, Ends
<1>4. Len(ride.payload) <= Reserve  BY <1>2, PageNat DEF RidePart, Bounded
<1>5. ride.flushed <= Reserve  BY <1>2, <1>3, <1>4, PageNat
<1>6. ride.flushed \div Page \in 0 .. Reserve \div Page  BY <1>2, <1>5, PageNat, PagesWithin
<1>7. CASE ride.pending_proof = 0
  BY <1>2, <1>3, <1>4, <1>5, <1>6, <1>7 DEF PageEnd
<1>8. CASE ride.pending_proof # 0
  <2> DEFINE e == ride.flushed - Page
  <2>1. ride.flushed >= Page  BY <1>8 DEF StoreOK, RideOK
  <2>2. e \in Nat /\ e + Page = ride.flushed /\ e <= ride.flushed /\ PageEnd = e
    BY <1>2, <1>8, <2>1, PageNat DEF PageEnd
  <2>3. e % Page = 0 /\ e \div Page \in Nat /\ ride.flushed \div Page = (e \div Page) + 1
    BY <1>2, <1>3, <2>1, PageBefore
  <2>4. e \div Page \in 0 .. Reserve \div Page  BY <2>2, <1>5, PageNat, PagesWithin
  <2>5. PendingPage = e \div Page
    <3> HIDE DEF e
    <3> QED  BY <2>3 DEF PendingPage
  <2> HIDE DEF e
  <2> QED  BY <1>2, <1>4, <1>5, <1>6, <1>8, <2>2, <2>3, <2>4, <2>5
<1> QED  BY <1>7, <1>8

\* What a card command may change.
Touches ==
    /\ \A j \in Ring : j # SlotOf(ride.next_sequence) /\ j # SlotOf(ride.next_sequence + 1) =>
         heads'[j] = heads[j] /\ tails'[j] = tails[j]
    /\ \A j \in Ring : heads'[j] # heads[j] =>
         /\ heads'[j] \in {None, SlotWrite}
         /\ pc \in {"head", "proof_head", "logical_head"}
    /\ \A n \in 1 .. PageEnd : Cell(pages', n) = Cell(pages, n)
    /\ pc \in {"logical_tail", "logical_head"} =>
         /\ heads'[SlotOf(ride.next_sequence)] = heads[SlotOf(ride.next_sequence)]
         /\ tails'[SlotOf(ride.next_sequence)] = tails[SlotOf(ride.next_sequence)]

\* A write behind the pages that count leaves their bytes.
LEMMA PagesTouched ==
    ASSUME StoreOK, RidePart, ride # None, NEW k,
           \A j \in 0 .. Reserve \div Page : j # k => pages'[j] = pages[j],
           k = PageEnd \div Page
    PROVE  \A n \in 1 .. PageEnd : Cell(pages', n) = Cell(pages, n)
<1> DEFINE e == PageEnd
<1>1. e \in Nat /\ e % Page = 0 /\ e <= Reserve
  <2>1. ride.flushed \in Nat /\ ride.flushed <= Reserve /\ e \in 0 .. ride.flushed /\ e % Page = 0
    BY RideWithin
  <2> HIDE DEF e
  <2> QED  BY <2>1, PageNat
<1>2. e \div Page \in 0 .. Reserve \div Page  BY <1>1, PageNat, PagesWithin
<1> HIDE DEF e
<1>3. ASSUME NEW n \in 1 .. e PROVE Cell(pages', n) = Cell(pages, n)
  <2> DEFINE q == e \div Page
             d == (n - 1) \div Page
             z == Reserve \div Page
  <2>1. d \in 0 .. q - 1  BY <1>1, BelowPages
  <2>2. q \in 0 .. z /\ z \in Nat  BY <1>2, PageNat, Divided
  <2>3. k = q  BY DEF e
  <2>4. \A j \in 0 .. z : j # k => pages'[j] = pages[j]  OBVIOUS
  <2>5. pages'[d] = pages[d]
    <3> HIDE DEF q, d, z
    <3>1. d \in 0 .. z /\ d # k  BY <2>1, <2>2, <2>3
    <3> QED  BY <2>4, <3>1
  <2> QED  BY <2>5 DEF Cell
<1> QED  BY <1>3 DEF e

\* Every card command of the store, finished or not, changes no more than that:
\* never the source slot, never a page that counts.
LEMMA CommandTouches ==
    ASSUME StoreOK, RidePart, ride # None, NEW ends \in BOOLEAN, InFlight(ends)
    PROVE  Touches
<1> USE DEF StoreOK
<1>0. ride \in RideType  BY DEF TypesOK
<1>1. CASE /\ pc \in {"tail", "proof_tail", "logical_tail"}
           /\ WriteTail(ends)
           /\ UNCHANGED <<heads, pages>>
  <2>1. pc \in Plain \cup Rolling  BY <1>1 DEF Plain, Rolling
  <2>2. \A j \in Ring : j # SlotOf(SlotWrite.sequence) => tails'[j] = tails[j]
    BY <1>1, <2>1, TailWrite
  <2>3. SlotWrite.sequence \in {ride.next_sequence, ride.next_sequence + 1}
    BY <2>1, SlotWriteOK
  <2>4. ASSUME pc \in {"logical_tail", "logical_head"}
        PROVE  tails'[SlotOf(ride.next_sequence)] = tails[SlotOf(ride.next_sequence)]
    <3>1. SlotWrite.sequence = ride.next_sequence + 1
      <4>1. SlotWrite = LogicalPart  BY <2>4, SlotWriteIs
      <4> QED  BY <4>1 DEF LogicalPart, Header
    <3> QED  BY <1>0, <2>2, <3>1, RideSlots
  <2>5. \A n \in 1 .. PageEnd : Cell(pages', n) = Cell(pages, n)  BY <1>1
  <2>6. \A j \in Ring : j # SlotOf(ride.next_sequence) /\ j # SlotOf(ride.next_sequence + 1) =>
          heads'[j] = heads[j] /\ tails'[j] = tails[j]
    BY <1>1, <2>2, <2>3
  <2> QED  BY <1>1, <2>4, <2>5, <2>6 DEF Touches
<1>2. CASE /\ pc \in {"head", "proof_head", "logical_head"}
           /\ WriteHead(ends)
           /\ UNCHANGED <<tails, pages>>
  <2>1. pc \in Plain \cup Rolling  BY <1>2 DEF Plain, Rolling
  <2>2. /\ \A j \in Ring : j # SlotOf(SlotWrite.sequence) => heads'[j] = heads[j]
        /\ heads'[SlotOf(SlotWrite.sequence)]
             \in {heads[SlotOf(SlotWrite.sequence)], None, SlotWrite}
    BY <1>2, <2>1, HeadWrite
  <2>3. SlotWrite.sequence \in {ride.next_sequence, ride.next_sequence + 1}
    BY <2>1, SlotWriteOK
  <2>4. ASSUME pc \in {"logical_tail", "logical_head"}
        PROVE  heads'[SlotOf(ride.next_sequence)] = heads[SlotOf(ride.next_sequence)]
    <3>1. SlotWrite.sequence = ride.next_sequence + 1
      <4>1. SlotWrite = LogicalPart  BY <2>4, SlotWriteIs
      <4> QED  BY <4>1 DEF LogicalPart, Header
    <3> QED  BY <1>0, <2>2, <3>1, RideSlots
  <2>5. \A n \in 1 .. PageEnd : Cell(pages', n) = Cell(pages, n)  BY <1>2
  <2>6. \A j \in Ring : j # SlotOf(ride.next_sequence) /\ j # SlotOf(ride.next_sequence + 1) =>
          heads'[j] = heads[j] /\ tails'[j] = tails[j]
    BY <1>2, <2>2, <2>3
  <2>7. \A j \in Ring : heads'[j] # heads[j] => heads'[j] \in {None, SlotWrite}
    BY <2>2
  <2> QED  BY <1>2, <2>4, <2>5, <2>6, <2>7 DEF Touches
<1>3. CASE /\ pc \in {"repair", "repairing"}
           /\ WritePage(PendingPage, tails[PendingProof], ends)
           /\ UNCHANGED <<heads, tails>>
  <2>1. PendingProof \in Ring  BY <1>0, RideSlots DEF PendingProof
  <2>2. tails[PendingProof] \in Bytes \cup {Torn}  BY <2>1 DEF TypesOK
  <2>3. \A j \in 0 .. Reserve \div Page : j # PendingPage => pages'[j] = pages[j]
    BY <1>3, <2>2, PageWrite
  <2>4. PendingPage = PageEnd \div Page
    <3>1. ride.pending_proof # 0  BY <1>3 DEF StageOK
    <3> QED  BY <3>1, RideWithin
  <2>5. \A n \in 1 .. PageEnd : Cell(pages', n) = Cell(pages, n)
    BY <2>3, <2>4, PagesTouched
  <2> QED  BY <1>3, <2>5 DEF Touches
<1>4. CASE /\ pc = "flush"
           /\ WritePage(ride.flushed \div Page, ride.tail, ends)
           /\ UNCHANGED <<heads, tails>>
  <2>1. ride.tail \in Bytes \cup {Torn}  BY <1>0, RideFields
  <2>2. \A j \in 0 .. Reserve \div Page : j # ride.flushed \div Page => pages'[j] = pages[j]
    BY <1>4, <2>1, PageWrite
  <2>3. ride.flushed \div Page = PageEnd \div Page
    <3>1. ride.pending_proof = 0  BY <1>4 DEF StageOK
    <3> QED  BY <3>1, RideWithin
  <2>4. \A n \in 1 .. PageEnd : Cell(pages', n) = Cell(pages, n)
    BY <2>2, <2>3, PagesTouched
  <2> QED  BY <1>4, <2>4 DEF Touches
<1> QED  BY <1>1, <1>2, <1>3, <1>4 DEF InFlight

\* What a slot under way belongs to.
LEMMA SlotWriteAttempt ==
    ASSUME StoreOK, WriterBounded, pc \in Plain \cup Rolling
    PROVE  /\ Attempt(SlotWrite)
           /\ pc \in {"proof_tail", "proof_head"} =>
                SlotWrite.proof /\ SlotWrite.sequence = ride.next_sequence
           /\ ~SlotWrite.proof => Bounded(SlotWrite.payload)
<1> USE DEF StoreOK
<1>1. /\ ride # None /\ ride.pending_proof = 0 /\ writer.state \in Outstanding
      /\ writer.state # "idle"
  BY DEF StageOK, Plain, Rolling, Outstanding
<1>2. ride \in RideType /\ Len(writer.append) \in Nat /\ Len(ride.tail) \in Nat /\ Len(writer.crc) \in Nat
  BY <1>1, WriterFields, RideFields DEF TypesOK
<1>3. Bounded(writer.crc)  BY <1>1, <1>2, PageNat DEF WriterBounded, Bounded, Outstanding
<1>4. CASE pc \in Plain
  <2>1. SlotWrite = Ordinary  BY <1>4, SlotWriteIs
  <2>2. Len(ride.tail) + Len(writer.append) < Page  BY <1>4 DEF StageOK
  <2>3. Ordinary.payload = writer.crc  BY DEF Ordinary, Header
  <2> QED  BY <1>1, <1>3, <1>4, <2>1, <2>2, <2>3 DEF Attempt, Plain
<1>5. CASE pc \in {"proof_tail", "proof_head"}
  <2>1. SlotWrite = ProofPart  BY <1>5, SlotWriteIs
  <2>2. ~(Len(ride.tail) + Len(writer.append) < Page)
    <3> DEFINE n == Len(ride.tail)
               k == Len(writer.append)
    <3>1. n + k >= Page  BY <1>5 DEF StageOK, Rolling
    <3>2. n \in Nat /\ k \in Nat  BY <1>2
    <3> HIDE DEF n, k
    <3>3. ~(n + k < Page)  BY <3>1, <3>2, PageNat
    <3> QED  BY <3>3 DEF n, k
  <2>3. ProofPart.proof /\ ProofPart.sequence = ride.next_sequence  BY DEF ProofPart, Header
  <2> QED  BY <1>1, <1>5, <2>1, <2>2, <2>3 DEF Attempt
<1>6. CASE pc \in {"logical_tail", "logical_head"}
  <2>1. SlotWrite = LogicalPart  BY <1>6, SlotWriteIs
  <2>2. ~(Len(ride.tail) + Len(writer.append) < Page)
    <3> DEFINE n == Len(ride.tail)
               k == Len(writer.append)
    <3>1. n + k >= Page  BY <1>6 DEF StageOK, Rolling
    <3>2. n \in Nat /\ k \in Nat  BY <1>2
    <3> HIDE DEF n, k
    <3>3. ~(n + k < Page)  BY <3>1, <3>2, PageNat
    <3> QED  BY <3>3 DEF n, k
  <2>3. LogicalPart.payload = writer.crc  BY DEF LogicalPart, Header
  <2> QED  BY <1>1, <1>3, <1>6, <2>1, <2>2, <2>3 DEF Attempt
<1> QED  BY <1>4, <1>5, <1>6 DEF Rolling

\* A proof holds its page for as long as its slot is left alone.
LEMMA ProofGoodKept ==
    ASSUME NEW hs, NEW ts, NEW gs, NEW us, NEW p, NEW payload, NEW flushed,
           ProofGood(hs, ts, p, payload, flushed),
           gs[SlotOf(p)] = hs[SlotOf(p)], us[SlotOf(p)] = ts[SlotOf(p)]
    PROVE  ProofGood(gs, us, p, payload, flushed)
BY DEF ProofGood

\* A card command, finished or not, leaves the ride on the card.  A ring of three
\* slots would not do: the logical slot of a rollover would fall on the proof that
\* the source names.
LEMMA DiskKept ==
    ASSUME StoreOK, RidePart, WriterBounded, ride # None, Slots >= 4,
           NEW ends \in BOOLEAN, InFlight(ends)
    PROVE  Disk(heads', tails', pages')
<1>1. Touches  BY CommandTouches
<1>2. Disk(heads, tails, pages)  BY DEF RidePart
<1>3. Holds(pages', ride.payload, PageEnd)
  BY <1>1, <1>2 DEF Touches, Disk, Holds
<1>4. ProofHeld(heads', tails')
  <2> SUFFICES ASSUME ride.next_sequence > 1, heads'[Source].proof_sequence # 0
               PROVE  ProofGood(heads', tails', heads'[Source].proof_sequence,
                                ride.payload, ride.flushed)
    BY DEF ProofHeld
  <2>1. heads'[Source] = heads[Source]  BY CommandUnderWay
  <2> DEFINE p == heads[Source].proof_sequence
  <2>2. /\ SlotOf(p) \in Ring /\ SlotOf(p) # SlotOf(ride.next_sequence)
        /\ SlotOf(p) # SlotOf(ride.next_sequence + 1)
    BY <2>1, ProofSlot
  <2>3. heads'[SlotOf(p)] = heads[SlotOf(p)] /\ tails'[SlotOf(p)] = tails[SlotOf(p)]
    BY <1>1, <2>2 DEF Touches
  <2>4. ProofGood(heads, tails, p, ride.payload, ride.flushed)
    BY <1>2, <2>1 DEF Disk, ProofHeld
  <2> HIDE DEF p
  <2>5. ProofGood(heads', tails', p, ride.payload, ride.flushed)
    BY <2>3, <2>4, ProofGoodKept
  <2> QED  BY <2>1, <2>5 DEF p
<1>5. ASSUME NEW j \in Ring, Ahead(heads', j), heads'[j] # heads[j]
      PROVE  /\ heads'[j] = SlotWrite /\ pc \in {"head", "proof_head", "logical_head"}
             /\ Attempt(heads'[j])
             /\ pc = "proof_head" =>
                  heads'[j].proof /\ heads'[j].sequence = ride.next_sequence
  <2>1. heads'[j] \in {None, SlotWrite} /\ pc \in {"head", "proof_head", "logical_head"}
    BY <1>1, <1>5 DEF Touches
  <2>2. heads'[j] = SlotWrite  BY <1>5, <2>1 DEF Ahead
  <2>3. pc \in Plain \cup Rolling  BY <2>1 DEF Plain, Rolling
  <2> QED  BY <2>1, <2>2, <2>3, SlotWriteAttempt
<1>6. ASSUME NEW j \in Ring, Ahead(heads', j), heads'[j] = heads[j]
      PROVE  Ahead(heads, j)
  BY <1>6 DEF Ahead
<1>7. ASSUME ~refused, NEW j \in Ring, Ahead(heads', j)
      PROVE  \/ heads'[j].proof /\ heads'[j].sequence = ride.next_sequence
             \/ pc \in {"head", "logical_head"} /\ heads'[j] = SlotWrite
  <2>1. CASE heads'[j] = heads[j]
    <3>1. Ahead(heads, j)  BY <1>6, <1>7, <2>1
    <3>2. \/ heads[j].proof /\ heads[j].sequence = ride.next_sequence
          \/ pc \in {"head", "logical_head"} /\ heads[j] = SlotWrite
      BY <1>2, <1>7, <3>1 DEF Disk
    <3> QED  BY <2>1, <3>2
  <2>2. CASE heads'[j] # heads[j]  BY <1>5, <1>7, <2>2
  <2> QED  BY <2>1, <2>2
<1>8. ASSUME boots = 0, NEW j \in Ring, Ahead(heads', j)
      PROVE  Attempt(heads'[j])
  <2>1. CASE heads'[j] = heads[j]
    <3>1. Ahead(heads, j)  BY <1>6, <1>8, <2>1
    <3>2. Attempt(heads[j])  BY <1>2, <1>8, <3>1 DEF Disk
    <3> QED  BY <2>1, <3>2
  <2>2. CASE heads'[j] # heads[j]  BY <1>5, <1>8, <2>2
  <2> QED  BY <2>1, <2>2
<1>9. pc \in {"logical_tail", "logical_head"} =>
         /\ heads'[SlotOf(ride.next_sequence)] = ProofPart
         /\ tails'[SlotOf(ride.next_sequence)] = ProofPart.tail
  BY <1>1, <1>2 DEF Disk, Touches
<1> QED  BY <1>3, <1>4, <1>7, <1>8, <1>9 DEF Disk

\* And no header that describes more than the reserve takes.
LEMMA HeadsBoundedKept ==
    ASSUME StoreOK, RidePart, HeadsBounded, WriterBounded, ride # None,
           NEW ends \in BOOLEAN, InFlight(ends)
    PROVE  HeadsBounded'
<1>1. Touches  BY CommandTouches
<1>2. ASSUME NEW i \in Ring, heads'[i] # None, ~heads'[i].proof
      PROVE  Bounded(heads'[i].payload)
  <2>1. CASE heads'[i] = heads[i]  BY <1>2, <2>1 DEF HeadsBounded
  <2>2. CASE heads'[i] # heads[i]
    <3>1. heads'[i] = SlotWrite /\ pc \in Plain \cup Rolling
      BY <1>1, <1>2, <2>2 DEF Touches, Plain, Rolling
    <3> QED  BY <1>2, <3>1, SlotWriteAttempt
  <2> QED  BY <2>1, <2>2
<1> QED  BY <1>2 DEF HeadsBounded, Bounded, Whole

-----------------------------------------------------------------------------
(* Steps that leave the ride where it is.                                  *)

\* A header of the outstanding checkpoint stays one: the writer keeps its append, or
\* no command was under way.
StillAttempted ==
    \/ boots # 0
    \/ writer.state \notin Outstanding \cup {"discard"}
    \/ /\ writer'.append = writer.append /\ writer'.crc = writer.crc
       /\ writer'.state \in Outstanding \cup {"discard"}

\* The ride is on the card after a command, as soon as it was so in the middle of
\* it.
LEMMA DiskAfter ==
    ASSUME Disk(heads', tails', pages'), ride' = ride, boots' = boots, StillAttempted,
           (pc \notin {"head", "logical_head"} /\ refused' = refused) \/ refused' = TRUE,
           pc' \in {"logical_tail", "logical_head"} =>
             /\ writer' = writer
             /\ heads'[SlotOf(ride.next_sequence)] = ProofPart
             /\ tails'[SlotOf(ride.next_sequence)] = ProofPart.tail
    PROVE  Disk(heads, tails, pages)'
<1>1. \A n \in 1 .. PageEnd' : Cell(pages', n) = ride'.payload[n]
  <2>1. PageEnd' = PageEnd  BY DEF PageEnd
  <2> QED  BY <2>1 DEF Disk, Holds
<1>2. ASSUME ride'.next_sequence > 1, heads'[Source'].proof_sequence # 0
      PROVE  ProofGood(heads', tails', heads'[Source'].proof_sequence, ride'.payload,
                       ride'.flushed)
  <2>1. Source' = Source  BY DEF Source, SlotOf
  <2> QED  BY <1>2, <2>1 DEF Disk, ProofHeld
<1>3. ASSUME ~refused', NEW j \in Ring, heads'[j] # None,
             heads'[j].sequence >= ride'.next_sequence
      PROVE  heads'[j].proof /\ heads'[j].sequence = ride'.next_sequence
  <2>1. ~refused /\ pc \notin {"head", "logical_head"}  BY <1>3
  <2>2. Ahead(heads', j)  BY <1>3 DEF Ahead
  <2> QED  BY <2>1, <2>2 DEF Disk
<1>4. ASSUME boots' = 0, NEW j \in Ring, heads'[j] # None,
             heads'[j].sequence >= ride'.next_sequence
      PROVE  /\ ride'.pending_proof = 0 /\ writer'.state \in Outstanding \cup {"discard"}
             /\ IF Len(ride'.tail) + Len(writer'.append) < Page
                THEN heads'[j] = Ordinary'
                ELSE heads'[j] = ProofPart' \/ heads'[j] = LogicalPart'
  <2>1. Ahead(heads', j)  BY <1>4 DEF Ahead
  <2>2. Attempt(heads'[j])  BY <1>4, <2>1 DEF Disk
  <2>3. /\ writer'.append = writer.append /\ writer'.crc = writer.crc
        /\ writer'.state \in Outstanding \cup {"discard"}
    BY <1>4, <2>2 DEF Attempt, StillAttempted
  <2>4. Ordinary' = Ordinary  BY <2>3 DEF Ordinary, Header
  <2>5. ProofPart' = ProofPart  BY <2>3 DEF ProofPart, Header, IntoPage
  <2>6. LogicalPart' = LogicalPart  BY <2>3 DEF LogicalPart, Header, Spill
  <2>7. /\ ride.pending_proof = 0
        /\ IF Len(ride.tail) + Len(writer.append) < Page
           THEN heads'[j] = Ordinary
           ELSE heads'[j] = ProofPart \/ heads'[j] = LogicalPart
    BY <2>2 DEF Attempt
  <2> QED  BY <2>3, <2>4, <2>5, <2>6, <2>7
<1>5. pc' \in {"logical_tail", "logical_head"} =>
         /\ heads'[SlotOf(ride'.next_sequence)] = ProofPart'
         /\ tails'[SlotOf(ride'.next_sequence)] = ProofPart'.tail
  <2> SUFFICES ASSUME pc' \in {"logical_tail", "logical_head"}
               PROVE  /\ heads'[SlotOf(ride'.next_sequence)] = ProofPart'
                      /\ tails'[SlotOf(ride'.next_sequence)] = ProofPart'.tail
    OBVIOUS
  <2>1. ProofPart' = ProofPart  BY DEF ProofPart, Header, IntoPage
  <2> QED  BY <2>1
<1>6. Holds(pages, ride.payload, PageEnd)'  BY <1>1 DEF Holds, Cell
<1>7. ProofHeld(heads, tails)'  BY <1>2 DEF ProofHeld, ProofGood, SlotOf
<1>8. (~refused => \A j \in Ring : Ahead(heads, j) =>
         \/ heads[j].proof /\ heads[j].sequence = ride.next_sequence
         \/ pc \in {"head", "logical_head"} /\ heads[j] = SlotWrite)'
  BY <1>3 DEF Ahead
<1>9. (boots = 0 => \A j \in Ring : Ahead(heads, j) => Attempt(heads[j]))'
  BY <1>4 DEF Ahead, Attempt
<1>10. (pc \in {"logical_tail", "logical_head"} =>
         /\ heads[SlotOf(ride.next_sequence)] = ProofPart
         /\ tails[SlotOf(ride.next_sequence)] = ProofPart.tail)'
  BY <1>5 DEF SlotOf
<1> QED  BY <1>6, <1>7, <1>8, <1>9, <1>10 DEF Disk

\* A step that writes nothing leaves the ride on the card.
LEMMA RideStays ==
    ASSUME StoreOK, ContentOK, UNCHANGED <<media, ride, acked, boots>>, StillAttempted,
           pc \notin {"head", "logical_head"}, pc' \notin {"logical_tail", "logical_head"},
           refused' = refused \/ refused' = TRUE
    PROVE  RidePart' /\ HeadsBounded'
<1>1. HeadsBounded'  BY DEF ContentOK, HeadsBounded, Bounded, Whole, media
<1>2. RidePart'
  <2> SUFFICES ASSUME ride' # None PROVE RidePart'  BY DEF RidePart
  <2>1. /\ Disk(heads, tails, pages) /\ IsPrefix(acked, ride.payload) /\ Bounded(ride.payload)
    BY DEF ContentOK, RidePart
  <2>2. Disk(heads', tails', pages')  BY <2>1 DEF media
  <2>3. Disk(heads, tails, pages)'  BY <2>2, DiskAfter
  <2>4. IsPrefix(acked', ride'.payload) /\ Bounded(ride'.payload)  BY <2>1
  <2> QED  BY <2>3, <2>4 DEF RidePart, IsPrefix, Bounded, Whole, Last
<1> QED  BY <1>1, <1>2

\* A command that ends, or is refused, leaves the ride on the card.
LEMMA CommandStays ==
    ASSUME StoreOK, ContentOK, Slots >= 4, ride # None, NEW ends \in BOOLEAN, InFlight(ends),
           UNCHANGED <<ride, writer, acked, boots>>,
           (pc \notin {"head", "logical_head"} /\ refused' = refused) \/ refused' = TRUE,
           pc' \in {"logical_tail", "logical_head"} =>
             /\ heads'[SlotOf(ride.next_sequence)] = ProofPart
             /\ tails'[SlotOf(ride.next_sequence)] = ProofPart.tail
    PROVE  RidePart' /\ HeadsBounded'
<1>1. HeadsBounded'  BY HeadsBoundedKept DEF ContentOK
<1>2. Disk(heads', tails', pages')  BY DiskKept DEF ContentOK
<1>3. StillAttempted  BY DEF StillAttempted
<1>4. Disk(heads, tails, pages)'  BY <1>2, <1>3, DiskAfter
<1>5. IsPrefix(acked, ride.payload) /\ Bounded(ride.payload)  BY DEF ContentOK, RidePart
<1>6. IsPrefix(acked', ride'.payload) /\ Bounded(ride'.payload)  BY <1>5
<1> QED  BY <1>1, <1>4, <1>6 DEF RidePart, IsPrefix, Bounded, Whole, Last

\* A step of a mounted store is neither a mount nor an end.
LEMMA UnderWay ==
    ASSUME ContentOK, pc # "ended", published' = published, pc' # "mount", boots' = boots,
           refused' = refused \/ refused' = TRUE,
           pc' \in {"repairing", "recover", "unreadable"} =>
             pc \in {"mount", "repairing", "recover"},
           pc' = "unreadable" => refused' = TRUE
    PROVE  MountPart' /\ PublishedPart' /\ Booted'
<1>1. published' = None  BY DEF ContentOK, PublishedPart
<1>2. PublishedPart'  BY <1>1 DEF PublishedPart
<1>3. MountPart'  BY DEF MountPart
<1>4. Booted'  BY DEF ContentOK, Booted
<1> QED  BY <1>2, <1>3, <1>4

\* A payload with the footer behind it.
LEMMA Footed ==
    ASSUME NEW s \in Bytes
    PROVE  /\ s \o <<Footer>> \in Bytes /\ Len(s \o <<Footer>>) = Len(s) + 1
           /\ Whole(s \o <<Footer>>) /\ Len(s) \in Nat
<1>1. <<Footer>> \in Bytes /\ Len(<<Footer>>) = 1  BY SampleBytes DEF Sample
<1>2. Len(s) \in Nat  BY BytesLen
<1> DEFINE t == s \o <<Footer>>
<1>3. /\ t \in Bytes /\ Len(t) = Len(s) + 1
      /\ \A n \in 1 .. 1 : t[Len(s) + n] = <<Footer>>[n]
  BY <1>1, BytesConcat
<1>4. t[Len(s) + 1] = Footer
  <2>1. 1 \in 1 .. 1 /\ <<Footer>>[1] = Footer  OBVIOUS
  <2> QED  BY <1>3, <2>1
<1> HIDE DEF t
<1>5. t # <<>>  BY <1>2, <1>3, EmptyBytes
<1>6. Last(t) = Footer  BY <1>3, <1>4 DEF Last
<1> QED  BY <1>2, <1>3, <1>5, <1>6 DEF Whole, t

\* append keeps the content: it leaves room for the footer.
LEMMA ContentAppend ==
    ASSUME StoreOK, ContentOK, append
    PROVE  ContentOK'
<1> USE DEF append, Idle
<1>1. pc = "idle" /\ pc' = "idle" /\ writer.state = "live"
      /\ UNCHANGED <<media, ride, acked, published, counts>>
  OBVIOUS
<1>2. RidePart' /\ HeadsBounded'
  BY <1>1, RideStays DEF StillAttempted, Outstanding, counts
<1>3. MountPart' /\ PublishedPart' /\ Booted'  BY <1>1, UnderWay DEF counts
<1>4. TailPublished'  BY <1>1 DEF TailPublished
<1>5. WriterBounded'
  <2>1. boots \in Sample  BY BootIsSample DEF StoreOK
  <2> DEFINE c == writer.crc \o <<boots>>
  <2>2. Len(c) = Len(writer.crc) + 1  BY <1>1, <2>1, Joined
  <2>3. Len(writer.crc) \in Nat /\ Len(writer.crc) + 2 <= Reserve  BY WriterFields DEF StoreOK
  <2>4. writer'.state = "live" /\ writer'.crc = c  BY DEF Writer
  <2> HIDE DEF c
  <2>5. Len(c) + 1 <= Reserve /\ Len(c) <= Reserve  BY <2>2, <2>3, PageNat
  <2> QED  BY <2>4, <2>5 DEF WriterBounded
<1> QED  BY <1>2, <1>3, <1>4, <1>5 DEF ContentOK

\* checkpoint keeps it.
LEMMA ContentCheckpoint ==
    ASSUME StoreOK, ContentOK, checkpoint
    PROVE  ContentOK'
<1> USE DEF checkpoint, Idle
<1>1. /\ pc = "idle" /\ pc' = "idle" /\ writer.state = "live" /\ boots' = boots
      /\ refused' = refused /\ UNCHANGED <<media, ride, acked, published>>
  OBVIOUS
<1>2. writer'.state = "pending" /\ writer'.crc = writer.crc  BY DEF StoreOK, TypesOK
<1>3. RidePart' /\ HeadsBounded'
  BY <1>1, RideStays DEF StillAttempted, Outstanding
<1>4. MountPart' /\ PublishedPart' /\ Booted'  BY <1>1, UnderWay
<1>5. TailPublished'  BY <1>1 DEF TailPublished
<1>6. WriterBounded'  BY <1>1, <1>2 DEF ContentOK, WriterBounded
<1> QED  BY <1>3, <1>4, <1>5, <1>6 DEF ContentOK

\* finish keeps it: the one place that takes the room of the footer.
LEMMA ContentFinish ==
    ASSUME StoreOK, ContentOK, finish
    PROVE  ContentOK'
<1>1. /\ pc = "idle" /\ pc' = "idle" /\ UNCHANGED <<media, ride, acked, published, counts>>
      /\ \/ /\ writer.state = "live"
            /\ writer' = Writer("closing", writer.append \o <<Footer>>,
                                writer.crc \o <<Footer>>)
         \/ /\ writer.state = "pending"
            /\ writer' = [writer EXCEPT !.state = "repair"]
  BY DEF finish, Idle
<1>2. boots' = boots /\ refused' = refused  BY <1>1 DEF counts
<1>3. StillAttempted /\ WriterBounded'
  <2>1. CASE /\ writer.state = "live"
             /\ writer' = Writer("closing", writer.append \o <<Footer>>,
                                 writer.crc \o <<Footer>>)
    <3>1. writer.crc \in Bytes  BY WriterFields DEF StoreOK
    <3>2. /\ Len(writer.crc \o <<Footer>>) = Len(writer.crc) + 1
          /\ Whole(writer.crc \o <<Footer>>) /\ Len(writer.crc) \in Nat
      BY <3>1, Footed
    <3>3. Len(writer.crc) + 1 <= Reserve  BY <2>1 DEF ContentOK, WriterBounded
    <3>4. writer'.state = "closing" /\ writer'.crc = writer.crc \o <<Footer>>
      BY <2>1 DEF Writer
    <3>5. Len(writer'.crc) <= Reserve /\ Whole(writer'.crc)  BY <3>2, <3>3, <3>4
    <3>6. WriterBounded'  BY <3>4, <3>5 DEF WriterBounded, Whole, Last
    <3> QED  BY <2>1, <3>6 DEF StillAttempted, Outstanding
  <2>2. CASE /\ writer.state = "pending"
             /\ writer' = [writer EXCEPT !.state = "repair"]
    <3>1. writer'.state = "repair" /\ writer'.crc = writer.crc /\ writer'.append = writer.append
      BY <2>2 DEF StoreOK, TypesOK
    <3>2. WriterBounded'  BY <2>2, <3>1 DEF ContentOK, WriterBounded
    <3> QED  BY <3>1, <3>2 DEF StillAttempted, Outstanding
  <2> QED  BY <1>1, <2>1, <2>2
<1>4. RidePart' /\ HeadsBounded'  BY <1>1, <1>2, <1>3, RideStays
<1>5. MountPart' /\ PublishedPart' /\ Booted'  BY <1>1, <1>2, UnderWay
<1>6. TailPublished'  BY <1>1 DEF TailPublished
<1> QED  BY <1>3, <1>4, <1>5, <1>6 DEF ContentOK

\* discard keeps it.
LEMMA ContentDiscard ==
    ASSUME StoreOK, ContentOK, discard
    PROVE  ContentOK'
<1> USE DEF discard, Idle
<1>1. /\ pc = "idle" /\ pc' = "idle" /\ UNCHANGED <<media, ride, acked, published, counts>>
  OBVIOUS
<1>2. boots' = boots /\ refused' = refused  BY <1>1 DEF counts
<1>3. writer'.state = "discard" /\ writer'.crc = writer.crc /\ writer'.append = writer.append
  BY DEF StoreOK, TypesOK
<1>4. RidePart' /\ HeadsBounded'
  BY <1>1, <1>2, <1>3, RideStays DEF StillAttempted, Outstanding
<1>5. MountPart' /\ PublishedPart' /\ Booted'  BY <1>1, <1>2, UnderWay
<1>6. TailPublished'  BY <1>1 DEF TailPublished
<1>7. WriterBounded'  BY <1>1, <1>3 DEF ContentOK, WriterBounded
<1> QED  BY <1>4, <1>5, <1>6, <1>7 DEF ContentOK

\* Steps that move only the store's place in a call.
LEMMA WriterStays ==
    ASSUME ContentOK, writer' = writer
    PROVE  WriterBounded'
BY DEF ContentOK, WriterBounded, Whole, Last

\* Entering FlatStore::journal keeps it.
LEMMA ContentJournal ==
    ASSUME StoreOK, ContentOK, journal
    PROVE  ContentOK'
<1>1. /\ pc = "idle" /\ pc' \in {"repair", "proof_tail", "tail"}
      /\ UNCHANGED <<media, ride, writer, acked, published, counts>>
  BY DEF journal, Idle
<1>2. boots' = boots /\ refused' = refused  BY <1>1 DEF counts
<1>3. RidePart' /\ HeadsBounded'
  <2>1. StillAttempted  BY <1>1 DEF StillAttempted
  <2> QED  BY <1>1, <1>2, <2>1, RideStays
<1>4. MountPart' /\ PublishedPart' /\ Booted'  BY <1>1, <1>2, UnderWay
<1>5. TailPublished'  BY <1>1 DEF TailPublished
<1>6. WriterBounded'  BY <1>1, WriterStays
<1> QED  BY <1>3, <1>4, <1>5, <1>6 DEF ContentOK

\* Entering publish_ride keeps it; with no tail there is nothing to copy.
LEMMA ContentBeginPublish ==
    ASSUME StoreOK, ContentOK, BeginPublish
    PROVE  ContentOK'
<1>1. /\ pc = "idle" /\ pc' = IF ride.tail = <<>> THEN "commit" ELSE "flush"
      /\ UNCHANGED <<media, ride, writer, acked, published, counts>>
  BY DEF BeginPublish, Idle
<1>2. boots' = boots /\ refused' = refused  BY <1>1 DEF counts
<1>3. RidePart' /\ HeadsBounded'
  <2>1. StillAttempted  BY <1>1 DEF StillAttempted
  <2> QED  BY <1>1, <1>2, <2>1, RideStays
<1>4. MountPart' /\ PublishedPart' /\ Booted'  BY <1>1, <1>2, UnderWay
<1>5. TailPublished'  BY <1>1 DEF TailPublished
<1>6. WriterBounded'  BY <1>1, WriterStays
<1> QED  BY <1>3, <1>4, <1>5, <1>6 DEF ContentOK

\* A refused commit keeps it.
LEMMA ContentPublishFails ==
    ASSUME StoreOK, ContentOK, PublishFails
    PROVE  ContentOK'
<1>1. /\ pc = "commit" /\ pc' = "idle" /\ boots' = boots /\ refused' = TRUE
      /\ UNCHANGED <<media, ride, writer, acked, published>>
  BY DEF PublishFails, Refuses
<1>2. RidePart' /\ HeadsBounded'
  <2>1. StillAttempted  BY <1>1 DEF StillAttempted
  <2> QED  BY <1>1, <2>1, RideStays
<1>3. MountPart' /\ PublishedPart' /\ Booted'  BY <1>1, UnderWay
<1>4. TailPublished'  BY <1>1 DEF TailPublished
<1>5. WriterBounded'  BY <1>1, WriterStays
<1> QED  BY <1>2, <1>3, <1>4, <1>5 DEF ContentOK

\* Steps that end a card command and keep the ride.
LEMMA ContentTailDone ==
    ASSUME StoreOK, ContentOK, Slots >= 4, TailDone
    PROVE  ContentOK'
<1>1. /\ pc \in {"tail", "proof_tail", "logical_tail"} /\ InFlight(TRUE)
      /\ UNCHANGED <<heads, pages, ride, writer, acked, published, counts>>
      /\ pc' \in {"head", "proof_head", "logical_head", "idle"}
      /\ pc' = "logical_head" => pc = "logical_tail"
  BY DEF TailDone, InFlight
<1>2. boots' = boots /\ refused' = refused  BY <1>1 DEF counts
<1>3. ride # None  BY <1>1 DEF StoreOK, StageOK
<1>4. pc' \in {"logical_tail", "logical_head"} =>
             /\ heads'[SlotOf(ride.next_sequence)] = ProofPart
             /\ tails'[SlotOf(ride.next_sequence)] = ProofPart.tail
  <2>1. Touches  BY <1>1, <1>3, CommandTouches DEF ContentOK
  <2>2. pc = "logical_tail" =>
             /\ heads[SlotOf(ride.next_sequence)] = ProofPart
             /\ tails[SlotOf(ride.next_sequence)] = ProofPart.tail
    BY <1>3 DEF ContentOK, RidePart, Disk
  <2> QED  BY <1>1, <2>1, <2>2 DEF Touches
<1>5. RidePart' /\ HeadsBounded'  BY <1>1, <1>2, <1>3, <1>4, CommandStays
<1>6. MountPart' /\ PublishedPart' /\ Booted'  BY <1>1, <1>2, UnderWay
<1>7. TailPublished'  BY <1>1 DEF TailPublished
<1>8. WriterBounded'  BY <1>1, WriterStays
<1> QED  BY <1>5, <1>6, <1>7, <1>8 DEF ContentOK

\* The gate of the proof keeps it: the proof is now on the card, whole.
LEMMA ContentProofDone ==
    ASSUME StoreOK, ContentOK, Slots >= 4, ProofDone
    PROVE  ContentOK'
<1>1. /\ pc = "proof_head" /\ WriteHead(TRUE) /\ pc' = "logical_tail"
      /\ UNCHANGED <<tails, pages, ride, writer, acked, published, counts>>
  BY DEF ProofDone
<1>2. boots' = boots /\ refused' = refused  BY <1>1 DEF counts
<1>3. ride # None /\ InFlight(TRUE) /\ pc \in Plain \cup Rolling
  BY <1>1 DEF StoreOK, StageOK, InFlight, Rolling
<1>4. /\ heads'[SlotOf(ride.next_sequence)] = ProofPart
      /\ tails'[SlotOf(ride.next_sequence)] = ProofPart.tail
  <2>1. SlotWrite = ProofPart  BY <1>1, SlotWriteIs
  <2>2. heads'[SlotOf(SlotWrite.sequence)] = SlotWrite
    BY <1>1, <1>3, HeadWrite DEF StoreOK
  <2>3. ProofPart.sequence = ride.next_sequence  BY DEF ProofPart, Header
  <2>4. tails[SlotOf(ride.next_sequence)] = ProofPart.tail  BY <1>1 DEF StoreOK, StageOK
  <2> QED  BY <1>1, <2>1, <2>2, <2>3, <2>4
<1>5. RidePart' /\ HeadsBounded'  BY <1>1, <1>2, <1>3, <1>4, CommandStays
<1>6. MountPart' /\ PublishedPart' /\ Booted'  BY <1>1, <1>2, UnderWay
<1>7. TailPublished'  BY <1>1 DEF TailPublished
<1>8. WriterBounded'  BY <1>1, WriterStays
<1> QED  BY <1>5, <1>6, <1>7, <1>8 DEF ContentOK

\* A refused command keeps it: what it left belongs to the checkpoint that will be
\* asked for again.
LEMMA ContentJournalFails ==
    ASSUME StoreOK, ContentOK, Slots >= 4, JournalFails
    PROVE  ContentOK'
<1>1. /\ pc # "repairing" /\ InFlight(FALSE) /\ pc' = "idle" /\ boots' = boots
      /\ refused' = TRUE /\ UNCHANGED <<ride, writer, acked, published>>
  BY DEF JournalFails, Refuses
<1>2. pc # "ended" /\ ride # None  BY <1>1 DEF InFlight, StoreOK, StageOK
<1>3. RidePart' /\ HeadsBounded'  BY <1>1, <1>2, CommandStays
<1>4. MountPart' /\ PublishedPart' /\ Booted'  BY <1>1, <1>2, UnderWay
<1>5. TailPublished'  BY <1>1 DEF TailPublished
<1>6. WriterBounded'  BY <1>1, WriterStays
<1> QED  BY <1>3, <1>4, <1>5, <1>6 DEF ContentOK

\* The copy of the last partial page keeps it, and completes the ride's extents.
LEMMA ContentFlush ==
    ASSUME StoreOK, ContentOK, Slots >= 4, flush_ride_tail
    PROVE  ContentOK'
<1>1. /\ pc = "flush" /\ InFlight(TRUE) /\ pc' = "commit" /\ boots' = boots
      /\ refused' = refused /\ UNCHANGED <<ride, writer, acked, published>>
  <2>1. UNCHANGED <<ride, writer, acked, published, counts>>  BY DEF flush_ride_tail
  <2> QED  BY <2>1 DEF flush_ride_tail, counts
<1>2. ride # None  BY <1>1 DEF StoreOK, StageOK
<1>3. RidePart' /\ HeadsBounded'  BY <1>1, <1>2, CommandStays
<1>4. MountPart' /\ PublishedPart' /\ Booted'  BY <1>1, UnderWay
<1>5. TailPublished'
  <2> DEFINE k == ride.flushed \div Page
  <2>1. k \in 0 .. Reserve \div Page  BY <1>2, RideWithin DEF ContentOK
  <2>2. WritePage(k, ride.tail, TRUE)  BY <1>1 DEF InFlight
  <2>3. ride.tail \in Bytes \cup {Torn}  BY <1>2, RideFields DEF StoreOK, TypesOK
  <2> HIDE DEF k
  <2>4. pages'[k] = ride.tail  BY <2>1, <2>2, <2>3, PageWrite DEF StoreOK
  <2> QED  BY <1>1, <2>4 DEF TailPublished, k
<1>6. WriterBounded'  BY <1>1, WriterStays
<1> QED  BY <1>3, <1>4, <1>5, <1>6 DEF ContentOK

-----------------------------------------------------------------------------
(* Steps that move the ride on.                                            *)

\* The footer that an acknowledgement adds has its room.
LEMMA AckBounded ==
    ASSUME StoreOK, ContentOK, writer.state \in Outstanding, NEW p, acknowledge(p)
    PROVE  WriterBounded'
<1>1. writer.crc \in Bytes  BY WriterFields DEF StoreOK
<1>2. CASE writer.state = "pending"
  <2>1. writer'.state = "live" /\ writer'.crc = writer.crc
    BY <1>2 DEF acknowledge, Writer
  <2> QED  BY <1>2, <2>1 DEF ContentOK, WriterBounded
<1>3. CASE writer.state = "repair"
  <2>1. writer'.state = "closing" /\ writer'.crc = writer.crc \o <<Footer>>
    BY <1>3 DEF acknowledge, Writer
  <2>2. Len(writer.crc \o <<Footer>>) = Len(writer.crc) + 1 /\ Whole(writer.crc \o <<Footer>>)
    BY <1>1, Footed
  <2>3. Len(writer.crc) + 1 <= Reserve  BY <1>3 DEF ContentOK, WriterBounded
  <2>4. Len(writer'.crc) <= Reserve /\ Whole(writer'.crc)  BY <2>1, <2>2, <2>3
  <2> QED  BY <2>1, <2>4 DEF WriterBounded, Whole, Last
<1>4. CASE writer.state = "closing"
  <2>1. writer'.state = "publish" /\ writer'.crc = writer.crc
    BY <1>4 DEF acknowledge, Writer
  <2> QED  BY <1>4, <2>1 DEF ContentOK, WriterBounded, Whole, Last
<1> QED  BY <1>2, <1>3, <1>4 DEF Outstanding

\* So has an outstanding payload.
LEMMA CrcBounded ==
    ASSUME StoreOK, ContentOK, writer.state \in Outstanding
    PROVE  Bounded(writer.crc)
<1>1. Len(writer.crc) \in Nat  BY WriterFields DEF StoreOK
<1> QED  BY <1>1, PageNat DEF ContentOK, WriterBounded, Bounded, Outstanding

\* The bytes a checkpoint adds come behind those that are there.
LEMMA CrcExtends ==
    ASSUME StoreOK, RidePart, ride # None, writer.state # "idle", ride.pending_proof = 0
    PROVE  /\ \A n \in 1 .. ride.flushed : writer.crc[n] = ride.payload[n]
           /\ Holds(pages, writer.crc, ride.flushed)
           /\ IsPrefix(acked, writer.crc)
<1>1. writer.crc = ride.payload \o writer.append  BY DEF StoreOK, ContinuesOK
<1>2. ride.payload \in Bytes /\ writer.append \in Bytes /\ acked \in Bytes
      /\ ride.flushed \in Nat /\ Len(ride.tail) \in Nat
  BY RideFields, WriterFields DEF StoreOK, TypesOK
<1>3. \A n \in 1 .. Len(ride.payload) : writer.crc[n] = ride.payload[n]
  <2> DEFINE p == ride.payload
             x == writer.append
  <2>1. p \in Bytes /\ x \in Bytes /\ writer.crc = p \o x  BY <1>1, <1>2
  <2> HIDE DEF p, x
  <2>2. \A n \in 1 .. Len(p) : writer.crc[n] = p[n]  BY <2>1, BytesConcat
  <2> QED  BY <2>2 DEF p
<1>4. \A n \in 1 .. ride.flushed : writer.crc[n] = ride.payload[n]
  <2>1. Len(ride.payload) = ride.flushed + Len(ride.tail)  BY DEF StoreOK, RideOK, Ends
  <2>2. \A n \in 1 .. ride.flushed : n \in 1 .. Len(ride.payload)  BY <1>2, <2>1
  <2> QED  BY <1>3, <2>2
<1>5. Holds(pages, ride.payload, ride.flushed)  BY DEF RidePart, Disk, PageEnd
<1>6. Holds(pages, writer.crc, ride.flushed)  BY <1>4, <1>5 DEF Holds
<1>7. IsPrefix(acked, writer.crc)  BY <1>1, <1>2, PrefixConcat DEF RidePart
<1> QED  BY <1>4, <1>6, <1>7

\* The ride is on the card when no header is newer than it.
LEMMA DiskClear ==
    ASSUME Holds(pages, ride.payload, PageEnd)', ProofHeld(heads, tails)',
           pc' \notin {"logical_tail", "logical_head"},
           refused' = FALSE \/ boots' = 0 =>
             \A j \in Ring : heads'[j] # None => ~(heads'[j].sequence >= ride'.next_sequence),
           refused' \in BOOLEAN
    PROVE  Disk(heads, tails, pages)'
<1>1. (~refused => \A j \in Ring : Ahead(heads, j) =>
         \/ heads[j].proof /\ heads[j].sequence = ride.next_sequence
         \/ pc \in {"head", "logical_head"} /\ heads[j] = SlotWrite)'
  BY DEF Ahead
<1>2. (boots = 0 => \A j \in Ring : Ahead(heads, j) => Attempt(heads[j]))'
  BY DEF Ahead
<1> QED  BY <1>1, <1>2 DEF Disk

\* The gate of a checkpoint within the page keeps the content, and acknowledges it:
\* no page has moved, and the new source holds the rest.
LEMMA ContentHeadDone ==
    ASSUME StoreOK, ContentOK, Slots >= 4, HeadDone
    PROVE  ContentOK'
<1> DEFINE m == ride.next_sequence
<1>1. /\ pc = "head" /\ WriteHead(TRUE) /\ acknowledge(writer.crc) /\ pc' = "idle"
      /\ UNCHANGED <<tails, pages, published, counts>>
      /\ ride' = [ride EXCEPT !.next_sequence = @ + 1, !.tail = @ \o writer.append,
                              !.payload = writer.crc]
  BY DEF HeadDone
<1>2. boots' = boots /\ refused' = refused  BY <1>1 DEF counts
<1>3. /\ ride # None /\ ride.pending_proof = 0 /\ writer.state \in Outstanding
      /\ writer.state # "idle" /\ pc \in Plain \cup Rolling /\ pc \in Plain
      /\ Len(ride.tail) + Len(writer.append) < Page /\ InFlight(TRUE)
  BY <1>1 DEF StoreOK, StageOK, Plain, Outstanding, InFlight
<1>4. ride \in RideType /\ m \in Nat /\ refused \in BOOLEAN /\ writer.crc \in Bytes
  BY <1>3, RideFields, WriterFields DEF StoreOK, TypesOK
<1>5. /\ ride'.next_sequence = m + 1 /\ ride'.payload = writer.crc
      /\ ride'.flushed = ride.flushed /\ ride'.pending_proof = 0
  BY <1>1, <1>3, <1>4 DEF RideType
<1>6. SlotWrite = Ordinary /\ Ordinary.sequence = m /\ Ordinary.proof_sequence = 0
  BY <1>3, SlotWriteIs DEF Ordinary, Header
<1>7. heads'[SlotOf(m)] = Ordinary  BY <1>1, <1>3, <1>6, HeadWrite DEF StoreOK
<1>8. (Holds(pages, ride.payload, PageEnd))'
  <2>1. Holds(pages, writer.crc, ride.flushed)  BY <1>3, CrcExtends DEF ContentOK
  <2> QED  BY <1>1, <1>5, <2>1 DEF Holds, PageEnd, Cell
<1>9. ProofHeld(heads, tails)'
  <2>1. ride'.next_sequence - 1 = m  BY <1>4, <1>5
  <2>2. Source' = SlotOf(m)  BY <2>1 DEF Source, SlotOf
  <2>3. heads'[Source'].proof_sequence = 0  BY <1>6, <1>7, <2>2
  <2> QED  BY <2>3 DEF ProofHeld
<1>10. ASSUME refused' = FALSE \/ boots' = 0, NEW j \in Ring, heads'[j] # None,
              heads'[j].sequence >= ride'.next_sequence
       PROVE  FALSE
  <2>1. heads'[j].sequence >= m + 1  BY <1>5, <1>10
  <2>2. heads'[j].sequence \in Nat
    <3>1. heads'[j] \in HeaderType
      BY <1>3, <1>10, CommandUnderWay
    <3> QED  BY <3>1 DEF HeaderType
  <2>3. heads'[j].sequence >= m /\ heads'[j].sequence # m  BY <1>4, <2>1, <2>2
  <2>4. Ahead(heads', j)  BY <1>10, <2>3 DEF Ahead
  <2>5. Disk(heads', tails', pages')  BY <1>3, DiskKept DEF ContentOK
  <2>6. CASE refused' = FALSE
    <3>1. \/ heads'[j].proof /\ heads'[j].sequence = ride.next_sequence
          \/ heads'[j] = SlotWrite
      BY <1>2, <2>4, <2>5, <2>6 DEF Disk
    <3> QED  BY <1>6, <2>3, <3>1
  <2>7. CASE boots' = 0
    <3>1. Attempt(heads'[j])  BY <1>2, <2>4, <2>5, <2>7 DEF Disk
    <3>2. heads'[j] = Ordinary  BY <1>3, <3>1 DEF Attempt
    <3> QED  BY <1>6, <2>3, <3>2
  <2> QED  BY <1>10, <2>6, <2>7
<1>11. Disk(heads, tails, pages)'
  <2>1. refused' \in BOOLEAN /\ pc' \notin {"logical_tail", "logical_head"}
    BY <1>1, <1>2, <1>4
  <2> QED  BY <1>8, <1>9, <1>10, <2>1, DiskClear
<1>12. RidePart'
  <2>1. acked' = writer.crc /\ IsPrefix(writer.crc, writer.crc)
    BY <1>1, <1>4, PrefixSelf DEF acknowledge
  <2>2. Bounded(writer.crc)  BY <1>3, CrcBounded
  <2>3. IsPrefix(acked', ride'.payload) /\ Bounded(ride'.payload)  BY <1>5, <2>1, <2>2
  <2> QED  BY <1>11, <2>3 DEF RidePart, IsPrefix, Bounded, Whole, Last
<1>13. HeadsBounded'  BY <1>3, HeadsBoundedKept DEF ContentOK
<1>14. MountPart' /\ PublishedPart' /\ Booted'  BY <1>1, <1>2, UnderWay
<1>15. TailPublished'  BY <1>1 DEF TailPublished
<1>16. WriterBounded'  BY <1>1, <1>3, AckBounded
<1> QED  BY <1>12, <1>13, <1>14, <1>15, <1>16 DEF ContentOK

\* The second gate of a rollover keeps it: the page that now counts is in the proof,
\* until it is copied.
LEMMA ContentLogicalDone ==
    ASSUME StoreOK, ContentOK, Slots >= 4, LogicalDone
    PROVE  ContentOK'
<1> DEFINE m == ride.next_sequence
           f == ride.flushed
<1>1. /\ pc = "logical_head" /\ WriteHead(TRUE) /\ pc' = "repair"
      /\ UNCHANGED <<tails, pages, writer, acked, published, counts>>
      /\ ride'.flushed = f + Page /\ ride'.next_sequence = m + 2
      /\ ride'.payload = writer.crc /\ ride'.pending_proof = m
  BY DEF LogicalDone
<1>2. boots' = boots /\ refused' = refused  BY <1>1 DEF counts
<1>3. /\ ride # None /\ ride.pending_proof = 0 /\ writer.state \in Outstanding
      /\ writer.state # "idle" /\ pc \in Plain \cup Rolling
      /\ Len(ride.tail) + Len(writer.append) >= Page /\ InFlight(TRUE)
  BY <1>1 DEF StoreOK, StageOK, Rolling, Outstanding, InFlight
<1>4. ride \in RideType /\ m \in Nat /\ m >= 1 /\ f \in Nat /\ refused \in BOOLEAN
      /\ Len(ride.tail) \in Nat /\ Len(writer.append) \in Nat
  BY <1>3, RideFields, WriterFields DEF StoreOK, TypesOK
<1>5. /\ SlotWrite = LogicalPart /\ LogicalPart.sequence = m + 1
      /\ LogicalPart.proof_sequence = m
      /\ ProofPart.sequence = m /\ ProofPart.flushed = f /\ ProofPart.proof
      /\ \A n \in 1 .. Page : ProofPart.tail[n] = writer.crc[f + n]
      /\ ProofPart \in HeaderType
  <2>1. SlotWrite = LogicalPart  BY <1>1, SlotWriteIs
  <2> QED  BY <1>3, <2>1, RolloverOK DEF StoreOK
<1>6. heads'[SlotOf(m + 1)] = LogicalPart  BY <1>1, <1>3, <1>5, HeadWrite DEF StoreOK
<1>7. Disk(heads', tails', pages')  BY <1>3, DiskKept DEF ContentOK
<1>8. heads'[SlotOf(m)] = ProofPart /\ tails'[SlotOf(m)] = ProofPart.tail
  BY <1>1, <1>7 DEF Disk
<1>9. (Holds(pages, ride.payload, PageEnd))'
  <2>1. Holds(pages, writer.crc, f)  BY <1>3, CrcExtends DEF ContentOK
  <2>2. PageEnd' = f
    <3>1. ride'.pending_proof # 0  BY <1>1, <1>4
    <3>2. ride'.flushed = f + Page /\ f \in Nat  BY <1>1, <1>4
    <3> HIDE DEF f
    <3>3. ride'.flushed - Page = f  BY <3>2, PageNat
    <3>4. PageEnd' = ride'.flushed - Page  BY <3>1 DEF PageEnd
    <3> QED  BY <3>3, <3>4
  <2> QED  BY <1>1, <2>1, <2>2 DEF Holds, Cell
<1>10. ProofHeld(heads, tails)'
  <2>1. ride'.next_sequence - 1 = m + 1  BY <1>1, <1>4
  <2>2. Source' = SlotOf(m + 1)  BY <2>1 DEF Source, SlotOf
  <2>3. heads'[Source'].proof_sequence = m  BY <1>5, <1>6, <2>2
  <2>4. ASSUME NEW n \in 1 .. Page
        PROVE  ProofPart.tail[n] = ride'.payload[ride'.flushed - Page + n]
    <3>1. ride'.flushed - Page + n = f + n  BY <1>1, <1>4, PageNat
    <3> QED  BY <1>1, <1>5, <3>1
  <2>5. ProofPart # None  BY <1>5, NotNone
  <2>6. ProofGood(heads', tails', m, ride'.payload, ride'.flushed)
    BY <1>1, <1>5, <1>8, <2>4, <2>5 DEF ProofGood
  <2>7. ProofGood(heads', tails', heads'[Source'].proof_sequence, ride'.payload, ride'.flushed)
    BY <2>3, <2>6
  <2> QED  BY <2>7 DEF ProofHeld, ProofGood, SlotOf
<1>11. ASSUME refused' = FALSE \/ boots' = 0, NEW j \in Ring, heads'[j] # None,
              heads'[j].sequence >= ride'.next_sequence
       PROVE  FALSE
  <2>1. heads'[j].sequence >= m + 2  BY <1>1, <1>11
  <2>2. heads'[j].sequence \in Nat
    <3>1. heads'[j] \in HeaderType
      BY <1>3, <1>11, CommandUnderWay
    <3> QED  BY <3>1 DEF HeaderType
  <2>3. /\ heads'[j].sequence >= m /\ heads'[j].sequence # m
        /\ heads'[j].sequence # m + 1
    BY <1>4, <2>1, <2>2
  <2>4. Ahead(heads', j)  BY <1>11, <2>3 DEF Ahead
  <2>5. CASE refused' = FALSE
    <3>1. \/ heads'[j].proof /\ heads'[j].sequence = ride.next_sequence
          \/ heads'[j] = SlotWrite
      BY <1>2, <1>7, <2>4, <2>5 DEF Disk
    <3> QED  BY <1>5, <2>3, <3>1
  <2>6. CASE boots' = 0
    <3>1. Attempt(heads'[j])  BY <1>2, <1>7, <2>4, <2>6 DEF Disk
    <3>2. ~(Len(ride.tail) + Len(writer.append) < Page)
      <4> DEFINE a == Len(ride.tail)
                 b == Len(writer.append)
      <4>1. a + b >= Page /\ a \in Nat /\ b \in Nat  BY <1>3, <1>4
      <4> HIDE DEF a, b
      <4>2. ~(a + b < Page)  BY <4>1, PageNat
      <4> QED  BY <4>2 DEF a, b
    <3>3. heads'[j] \in {ProofPart, LogicalPart}  BY <3>1, <3>2 DEF Attempt
    <3> QED  BY <1>5, <2>3, <3>3
  <2> QED  BY <1>11, <2>5, <2>6
<1>12. Disk(heads, tails, pages)'
  <2>1. refused' \in BOOLEAN /\ pc' \notin {"logical_tail", "logical_head"}
    BY <1>1, <1>2, <1>4
  <2> QED  BY <1>9, <1>10, <1>11, <2>1, DiskClear
<1>13. RidePart'
  <2>1. acked' = acked /\ IsPrefix(acked, writer.crc)
    BY <1>1, <1>3, CrcExtends DEF ContentOK
  <2>2. Bounded(writer.crc)  BY <1>3, CrcBounded
  <2>3. IsPrefix(acked', ride'.payload) /\ Bounded(ride'.payload)  BY <1>1, <2>1, <2>2
  <2> QED  BY <1>12, <2>3 DEF RidePart, IsPrefix, Bounded, Whole, Last
<1>14. HeadsBounded'  BY <1>3, HeadsBoundedKept DEF ContentOK
<1>15. MountPart' /\ PublishedPart' /\ Booted'  BY <1>1, <1>2, UnderWay
<1>16. TailPublished'  BY <1>1 DEF TailPublished
<1>17. WriterBounded'  BY <1>1, WriterStays
<1> QED  BY <1>13, <1>14, <1>15, <1>16, <1>17 DEF ContentOK

\* The copy of a proof completes the pages below flushed.
LEMMA RepairedDisk ==
    ASSUME StoreOK, ContentOK, Slots >= 4, pc \in {"repair", "repairing"}, InFlight(TRUE),
           ride' = Repaired, boots' = boots, refused' = refused, pc' \in {"idle", "recover"}
    PROVE  /\ Disk(heads, tails, pages)' /\ HeadsBounded'
           /\ ride # None /\ ride'.payload = ride.payload /\ Bounded(ride'.payload)
<1> DEFINE f == ride.flushed
           e == PageEnd
           s == PendingProof
           k == PendingPage
<1>1. /\ ride # None /\ ride.pending_proof # 0 /\ ride \in RideType
      /\ UNCHANGED <<heads, tails>> /\ WritePage(k, tails[s], TRUE)
  BY DEF StoreOK, StageOK, TypesOK, InFlight
<1>2. /\ ride'.flushed = f /\ ride'.payload = ride.payload
      /\ ride'.next_sequence = ride.next_sequence /\ ride'.pending_proof = 0
  BY <1>1 DEF Repaired, RideType
<1>3. /\ f \in Nat /\ e \in 0 .. f /\ e % Page = 0 /\ e + Page = f
      /\ k = e \div Page /\ k \in 0 .. Reserve \div Page
  BY <1>1, RideWithin DEF ContentOK
<1>4. /\ ride.next_sequence = ride.pending_proof + 2
      /\ heads[Source].proof_sequence = ride.pending_proof
  BY <1>1 DEF StoreOK, RideOK
<1>5. ride.pending_proof \in Nat /\ ride.next_sequence > 1
  <2>1. ride.pending_proof \in Nat  BY <1>1, RideFields
  <2> QED  BY <2>1, <1>4
<1>6. ProofGood(heads, tails, ride.pending_proof, ride.payload, f)
  BY <1>1, <1>4, <1>5 DEF ContentOK, RidePart, Disk, ProofHeld
<1>7. s \in Ring  BY <1>1, RideSlots DEF PendingProof
<1>8. /\ heads[s] # None /\ heads[s].proof /\ tails[s] = heads[s].tail
      /\ \A n \in 1 .. Page : heads[s].tail[n] = ride.payload[f - Page + n]
  BY <1>6 DEF ProofGood, PendingProof
<1>9. Len(tails[s]) = Page /\ tails[s] \in Bytes
  <2>1. HeaderOK(s, heads[s]) /\ heads[s] \in HeaderType
    BY <1>7, <1>8 DEF StoreOK, HeadersOK, TypesOK
  <2> QED  BY <1>8, <2>1 DEF HeaderOK, HeaderType
<1>10. pages'[k] = tails[s]
  <2>1. WritePage(k, tails[s], TRUE) /\ k \in 0 .. Reserve \div Page
        /\ tails[s] \in Bytes \cup {Torn}
    BY <1>1, <1>3, <1>9
  <2> HIDE DEF k, s
  <2> QED  BY <2>1, PageWrite DEF StoreOK
<1>11. \A n \in 1 .. e : Cell(pages', n) = ride.payload[n]
  <2>1. Touches  BY <1>1, CommandTouches DEF ContentOK
  <2>2. Holds(pages, ride.payload, PageEnd)  BY <1>1 DEF ContentOK, RidePart, Disk
  <2> QED  BY <2>1, <2>2 DEF Touches, Holds
<1>12. ASSUME NEW n \in e + 1 .. e + Page
       PROVE  Cell(pages', n) = ride.payload[n]
  <2> DEFINE i == (n - 1) % Page
             t == tails[s]
  <2>1. (n - 1) \div Page = e \div Page /\ i = n - 1 - e
    <3> HIDE DEF e
    <3>1. e \in Nat /\ e % Page = 0  BY <1>3
    <3> QED  BY <3>1, InPage
  <2>2. pages'[(n - 1) \div Page] = t  BY <2>1, <1>3, <1>10
  <2>3. i + 1 \in 1 .. Page /\ i + 1 = n - e /\ f - Page + (i + 1) = n
    <3> HIDE DEF e, f
    <3>1. e \in Nat /\ f = e + Page /\ i = n - 1 - e /\ n \in e + 1 .. e + Page  BY <1>3, <2>1
    <3> HIDE DEF i
    <3> QED  BY <3>1, PageNat
  <2>4. DOMAIN t = 1 .. Page
    <3>1. t \in Seq(Sample) /\ Len(t) = Page  BY <1>9 DEF Bytes
    <3> QED  BY <3>1, LenProperties
  <2>5. t[i + 1] = ride.payload[n]
    <3>1. heads[s].tail[i + 1] = ride.payload[f - Page + (i + 1)]  BY <1>8, <2>3
    <3> QED  BY <1>8, <2>3, <3>1
  <2> HIDE DEF t
  <2> QED  BY <2>2, <2>3, <2>4, <2>5 DEF Cell
<1>13. Holds(pages, ride.payload, PageEnd)'
  <2>1. PageEnd' = f  BY <1>2 DEF PageEnd
  <2>2. \A n \in 1 .. f : n \in 1 .. e \/ n \in e + 1 .. e + Page
    <3> HIDE DEF e, f
    <3> QED  BY <1>3, PageNat
  <2>3. \A n \in 1 .. PageEnd' : Cell(pages', n) = ride.payload[n]
    BY <1>11, <1>12, <2>1, <2>2
  <2> QED  BY <1>2, <2>3 DEF Holds, Cell
<1>14. ProofHeld(heads, tails)'
  <2>1. Source' = Source  BY <1>2 DEF Source, SlotOf
  <2>2. ProofGood(heads', tails', heads'[Source'].proof_sequence, ride'.payload, ride'.flushed)
    BY <1>1, <1>2, <1>4, <1>6, <2>1
  <2> QED  BY <2>2 DEF ProofHeld, ProofGood, SlotOf
<1>15. (~refused => \A j \in Ring : Ahead(heads, j) =>
         \/ heads[j].proof /\ heads[j].sequence = ride.next_sequence
         \/ pc \in {"head", "logical_head"} /\ heads[j] = SlotWrite)'
  <2>1. ASSUME ~refused', NEW j \in Ring, heads'[j] # None,
               heads'[j].sequence >= ride'.next_sequence
        PROVE  heads'[j].proof /\ heads'[j].sequence = ride'.next_sequence
    <3>1. Ahead(heads, j)  BY <1>1, <1>2, <2>1 DEF Ahead
    <3>2. \/ heads[j].proof /\ heads[j].sequence = ride.next_sequence
          \/ pc \in {"head", "logical_head"} /\ heads[j] = SlotWrite
      BY <1>1, <2>1, <3>1 DEF ContentOK, RidePart, Disk
    <3> QED  BY <1>1, <1>2, <3>2
  <2> QED  BY <2>1 DEF Ahead
<1>16. (boots = 0 => \A j \in Ring : Ahead(heads, j) => Attempt(heads[j]))'
  <2>1. ASSUME boots' = 0, NEW j \in Ring, heads'[j] # None,
               heads'[j].sequence >= ride'.next_sequence
        PROVE  FALSE
    <3>1. Ahead(heads, j)  BY <1>1, <1>2, <2>1 DEF Ahead
    <3>2. Attempt(heads[j])  BY <1>1, <2>1, <3>1 DEF ContentOK, RidePart, Disk
    <3> QED  BY <1>1, <3>2 DEF Attempt
  <2> QED  BY <2>1 DEF Ahead
<1>17. Disk(heads, tails, pages)'  BY <1>13, <1>14, <1>15, <1>16 DEF Disk
<1>18. HeadsBounded'  BY <1>1, HeadsBoundedKept DEF ContentOK
<1>19. Bounded(ride'.payload)  BY <1>1, <1>2 DEF ContentOK, RidePart
<1> QED  BY <1>1, <1>2, <1>17, <1>18, <1>19

\* The copy of the page keeps it, and acknowledges the checkpoint.
LEMMA ContentRepairRollover ==
    ASSUME StoreOK, ContentOK, Slots >= 4, repair_rollover
    PROVE  ContentOK'
<1>1. /\ pc = "repair" /\ InFlight(TRUE) /\ ride' = Repaired /\ acknowledge(ride.payload)
      /\ pc' = "idle" /\ UNCHANGED <<heads, tails, published, counts>>
  BY DEF repair_rollover, InFlight
<1>2. boots' = boots /\ refused' = refused  BY <1>1 DEF counts
<1>3. /\ Disk(heads, tails, pages)' /\ HeadsBounded'
      /\ ride # None /\ ride'.payload = ride.payload /\ Bounded(ride'.payload)
  BY <1>1, <1>2, RepairedDisk
<1>4. writer.state \in Outstanding  BY <1>1 DEF StoreOK, StageOK
<1>5. ride.payload \in Bytes  BY <1>3, RideFields DEF StoreOK, TypesOK
<1>6. RidePart'
  <2>1. acked' = ride.payload /\ IsPrefix(ride.payload, ride.payload)
    BY <1>1, <1>5, PrefixSelf DEF acknowledge
  <2>2. IsPrefix(acked', ride'.payload)  BY <1>3, <2>1
  <2> QED  BY <1>3, <2>2 DEF RidePart, IsPrefix, Bounded, Whole, Last
<1>7. MountPart' /\ PublishedPart' /\ Booted'  BY <1>1, <1>2, UnderWay
<1>8. TailPublished'  BY <1>1 DEF TailPublished
<1>9. WriterBounded'  BY <1>1, <1>4, AckBounded
<1> QED  BY <1>3, <1>6, <1>7, <1>8, <1>9 DEF ContentOK

\* The same copy at mount keeps it.
LEMMA ContentRecoverRepair ==
    ASSUME StoreOK, ContentOK, Slots >= 4, RecoverRepair
    PROVE  ContentOK'
<1>1. /\ pc = "repairing" /\ InFlight(TRUE) /\ ride' = Repaired
      /\ pc' = "recover" /\ UNCHANGED <<writer, acked, published, counts>>
  BY DEF RecoverRepair
<1>2. boots' = boots /\ refused' = refused  BY <1>1 DEF counts
<1>3. /\ Disk(heads, tails, pages)' /\ HeadsBounded'
      /\ ride # None /\ ride'.payload = ride.payload /\ Bounded(ride'.payload)
  BY <1>1, <1>2, RepairedDisk
<1>4. RidePart'
  <2>1. IsPrefix(acked, ride.payload)  BY <1>3 DEF ContentOK, RidePart
  <2>2. IsPrefix(acked', ride'.payload)  BY <1>1, <1>3, <2>1
  <2> QED  BY <1>3, <2>2 DEF RidePart, IsPrefix, Bounded, Whole, Last
<1>5. MountPart' /\ PublishedPart' /\ Booted'  BY <1>1, <1>2, UnderWay
<1>6. TailPublished'  BY <1>1 DEF TailPublished
<1>7. WriterBounded'  BY <1>1, WriterStays
<1> QED  BY <1>3, <1>4, <1>5, <1>6, <1>7 DEF ContentOK

-----------------------------------------------------------------------------
(* The bytes the card holds are the payload.                               *)
LEMMA HeldBytes ==
    ASSUME StoreOK, ride # None, Holds(pages, ride.payload, ride.flushed)
    PROVE  PagesTo(ride.flushed) \in Bytes /\ PagesTo(ride.flushed) \o ride.tail = ride.payload
<1> DEFINE f == ride.flushed
           p == ride.payload
           t == ride.tail
           g == PagesTo(f)
<1>1. f \in Nat /\ p \in Bytes /\ t \in Bytes  BY RideFields DEF StoreOK, TypesOK
<1>2. Len(t) \in Nat /\ Len(p) \in Nat /\ p \in Seq(Sample)  BY <1>1, BytesLen
<1>3. Ends(p, f, t)  BY DEF StoreOK, RideOK
<1>4. Len(p) = f + Len(t)  BY <1>3 DEF Ends
<1>5. DOMAIN g = 1 .. f /\ g = [n \in 1 .. f |-> g[n]]  BY DEF PagesTo
<1>6. ASSUME NEW n \in 1 .. f PROVE g[n] = p[n] /\ p[n] \in Sample
  <2>1. g[n] = Cell(pages, n)  BY DEF PagesTo, Cell
  <2>2. Cell(pages, n) = p[n]  BY DEF Holds
  <2>3. n \in 1 .. Len(p)
    <3> HIDE DEF f, p, t
    <3> QED  BY <1>1, <1>2, <1>4
  <2>4. p[n] \in Sample  BY <1>2, <2>3, ElementOfSeq
  <2> QED  BY <2>1, <2>2, <2>4
<1> HIDE DEF f, p, t, g
<1>7. g \in [1 .. f -> Sample]  BY <1>5, <1>6
<1>8. g \in Bytes  BY <1>1, <1>7, SeqDef DEF Bytes
<1>9. Len(g) = f
  <2>1. DOMAIN g = 1 .. Len(g) /\ Len(g) \in Nat  BY <1>8, LenProperties DEF Bytes
  <2>2. 1 .. Len(g) = 1 .. f  BY <1>5, <2>1
  <2>3. Len(g) = f
    <3>1. ASSUME Len(g) < f PROVE FALSE
      <4>1. f \in 1 .. f /\ f \notin 1 .. Len(g)  BY <1>1, <2>1, <3>1
      <4> QED  BY <2>2, <4>1
    <3>2. ASSUME f < Len(g) PROVE FALSE
      <4>1. Len(g) \in 1 .. Len(g) /\ Len(g) \notin 1 .. f  BY <1>1, <2>1, <3>2
      <4> QED  BY <2>2, <4>1
    <3> DEFINE z == Len(g)
    <3>3. z \in Nat /\ ~(z < f) /\ ~(f < z)  BY <2>1, <3>1, <3>2
    <3> HIDE DEF z
    <3>4. z = f  BY <1>1, <3>3
    <3> QED  BY <3>4 DEF z
  <2> QED  BY <2>3
<1>10. /\ g \o t \in Bytes /\ Len(g \o t) = Len(p)
       /\ \A n \in 1 .. f : (g \o t)[n] = g[n]
       /\ \A n \in 1 .. Len(t) : (g \o t)[f + n] = t[n]
  BY <1>1, <1>4, <1>8, <1>9, BytesConcat
<1>11. ASSUME NEW n \in 1 .. Len(p) PROVE (g \o t)[n] = p[n]
  <2>1. CASE n <= f
    <3>1. n \in 1 .. f  BY <1>1, <2>1
    <3> QED  BY <3>1, <1>6, <1>10
  <2>2. CASE n > f
    <3> DEFINE i == n - f
    <3>1. i \in 1 .. Len(t) /\ f + i = n  BY <1>1, <1>2, <1>4, <2>2
    <3> HIDE DEF i
    <3>2. (g \o t)[f + i] = t[i]  BY <1>10, <3>1
    <3>3. p[f + i] = t[i]  BY <1>3, <3>1 DEF Ends
    <3> QED  BY <3>1, <3>2, <3>3
  <2>3. n <= f \/ n > f  BY <1>1, <1>2
  <2> QED  BY <2>1, <2>2, <2>3
<1>12. g \o t = p  BY <1>1, <1>2, <1>10, <1>11, BytesEqual
<1> QED  BY <1>8, <1>12 DEF f, p, t, g

\* What RideWriter::recover reads is the payload the store resumed.
LEMMA RecordedIs ==
    ASSUME StoreOK, ContentOK, ride # None, ride.pending_proof = 0
    PROVE  Recorded = ride.payload
<1>1. PageEnd = ride.flushed  BY RideWithin DEF ContentOK
<1>2. Holds(pages, ride.payload, ride.flushed)  BY <1>1 DEF ContentOK, RidePart, Disk
<1> QED  BY <1>2, HeldBytes DEF Recorded

\* RideWriter::recover keeps the content: behind a footer it only publishes.
LEMMA ContentRecover ==
    ASSUME StoreOK, ContentOK, recover
    PROVE  ContentOK'
<1>1. /\ pc = "recover" /\ pc' = "idle" /\ UNCHANGED <<media, ride, acked, published, counts>>
      /\ writer' = Writer(IF Recorded # <<>> /\ Last(Recorded) = Footer
                          THEN "publish" ELSE "live", <<>>, ride.payload)
  BY DEF recover
<1>2. boots' = boots /\ refused' = refused  BY <1>1 DEF counts
<1>3. ride # None /\ ride.pending_proof = 0 /\ boots # 0
  BY <1>1 DEF StoreOK, StageOK, ContentOK, Booted
<1>4. RidePart' /\ HeadsBounded'  BY <1>1, <1>2, <1>3, RideStays DEF StillAttempted
<1>5. MountPart' /\ PublishedPart' /\ Booted'  BY <1>1, <1>2, UnderWay
<1>6. TailPublished'  BY <1>1 DEF TailPublished
<1>7. WriterBounded'
  <2>1. Recorded = ride.payload  BY <1>3, RecordedIs
  <2>2. /\ writer'.crc = ride.payload
        /\ writer'.state = IF Whole(ride.payload) THEN "publish" ELSE "live"
    BY <1>1, <2>1 DEF Writer, Whole
  <2>3. Len(ride.payload) <= Reserve  BY <1>3, RideWithin DEF ContentOK
  <2>4. ~Whole(ride.payload) => Len(ride.payload) + 1 <= Reserve
    BY <1>3 DEF ContentOK, RidePart, Bounded
  <2> QED  BY <2>2, <2>3, <2>4 DEF WriterBounded, Whole, Last
<1> QED  BY <1>4, <1>5, <1>6, <1>7 DEF ContentOK

\* A writer without a ride has nothing to write.
LEMMA NothingToWrite ==
    ASSUME writer' = Writer("idle", <<>>, <<>>)
    PROVE  WriterBounded'
<1>1. writer'.crc = <<>> /\ writer'.state = "idle"  BY DEF Writer
<1>2. Len(<<>>) <= Reserve  BY EmptyBytes, PageNat
<1> QED  BY <1>1, <1>2 DEF WriterBounded

\* An ended ride has no content left.
LEMMA SettledContent ==
    ASSUME settle_ride
    PROVE  RidePart' /\ HeadsBounded' /\ WriterBounded' /\ TailPublished' /\ Booted' /\ MountPart'
<1>1. /\ ride' = None /\ writer' = Writer("idle", <<>>, <<>>) /\ pc' = "ended"
      /\ heads' = [i \in Ring |-> None]
  BY DEF settle_ride
<1>2. WriterBounded'  BY <1>1, NothingToWrite
<1>3. HeadsBounded'  BY <1>1 DEF HeadsBounded
<1> QED  BY <1>1, <1>2, <1>3 DEF RidePart, TailPublished, Booted, MountPart

\* Removing a ride keeps the content.
LEMMA ContentRemoveRide ==
    ASSUME StoreOK, ContentOK, RemoveRide
    PROVE  ContentOK'
<1>1. pc = "idle" /\ settle_ride /\ published' = published  BY DEF RemoveRide, Idle
<1>2. published' = None  BY <1>1 DEF ContentOK, PublishedPart
<1>3. PublishedPart'  BY <1>2 DEF PublishedPart
<1> QED  BY <1>1, <1>3, SettledContent DEF ContentOK

\* The commit publishes exactly the payload: its pages and its tail are in their
\* extents.
LEMMA ContentPublish ==
    ASSUME StoreOK, ContentOK, Publish
    PROVE  ContentOK'
<1> DEFINE b == PagesTo(ride.flushed) \o
                  (IF ride.tail = <<>> THEN <<>> ELSE pages[ride.flushed \div Page])
<1>1. /\ pc = "commit" /\ settle_ride /\ acked' = acked
      /\ published' = [crc |-> writer.crc, bytes |-> b]
  BY DEF Publish
<1>2. /\ ride # None /\ ride.pending_proof = 0 /\ writer.state = "publish"
      /\ writer.state # "idle"
  BY <1>1 DEF StoreOK, StageOK
<1>3. ride.payload \in Bytes /\ writer.crc \in Bytes
  BY <1>2, RideFields, WriterFields DEF StoreOK, TypesOK
<1>4. writer.crc = ride.payload
  <2>1. ride.payload \o <<>> = ride.payload  BY <1>3, ConcatEmptySeq DEF Bytes
  <2> QED  BY <1>2, <2>1 DEF StoreOK, ContinuesOK
<1>5. (IF ride.tail = <<>> THEN <<>> ELSE pages[ride.flushed \div Page]) = ride.tail
  BY <1>1 DEF ContentOK, TailPublished
<1>6. b = ride.payload
  <2>1. PagesTo(ride.flushed) \o ride.tail = ride.payload
    BY <1>2, RecordedIs DEF Recorded
  <2> QED  BY <1>5, <2>1
<1> HIDE DEF b
<1>7. IsPrefix(acked, b) /\ Last(b) = Footer
  <2>1. IsPrefix(acked, ride.payload)  BY <1>2 DEF ContentOK, RidePart
  <2>2. Whole(writer.crc)  BY <1>2 DEF ContentOK, WriterBounded
  <2> QED  BY <1>4, <1>6, <2>1, <2>2 DEF Whole
<1>8. PublishedPart'
  <2>1. pc' = "ended"  BY <1>1 DEF settle_ride
  <2>2. published' \in [crc : Bytes, bytes : Bytes]  BY <1>1, <1>3, <1>4, <1>6
  <2>3. published'.bytes = b /\ published'.crc = b  BY <1>1, <1>4, <1>6
  <2>4. /\ published'.bytes = published'.crc /\ IsPrefix(acked', published'.bytes)
        /\ Last(published'.bytes) = Footer
    BY <1>1, <1>7, <2>3
  <2> QED  BY <2>1, <2>2, <2>4 DEF PublishedPart, PublishedIsWhole, IsPrefix, Last
<1> QED  BY <1>1, <1>8, SettledContent DEF ContentOK

\* A mount that fails closed keeps the card recoverable: a torn copy of the page
\* leaves its proof.
LEMMA ContentRecoverFails ==
    ASSUME StoreOK, ContentOK, RecoverFails
    PROVE  ContentOK'
<1>1. /\ pc = "repairing" /\ InFlight(FALSE) /\ ride' = None /\ pc' = "unreadable"
      /\ boots' = boots /\ refused' = TRUE /\ UNCHANGED <<writer, acked, published>>
  BY DEF RecoverFails, Refuses
<1>2. heads' = heads  BY <1>1 DEF InFlight
<1>3. HeadsBounded'  BY <1>2 DEF ContentOK, HeadsBounded, Bounded, Whole, Last
<1>4. MountPart' /\ PublishedPart' /\ Booted'  BY <1>1, UnderWay
<1>5. TailPublished' /\ RidePart'  BY <1>1 DEF TailPublished, RidePart
<1>6. WriterBounded'  BY <1>1, WriterStays
<1> QED  BY <1>3, <1>4, <1>5, <1>6 DEF ContentOK

-----------------------------------------------------------------------------
(* What a power cut leaves for the next mount.                             *)

\* Every slot header can be read at mount, at most one boot is refused a write, and
\* a rollover that follows a rollover spares the proof of its source.
Survivable == "header_read" \notin Faults /\ MaxRefusedBoots <= 1 /\ Slots >= 4

\* A slot is the proof another one names.
Proves(hs, ts, p, i) ==
    /\ hs[p] # None /\ ts[p] = hs[p].tail /\ hs[p].proof
    /\ hs[p].sequence = hs[i].proof_sequence
    /\ hs[p].flushed + Page = hs[i].flushed

\* A slot is a candidate of a mount that reads the whole ring.
Candidate(hs, ts, i) ==
    /\ hs[i] # None /\ ts[i] = hs[i].tail /\ ~hs[i].proof
    /\ hs[i].proof_sequence # 0 => \E p \in Ring : Proves(hs, ts, p, i)

\* These are the candidates of recover_ride.
LEMMA CandidateIs ==
    ASSUME NEW i
    PROVE  i \in Candidates(Ring) <=> i \in Ring /\ Candidate(heads, tails, i)
<1>1. ProofOf(i, Ring) = {p \in Ring : Proves(heads, tails, p, i)}
  BY DEF ProofOf, Proves, slot_intact
<1>2. ProofOf(i, Ring) # {} <=> \E p \in Ring : Proves(heads, tails, p, i)  BY <1>1
<1>3. i \in Candidates(Ring) <=>
        /\ i \in Ring /\ slot_intact(i) /\ ~heads[i].proof
        /\ heads[i].proof_sequence # 0 => ProofOf(i, Ring) # {}
  BY DEF Candidates
<1> QED  BY <1>2, <1>3 DEF Candidate, slot_intact

\* The same after a step.
LEMMA CandidatesAfter ==
    Candidates(Ring)' = {i \in Ring : Candidate(heads', tails', i)}
<1>1. ASSUME NEW i \in Ring
      PROVE  ProofOf(i, Ring)' = {p \in Ring : Proves(heads', tails', p, i)}
  BY DEF ProofOf, Proves, slot_intact
<1>2. ASSUME NEW i \in Ring
      PROVE  ProofOf(i, Ring)' # {} <=> \E p \in Ring : Proves(heads', tails', p, i)
  BY <1>1
<1>3. Candidates(Ring)' =
        {i \in Ring : /\ heads'[i] # None /\ tails'[i] = heads'[i].tail /\ ~heads'[i].proof
                      /\ heads'[i].proof_sequence # 0 => ProofOf(i, Ring)' # {}}
  BY DEF Candidates, slot_intact
<1> QED  BY <1>2, <1>3 DEF Candidate

\* The parts of Recoverable for the newest logical slot.
Recovers(i) ==
    /\ IsPrefix(acked, heads[i].payload)
    /\ Holds(pages, heads[i].payload,
             IF heads[i].proof_sequence = 0 THEN heads[i].flushed
             ELSE heads[i].flushed - Page)
    /\ heads[i].proof_sequence # 0 =>
         ProofGood(heads, tails, heads[i].proof_sequence, heads[i].payload,
                   heads[i].flushed)
    /\ ~refused => LoneProofs(heads, heads[i].sequence + 1)

\* recover_ride keeps the content: the newest candidate is taken up, and it is the
\* ride.
LEMMA ContentRecoverRide ==
    ASSUME Survivable, StoreOK, ContentOK, recover_ride
    PROVE  ContentOK'
<1>1. /\ pc = "mount" /\ pc' \in {"recover", "repairing"}
      /\ UNCHANGED <<media, writer, acked, published, counts>>
  BY DEF recover_ride
<1>2. /\ UNCHANGED <<heads, tails, pages>> /\ boots' = boots /\ refused' = refused
      /\ boots # 0 /\ Recoverable
  BY <1>1 DEF media, counts, ContentOK, Booted, MountPart
<1>3. \/ Candidates(Ring) = {} /\ ride' = EmptyRide
      \/ \E i \in Candidates(Ring) :
           /\ \A j \in Candidates(Ring) : heads[j].sequence <= heads[i].sequence
           /\ ride' = Resumed(i)
  BY DEF recover_ride, Survivable
<1>4. RidePart'
  <2>1. CASE Candidates(Ring) = {} /\ ride' = EmptyRide
    <3>1. /\ ride'.next_sequence = 1 /\ ride'.payload = <<>> /\ ride'.flushed = 0
          /\ ride'.pending_proof = 0
      BY <2>1, EmptyRideOK
    <3>2. acked = <<>> /\ (~refused => LoneProofs(heads, 1))
      BY <1>2, <2>1 DEF Recoverable
    <3>3. Holds(pages, ride.payload, PageEnd)'
      <4>1. PageEnd' = 0  BY <3>1 DEF PageEnd
      <4>2. \A n \in 1 .. 0 : FALSE  OBVIOUS
      <4> QED  BY <4>1, <4>2 DEF Holds
    <3>4. ProofHeld(heads, tails)'
      <4>1. ~(ride'.next_sequence > 1)  BY <3>1
      <4> QED  BY <4>1 DEF ProofHeld
    <3>5. (~refused => \A j \in Ring : Ahead(heads, j) =>
            \/ heads[j].proof /\ heads[j].sequence = ride.next_sequence
            \/ pc \in {"head", "logical_head"} /\ heads[j] = SlotWrite)'
      <4>1. ASSUME ~refused', NEW j \in Ring, heads'[j] # None,
                   heads'[j].sequence >= ride'.next_sequence
            PROVE  heads'[j].proof /\ heads'[j].sequence = ride'.next_sequence
        BY <1>2, <3>1, <3>2, <4>1 DEF LoneProofs
      <4> QED  BY <4>1 DEF Ahead
    <3>6. Disk(heads, tails, pages)'
      <4>1. ~(boots' = 0) /\ pc' \notin {"logical_tail", "logical_head"}  BY <1>1, <1>2
      <4> QED  BY <3>3, <3>4, <3>5, <4>1 DEF Disk
    <3>7. IsPrefix(acked', ride'.payload)
      <4>1. IsPrefix(<<>>, <<>>)  BY EmptyBytes, PrefixSelf
      <4>2. acked' = <<>> /\ ride'.payload = <<>>  BY <1>1, <3>1, <3>2
      <4> QED  BY <4>1, <4>2
    <3>8. Bounded(ride'.payload)
      <4>1. Len(<<>>) + 1 <= Reserve  BY EmptyBytes, JournalAssumption
      <4> QED  BY <3>1, <4>1 DEF Bounded
    <3> QED  BY <3>6, <3>7, <3>8 DEF RidePart, IsPrefix, Bounded, Whole, Last
  <2>2. ASSUME NEW i \in Candidates(Ring), ride' = Resumed(i),
               \A j \in Candidates(Ring) : heads[j].sequence <= heads[i].sequence
        PROVE  RidePart'
    <3> DEFINE h == heads[i]
    <3>1. i \in Ring /\ h # None /\ ~h.proof  BY <2>2, CandidateIs DEF Candidate
    <3>2. Recovers(i)  BY <1>2, <2>2, <3>1 DEF Recoverable, Newest, Recovers
    <3>3. /\ ride'.next_sequence = h.sequence + 1 /\ ride'.payload = h.payload
          /\ ride'.flushed = h.flushed /\ ride'.pending_proof = h.proof_sequence
      BY <2>2 DEF Resumed
    <3>4. h \in HeaderType /\ HeaderOK(i, h)  BY <3>1 DEF StoreOK, TypesOK, HeadersOK
    <3>5. Source' = i
      <4>1. h.sequence \in Nat /\ SlotOf(h.sequence) = i
        BY <3>4 DEF HeaderType, HeaderOK
      <4>2. ride'.next_sequence - 1 = h.sequence
        <5> DEFINE s == h.sequence
        <5>1. s \in Nat /\ ride'.next_sequence = s + 1  BY <3>3, <4>1
        <5> HIDE DEF s
        <5>2. ride'.next_sequence - 1 = s  BY <5>1
        <5> QED  BY <5>2 DEF s
      <4> QED  BY <4>1, <4>2 DEF Source, SlotOf
    <3>6. Holds(pages, ride.payload, PageEnd)'
      <4>1. PageEnd' = IF h.proof_sequence = 0 THEN h.flushed ELSE h.flushed - Page
        BY <3>3 DEF PageEnd
      <4> QED  BY <1>2, <3>2, <3>3, <4>1 DEF Recovers, Holds, Cell
    <3>7. ProofHeld(heads, tails)'
      <4>1. heads'[Source'].proof_sequence # 0 =>
              ProofGood(heads', tails', heads'[Source'].proof_sequence, ride'.payload,
                        ride'.flushed)
        BY <1>2, <3>2, <3>3, <3>5 DEF Recovers
      <4> QED  BY <4>1 DEF ProofHeld, ProofGood, SlotOf
    <3>8. (~refused => \A j \in Ring : Ahead(heads, j) =>
            \/ heads[j].proof /\ heads[j].sequence = ride.next_sequence
            \/ pc \in {"head", "logical_head"} /\ heads[j] = SlotWrite)'
      <4>1. ASSUME ~refused', NEW j \in Ring, heads'[j] # None,
                   heads'[j].sequence >= ride'.next_sequence
            PROVE  heads'[j].proof /\ heads'[j].sequence = ride'.next_sequence
        BY <1>2, <3>2, <3>3, <4>1 DEF LoneProofs, Recovers
      <4> QED  BY <4>1 DEF Ahead
    <3>9. Disk(heads, tails, pages)'
      <4>1. ~(boots' = 0) /\ pc' \notin {"logical_tail", "logical_head"}  BY <1>1, <1>2
      <4> QED  BY <3>6, <3>7, <3>8, <4>1 DEF Disk
    <3>10. IsPrefix(acked', ride'.payload)  BY <1>1, <3>2, <3>3 DEF Recovers
    <3>11. Bounded(ride'.payload)  BY <3>1, <3>3 DEF ContentOK, HeadsBounded
    <3> QED  BY <3>9, <3>10, <3>11 DEF RidePart, IsPrefix, Bounded, Whole, Last
  <2> QED  BY <1>3, <2>1, <2>2
<1>5. HeadsBounded'  BY <1>2 DEF ContentOK, HeadsBounded, Bounded, Whole, Last
<1>6. MountPart' /\ PublishedPart' /\ Booted'  BY <1>1, <1>2, UnderWay
<1>7. TailPublished'  BY <1>1 DEF TailPublished
<1>8. WriterBounded'  BY <1>1, WriterStays
<1> QED  BY <1>4, <1>5, <1>6, <1>7, <1>8 DEF ContentOK

\* What a cut may leave of a ride.
CutLeft ==
    /\ Disk(heads', tails', pages') /\ HeadersOK'
    /\ heads' \in [Ring -> HeaderType \cup {None}]
    /\ ride.next_sequence > 1 =>
         heads'[Source] = heads[Source] /\ tails'[Source] = tails[Source]
    /\ pc \in {"head", "logical_head"} => tails' = tails
    /\ ~refused \/ boots = 0

\* A cut leaves what the command under way had touched.
LEMMA CutLeaves ==
    ASSUME Survivable, StoreOK, ContentOK, ride # None, Cut
    PROVE  CutLeft /\ HeadsBounded'
<1>1. InFlight(FALSE) \/ UNCHANGED media  BY DEF Cut
<1>2. ~refused \/ boots = 0
  <2>1. boots < (IF refused THEN MaxRefusedBoots ELSE MaxBoots)  BY DEF Cut
  <2>2. CASE refused
    <3>1. boots < MaxRefusedBoots  BY <2>1, <2>2
    <3>2. MaxRefusedBoots \in Nat /\ MaxRefusedBoots <= 1
      BY JournalAssumption DEF Survivable
    <3>3. boots \in Nat  BY JournalAssumption DEF StoreOK, TypesOK
    <3> QED  BY <3>1, <3>2, <3>3
  <2> QED  BY <2>2
<1>3. CASE InFlight(FALSE)
  <2>1. Disk(heads', tails', pages')  BY <1>3, DiskKept DEF ContentOK, Survivable
  <2>2. HeadsBounded'  BY <1>3, HeadsBoundedKept DEF ContentOK
  <2>3. /\ heads' \in [Ring -> HeaderType \cup {None}] /\ HeadersOK'
        /\ ride.next_sequence > 1 =>
             heads'[Source] = heads[Source] /\ tails'[Source] = tails[Source]
    BY <1>3, CommandUnderWay
  <2>4. pc \in {"head", "logical_head"} => tails' = tails  BY <1>3 DEF InFlight
  <2> QED  BY <1>2, <2>1, <2>2, <2>3, <2>4 DEF CutLeft
<1>4. CASE UNCHANGED media
  <2>1. heads' = heads /\ tails' = tails /\ pages' = pages  BY <1>4 DEF media
  <2>2. Disk(heads', tails', pages')  BY <2>1 DEF ContentOK, RidePart
  <2>3. HeadsBounded'  BY <2>1 DEF ContentOK, HeadsBounded, Bounded, Whole, Last
  <2>4. HeadersOK'  BY <2>1 DEF StoreOK, HeadersOK, HeaderOK, Ends, SlotOf
  <2>5. heads' \in [Ring -> HeaderType \cup {None}]  BY <2>1 DEF StoreOK, TypesOK
  <2> QED  BY <1>2, <2>1, <2>2, <2>3, <2>4, <2>5 DEF CutLeft
<1> QED  BY <1>1, <1>3, <1>4

\* The slot the ride continues from stays a candidate.
LEMMA CutSource ==
    ASSUME StoreOK, CutLeft, ride # None, ride.next_sequence > 1
    PROVE  /\ Source \in Ring /\ Candidate(heads', tails', Source)
           /\ heads'[Source].sequence = ride.next_sequence - 1
           /\ heads'[Source].payload = ride.payload
           /\ heads'[Source].flushed = ride.flushed
           /\ heads'[Source].proof_sequence # 0 =>
                ProofGood(heads', tails', heads'[Source].proof_sequence, ride.payload,
                          ride.flushed)
<1> DEFINE h == heads'[Source]
<1>1. /\ heads'[Source] = heads[Source] /\ tails'[Source] = tails[Source]
      /\ Disk(heads', tails', pages')
  BY DEF CutLeft
<1>2. Source \in Ring  BY RideSlots DEF StoreOK, TypesOK
<1>3. /\ h # None /\ tails'[Source] = h.tail /\ ~h.proof
      /\ h.sequence = ride.next_sequence - 1 /\ h.payload = ride.payload
      /\ h.flushed = ride.flushed
  <2>1. current_ride_slot /\ SourceIntact /\ ride.next_sequence # 1
    BY RideFields DEF StoreOK, RideOK, TypesOK
  <2> QED  BY <1>1, <2>1 DEF current_ride_slot, SourceIntact, slot_intact, Source
<1>4. h.proof_sequence # 0 =>
        ProofGood(heads', tails', h.proof_sequence, ride.payload, ride.flushed)
  BY <1>1 DEF Disk, ProofHeld
<1>5. ASSUME h.proof_sequence # 0
      PROVE  \E p \in Ring : Proves(heads', tails', p, Source)
  <2> DEFINE q == h.proof_sequence
  <2>1. SlotOf(q) \in Ring  BY <1>1, <1>5, ProofSlot
  <2>2. Proves(heads', tails', SlotOf(q), Source)
    BY <1>3, <1>4, <1>5 DEF ProofGood, Proves
  <2> QED  BY <2>1, <2>2
<1>6. Candidate(heads', tails', Source)  BY <1>3, <1>5 DEF Candidate
<1> QED  BY <1>2, <1>3, <1>4, <1>6

\* A logical slot that is newer is that of the outstanding checkpoint.
LEMMA CutNewer ==
    ASSUME StoreOK, ContentOK, CutLeft, ride # None, NEW i \in Ring,
           heads'[i] # None, ~heads'[i].proof, heads'[i].sequence >= ride.next_sequence
    PROVE  /\ ride.pending_proof = 0 /\ writer.state # "idle"
           /\ \/ /\ heads'[i] = Ordinary
                 /\ Len(ride.tail) + Len(writer.append) < Page
                 /\ ~refused => pc = "head"
              \/ /\ heads'[i] = LogicalPart
                 /\ Len(ride.tail) + Len(writer.append) >= Page
                 /\ ~refused => pc = "logical_head"
<1>1. Ahead(heads', i) /\ Disk(heads', tails', pages')  BY DEF Ahead, CutLeft
<1>2. ~refused => pc \in {"head", "logical_head"} /\ heads'[i] = SlotWrite
  BY <1>1 DEF Disk
<1>3. Attempt(heads'[i])
  <2>1. CASE boots = 0  BY <1>1, <2>1 DEF Disk
  <2>2. CASE ~refused
    <3>1. pc \in Plain \cup Rolling /\ heads'[i] = SlotWrite
      BY <1>2, <2>2 DEF Plain, Rolling
    <3> QED  BY <3>1, SlotWriteAttempt DEF ContentOK
  <2> QED  BY <2>1, <2>2 DEF CutLeft
<1>4. ride.pending_proof = 0 /\ writer.state # "idle"  BY <1>3 DEF Attempt, Outstanding
<1>5. CASE Len(ride.tail) + Len(writer.append) < Page
  <2>1. heads'[i] = Ordinary  BY <1>3, <1>5 DEF Attempt
  <2>2. ASSUME ~refused PROVE pc = "head"
    <3>1. pc = "logical_head" => Len(ride.tail) + Len(writer.append) >= Page
      BY DEF StoreOK, StageOK, Rolling
    <3>2. Len(ride.tail) \in Nat /\ Len(writer.append) \in Nat
      BY RideFields, WriterFields DEF StoreOK, TypesOK
    <3>3. ~(Len(ride.tail) + Len(writer.append) >= Page)
      <4> DEFINE a == Len(ride.tail)
                 b == Len(writer.append)
      <4>1. a + b < Page /\ a \in Nat /\ b \in Nat  BY <1>5, <3>2
      <4> HIDE DEF a, b
      <4>2. ~(a + b >= Page)  BY <4>1, PageNat
      <4> QED  BY <4>2 DEF a, b
    <3> QED  BY <1>2, <2>2, <3>1, <3>3
  <2> QED  BY <1>4, <1>5, <2>1, <2>2
<1>6. CASE ~(Len(ride.tail) + Len(writer.append) < Page)
  <2>1. Len(ride.tail) + Len(writer.append) >= Page
    <3> DEFINE a == Len(ride.tail)
               b == Len(writer.append)
    <3>1. ~(a + b < Page) /\ a \in Nat /\ b \in Nat
      BY <1>6, RideFields, WriterFields DEF StoreOK, TypesOK
    <3> HIDE DEF a, b
    <3>2. a + b >= Page  BY <3>1, PageNat
    <3> QED  BY <3>2 DEF a, b
  <2>2. heads'[i] = LogicalPart
    <3>1. heads'[i] = ProofPart \/ heads'[i] = LogicalPart  BY <1>3, <1>6 DEF Attempt
    <3>2. ProofPart.proof  BY DEF ProofPart, Header
    <3> QED  BY <3>1, <3>2
  <2>3. ASSUME ~refused PROVE pc = "logical_head"
    <3>1. pc # "head"  BY <1>6 DEF StoreOK, StageOK, Plain
    <3> QED  BY <1>2, <2>3, <3>1
  <2> QED  BY <1>4, <2>1, <2>2, <2>3
<1> QED  BY <1>5, <1>6

\* Without a refusal, a slot whose header a cut has left is a candidate.
LEMMA CutWritten ==
    ASSUME StoreOK, CutLeft, ride # None, ~refused, NEW j \in Ring,
           heads'[j] # None, heads'[j].sequence >= ride.next_sequence,
           ~(heads'[j].proof /\ heads'[j].sequence = ride.next_sequence)
    PROVE  Candidate(heads', tails', j)
<1> DEFINE m == ride.next_sequence
<1>1. Ahead(heads', j) /\ Disk(heads', tails', pages')  BY DEF Ahead, CutLeft
<1>2. pc \in {"head", "logical_head"} /\ heads'[j] = SlotWrite  BY <1>1 DEF Disk
<1>3. tails' = tails  BY <1>2 DEF CutLeft
<1>4. SlotOf(heads'[j].sequence) = j  BY DEF CutLeft, HeadersOK, HeaderOK, SlotOf
<1>5. /\ ride \in RideType /\ m \in Nat /\ m >= 1 /\ ride.pending_proof = 0
      /\ writer.state # "idle"
  BY <1>2, RideFields DEF StoreOK, TypesOK, StageOK, Plain, Rolling, Outstanding
<1>6. CASE pc = "head"
  <2>1. SlotWrite = Ordinary  BY <1>6, SlotWriteIs DEF Plain
  <2>2. /\ Ordinary.sequence = m /\ ~Ordinary.proof /\ Ordinary.proof_sequence = 0
    BY DEF Ordinary, Header
  <2>3. tails[SlotOf(m)] = Ordinary.tail  BY <1>6 DEF StoreOK, StageOK
  <2>4. j = SlotOf(m)  BY <1>2, <1>4, <2>1, <2>2
  <2> QED  BY <1>2, <1>3, <2>1, <2>2, <2>3, <2>4 DEF Candidate
<1>7. CASE pc = "logical_head"
  <2>1. SlotWrite = LogicalPart  BY <1>7, SlotWriteIs
  <2>2. /\ LogicalPart.sequence = m + 1 /\ ~LogicalPart.proof
        /\ LogicalPart.proof_sequence = m /\ LogicalPart.flushed = ride.flushed + Page
    BY DEF LogicalPart, Header
  <2>3. tails[SlotOf(m + 1)] = LogicalPart.tail  BY <1>7 DEF StoreOK, StageOK
  <2>4. j = SlotOf(m + 1)  BY <1>2, <1>4, <2>1, <2>2
  <2>5. /\ heads'[SlotOf(m)] = ProofPart /\ tails'[SlotOf(m)] = ProofPart.tail
    BY <1>1, <1>7 DEF Disk
  <2>6. /\ ProofPart.proof /\ ProofPart.sequence = m /\ ProofPart.flushed = ride.flushed
        /\ ProofPart # None
    <3>1. Len(ride.tail) + Len(writer.append) >= Page
      BY <1>7 DEF StoreOK, StageOK, Rolling
    <3>2. ProofPart \in HeaderType  BY <1>5, <3>1, RolloverOK DEF StoreOK
    <3> QED  BY <3>2, NotNone DEF ProofPart, Header
  <2>7. Proves(heads', tails', SlotOf(m), j)
    BY <1>2, <2>1, <2>2, <2>5, <2>6 DEF Proves
  <2>8. SlotOf(m) \in Ring  BY <1>5, RideSlots
  <2> QED  BY <1>2, <1>3, <2>1, <2>2, <2>3, <2>4, <2>7, <2>8 DEF Candidate
<1> QED  BY <1>2, <1>6, <1>7

\* What Recoverable asks of the newest candidate.
CutRecovers(i) ==
    /\ IsPrefix(acked, heads'[i].payload)
    /\ Holds(pages', heads'[i].payload,
             IF heads'[i].proof_sequence = 0 THEN heads'[i].flushed
             ELSE heads'[i].flushed - Page)
    /\ heads'[i].proof_sequence # 0 =>
         ProofGood(heads', tails', heads'[i].proof_sequence, heads'[i].payload,
                   heads'[i].flushed)
    /\ ~refused => LoneProofs(heads', heads'[i].sequence + 1)

\* The newest candidate is the outstanding checkpoint, written whole ...
LEMMA CutRecoversNewer ==
    ASSUME StoreOK, ContentOK, CutLeft, ride # None, NEW i \in Ring,
           Candidate(heads', tails', i), heads'[i].sequence >= ride.next_sequence
    PROVE  CutRecovers(i)
<1> DEFINE m == ride.next_sequence
           f == ride.flushed
           c == writer.crc
<1>1. heads'[i] # None /\ ~heads'[i].proof  BY DEF Candidate
<1>2. /\ ride.pending_proof = 0 /\ writer.state # "idle"
      /\ \/ /\ heads'[i] = Ordinary
            /\ Len(ride.tail) + Len(writer.append) < Page
            /\ ~refused => pc = "head"
         \/ /\ heads'[i] = LogicalPart
            /\ Len(ride.tail) + Len(writer.append) >= Page
            /\ ~refused => pc = "logical_head"
  BY <1>1, CutNewer
<1>3. Disk(heads', tails', pages')  BY DEF CutLeft
<1>4. ride \in RideType /\ m \in Nat /\ m >= 1 /\ f \in Nat
      /\ Len(ride.tail) \in Nat /\ Len(writer.append) \in Nat
  BY RideFields, WriterFields DEF StoreOK, TypesOK
<1>5. IsPrefix(acked, c) /\ Holds(pages', c, f)
  <2>1. /\ \A n \in 1 .. f : c[n] = ride.payload[n]
        /\ IsPrefix(acked, c)
    BY <1>2, CrcExtends DEF ContentOK
  <2>2. PageEnd = f  BY <1>2 DEF PageEnd
  <2> QED  BY <1>3, <2>1, <2>2 DEF Disk, Holds
<1>6. ASSUME ~refused, NEW j \in Ring, heads'[j] # None,
             heads'[j].sequence >= heads'[i].sequence + 1
      PROVE  FALSE
  <2>1. heads'[i].sequence \in Nat /\ heads'[j].sequence \in Nat
    <3>1. heads'[i] \in HeaderType /\ heads'[j] \in HeaderType
      BY <1>1, <1>6 DEF CutLeft
    <3> QED  BY <3>1 DEF HeaderType
  <2>2. heads'[j].sequence >= m /\ heads'[j].sequence # m
        /\ heads'[j].sequence # heads'[i].sequence
    <3> DEFINE a == heads'[i].sequence
               b == heads'[j].sequence
    <3>1. a \in Nat /\ b \in Nat /\ a >= m /\ b >= a + 1  BY <1>6, <2>1
    <3> HIDE DEF a, b, m
    <3>2. b >= m /\ b # m /\ b # a  BY <1>4, <3>1
    <3> QED  BY <3>2 DEF a, b
  <2>3. Ahead(heads', j)  BY <1>6, <2>2 DEF Ahead
  <2>4. heads'[j] = SlotWrite  BY <1>3, <1>6, <2>2, <2>3 DEF Disk
  <2>5. pc \in {"head", "logical_head"}  BY <1>2, <1>6
  <2>6. Ahead(heads', i)  BY <1>1 DEF Ahead
  <2>7. heads'[i] = SlotWrite  BY <1>1, <1>3, <1>6, <2>6 DEF Disk
  <2> QED  BY <2>2, <2>4, <2>7
<1>7. ~refused => LoneProofs(heads', heads'[i].sequence + 1)
  BY <1>6 DEF LoneProofs
<1>8. CASE heads'[i] = Ordinary
  <2>1. Ordinary.payload = c /\ Ordinary.flushed = f /\ Ordinary.proof_sequence = 0
    BY DEF Ordinary, Header
  <2> QED  BY <1>5, <1>7, <1>8, <2>1 DEF CutRecovers
<1>9. CASE /\ heads'[i] = LogicalPart
           /\ Len(ride.tail) + Len(writer.append) >= Page
           /\ ~refused => pc = "logical_head"
  <2>1. /\ LogicalPart.payload = c /\ LogicalPart.flushed = f + Page
        /\ LogicalPart.proof_sequence = m
    BY DEF LogicalPart, Header
  <2>2. PICK p \in Ring : Proves(heads', tails', p, i)
    <3>1. heads'[i].proof_sequence # 0  BY <1>4, <1>9, <2>1
    <3> QED  BY <3>1 DEF Candidate
  <2>3. /\ heads'[p] # None /\ tails'[p] = heads'[p].tail /\ heads'[p].proof
        /\ heads'[p].sequence = m
    BY <1>9, <2>1, <2>2 DEF Proves
  <2>4. p = SlotOf(m)  BY <2>3 DEF CutLeft, HeadersOK, HeaderOK, SlotOf
  <2>5. heads'[p] = ProofPart
    <3>1. CASE boots = 0
      <4>1. heads'[p].sequence >= ride.next_sequence  BY <1>4, <2>3
      <4>2. Ahead(heads', p)  BY <2>3, <4>1 DEF Ahead
      <4>3. Attempt(heads'[p])  BY <1>3, <3>1, <4>2 DEF Disk
      <4>4. ~(Len(ride.tail) + Len(writer.append) < Page)
        <5> DEFINE a == Len(ride.tail)
                   b == Len(writer.append)
        <5>1. a + b >= Page /\ a \in Nat /\ b \in Nat  BY <1>4, <1>9
        <5> HIDE DEF a, b
        <5>2. ~(a + b < Page)  BY <5>1, PageNat
        <5> QED  BY <5>2 DEF a, b
      <4>5. heads'[p] = ProofPart \/ heads'[p] = LogicalPart
        BY <4>3, <4>4 DEF Attempt
      <4>6. ~LogicalPart.proof  BY DEF LogicalPart, Header
      <4> QED  BY <2>3, <4>5, <4>6
    <3>2. CASE ~refused
      <4>1. heads'[SlotOf(m)] = ProofPart  BY <1>3, <1>9, <3>2 DEF Disk
      <4> QED  BY <2>4, <4>1
    <3> QED  BY <3>1, <3>2 DEF CutLeft
  <2>6. /\ \A n \in 1 .. Page : ProofPart.tail[n] = c[f + n]
        /\ ProofPart.flushed = f
    BY <1>2, <1>9, RolloverOK DEF StoreOK
  <2> DEFINE g == f + Page
  <2>7. g - Page = f
    <3>1. f \in Nat /\ g = f + Page  BY <1>4
    <3> HIDE DEF f, g
    <3> QED  BY <3>1, PageNat
  <2>8. ProofGood(heads', tails', m, c, g)
    <3>1. /\ heads'[SlotOf(m)] = ProofPart /\ tails'[SlotOf(m)] = ProofPart.tail
          /\ ProofPart # None /\ ProofPart.proof /\ ProofPart.sequence = m
      BY <2>3, <2>4, <2>5
    <3>2. ProofPart.flushed + Page = g  BY <2>6
    <3> HIDE DEF f, g, m, c
    <3>3. \A n \in 1 .. Page : ProofPart.tail[n] = c[g - Page + n]  BY <2>6, <2>7
    <3> QED  BY <3>1, <3>2, <3>3 DEF ProofGood
  <2>9. (IF heads'[i].proof_sequence = 0 THEN heads'[i].flushed
         ELSE heads'[i].flushed - Page) = f
    <3>1. heads'[i].proof_sequence # 0  BY <1>4, <1>9, <2>1
    <3>2. heads'[i].flushed = g  BY <1>9, <2>1
    <3> HIDE DEF f, g
    <3> QED  BY <2>7, <3>1, <3>2
  <2> QED  BY <1>5, <1>7, <1>9, <2>1, <2>8, <2>9 DEF CutRecovers
<1> QED  BY <1>2, <1>8, <1>9

\* ... or the slot the ride continued from.
LEMMA CutRecoversOlder ==
    ASSUME StoreOK, ContentOK, CutLeft, ride # None, NEW i \in Ring,
           Candidate(heads', tails', i), ~(heads'[i].sequence >= ride.next_sequence),
           \A j \in Ring : Candidate(heads', tails', j) =>
             heads'[j].sequence <= heads'[i].sequence
    PROVE  CutRecovers(i)
<1> DEFINE m == ride.next_sequence
           f == ride.flushed
           h == heads'[i]
<1>1. h # None /\ ~h.proof  BY DEF Candidate
<1>2. Disk(heads', tails', pages')  BY DEF CutLeft
<1>3. m \in Nat /\ m >= 1 /\ f \in Nat  BY RideFields DEF StoreOK, TypesOK
<1>4. h.sequence \in Nat /\ h.sequence >= 1 /\ SlotOf(h.sequence) = i
  <2>1. h \in HeaderType  BY <1>1 DEF CutLeft
  <2>2. h.sequence >= 1 /\ SlotOf(h.sequence) = i
    BY <1>1 DEF CutLeft, HeadersOK, HeaderOK, SlotOf
  <2> QED  BY <2>1, <2>2 DEF HeaderType
<1>5. m > 1 /\ h.sequence <= m - 1
  <2> DEFINE a == h.sequence
  <2>1. a \in Nat /\ a >= 1 /\ ~(a >= m)  BY <1>4
  <2> HIDE DEF a, m
  <2>2. m > 1 /\ a <= m - 1  BY <1>3, <2>1
  <2> QED  BY <2>2 DEF a, m
<1>6. /\ Source \in Ring /\ Candidate(heads', tails', Source)
      /\ heads'[Source].sequence = m - 1
      /\ heads'[Source].payload = ride.payload /\ heads'[Source].flushed = f
      /\ heads'[Source].proof_sequence # 0 =>
           ProofGood(heads', tails', heads'[Source].proof_sequence, ride.payload, f)
  BY <1>5, CutSource
<1>7. h.sequence = m - 1
  <2> DEFINE a == h.sequence
  <2>1. a \in Nat /\ m - 1 <= a /\ a <= m - 1  BY <1>4, <1>5, <1>6
  <2> HIDE DEF a, m
  <2>2. a = m - 1  BY <1>3, <2>1
  <2> QED  BY <2>2 DEF a
<1>8. i = Source  BY <1>4, <1>7 DEF Source
<1>9. IsPrefix(acked, h.payload)  BY <1>6, <1>8 DEF ContentOK, RidePart
<1>10. Holds(pages', h.payload, IF h.proof_sequence = 0 THEN h.flushed ELSE h.flushed - Page)
  <2>1. Holds(pages', ride.payload, PageEnd)  BY <1>2 DEF Disk
  <2>2. CASE h.proof_sequence = 0
    <3>1. ride.pending_proof = 0
      <4>1. heads[Source] = heads'[Source]  BY <1>5 DEF CutLeft
      <4> QED  BY <1>8, <2>2, <4>1 DEF StoreOK, RideOK
    <3>2. PageEnd = f  BY <3>1 DEF PageEnd
    <3> QED  BY <1>6, <1>8, <2>1, <2>2, <3>2
  <2>3. CASE h.proof_sequence # 0
    <3>1. PageEnd \in 0 .. f /\ (PageEnd = f \/ PageEnd = f - Page)
      BY RideWithin DEF ContentOK, PageEnd
    <3>2. \A n \in 1 .. f - Page : n \in 1 .. PageEnd
      <4> DEFINE e == PageEnd
      <4>1. e \in 0 .. f /\ (e = f \/ e = f - Page)  BY <3>1
      <4> HIDE DEF e, f
      <4>2. \A n \in 1 .. f - Page : n \in 1 .. e  BY <1>3, <4>1, PageNat
      <4> QED  BY <4>2 DEF e
    <3>3. Holds(pages', ride.payload, f - Page)  BY <2>1, <3>2 DEF Holds
    <3> QED  BY <1>6, <1>8, <2>3, <3>3
  <2> QED  BY <2>2, <2>3
<1>11. h.proof_sequence # 0 =>
         ProofGood(heads', tails', h.proof_sequence, h.payload, h.flushed)
  BY <1>6, <1>8
<1>12. ASSUME ~refused, NEW j \in Ring, heads'[j] # None, heads'[j].sequence >= m
       PROVE  heads'[j].proof /\ heads'[j].sequence = m
  <2> SUFFICES ASSUME ~(heads'[j].proof /\ heads'[j].sequence = m) PROVE FALSE
    OBVIOUS
  <2>1. Candidate(heads', tails', j)  BY <1>12, CutWritten
  <2>2. heads'[j].sequence <= h.sequence  BY <2>1
  <2>3. heads'[j].sequence \in Nat
    <3>1. heads'[j] \in HeaderType  BY <1>12 DEF CutLeft
    <3> QED  BY <3>1 DEF HeaderType
  <2> DEFINE a == h.sequence
             b == heads'[j].sequence
  <2>4. a \in Nat /\ b \in Nat /\ b <= a /\ a <= m - 1 /\ b >= m
    BY <1>4, <1>5, <1>12, <2>2, <2>3
  <2> HIDE DEF a, b, m
  <2> QED  BY <1>3, <2>4
<1>13. ~refused => LoneProofs(heads', h.sequence + 1)
  <2>1. h.sequence + 1 = m
    <3> DEFINE a == h.sequence
    <3>1. a = m - 1  BY <1>7
    <3> HIDE DEF a, m
    <3>2. a + 1 = m  BY <1>3, <3>1
    <3> QED  BY <3>2 DEF a
  <2> QED  BY <1>12, <2>1 DEF LoneProofs
<1> QED  BY <1>9, <1>10, <1>11, <1>13 DEF CutRecovers

\* A power cut keeps the content: after it the card is recoverable.
LEMMA ContentCut ==
    ASSUME Survivable, StoreOK, ContentOK, Cut
    PROVE  ContentOK'
<1>1. /\ pc # "ended" /\ pc' = "mount" /\ ride' = None /\ boots' = boots + 1
      /\ writer' = Writer("idle", <<>>, <<>>) /\ UNCHANGED <<acked, published, refused, idles>>
      /\ boots < (IF refused THEN MaxRefusedBoots ELSE MaxBoots)
      /\ InFlight(FALSE) \/ UNCHANGED media
  BY DEF Cut
<1>2. RidePart' /\ TailPublished' /\ WriterBounded'
  BY <1>1, NothingToWrite DEF RidePart, TailPublished
<1>3. Booted'
  <2>1. boots \in Nat  BY JournalAssumption DEF StoreOK, TypesOK
  <2>2. boots' # 0  BY <1>1, <2>1
  <2> QED  BY <1>1, <2>2 DEF Booted
<1>4. PublishedPart'  BY <1>1 DEF ContentOK, PublishedPart
<1>5. CASE ride = None
  <2>1. pc \in {"mount", "unreadable"}  BY <1>1, <1>5 DEF StoreOK, StageOK
  <2>2. UNCHANGED <<heads, tails, pages>>  BY <1>1, <2>1 DEF InFlight, media
  <2>3. pc = "mount"
    <3> SUFFICES ASSUME pc = "unreadable" PROVE FALSE  BY <2>1
    <3>1. refused /\ boots # 0  BY DEF ContentOK, Booted
    <3>2. boots < MaxRefusedBoots  BY <1>1, <3>1
    <3>3. MaxRefusedBoots \in Nat /\ MaxRefusedBoots <= 1 /\ boots \in Nat
      BY JournalAssumption DEF Survivable, StoreOK, TypesOK
    <3>4. boots = 0  BY <3>2, <3>3
    <3> QED  BY <3>1, <3>4
  <2>4. Recoverable  BY <2>3 DEF ContentOK, MountPart
  <2>5. Candidates(Ring)' = Candidates(Ring)
    BY <2>2 DEF Candidates, ProofOf, slot_intact
  <2>6. ASSUME Candidates(Ring)' = {}
        PROVE  acked' = <<>> /\ (~refused' => LoneProofs(heads', 1))
    BY <1>1, <2>2, <2>4, <2>5, <2>6 DEF Recoverable
  <2>7. ASSUME NEW i \in Ring, Newest(i)' PROVE Newest(i)
    BY <2>2, <2>5, <2>7 DEF Newest
  <2>8. ASSUME NEW i \in Ring, Newest(i)' PROVE CutRecovers(i)
    BY <2>2, <2>4, <2>7, <2>8 DEF Recoverable, CutRecovers
  <2>9. Recoverable'
    BY <1>1, <2>6, <2>8 DEF Recoverable, CutRecovers, IsPrefix, Holds, Cell, ProofGood, LoneProofs, SlotOf
  <2>10. HeadsBounded'  BY <2>2 DEF ContentOK, HeadsBounded, Bounded, Whole, Last
  <2> QED  BY <1>2, <1>3, <1>4, <2>9, <2>10 DEF ContentOK, MountPart
<1>6. CASE ride # None
  <2>1. CutLeft /\ HeadsBounded'  BY <1>6, CutLeaves
  <2>2. Candidates(Ring)' = {i \in Ring : Candidate(heads', tails', i)}  BY CandidatesAfter
  <2>3. ASSUME Candidates(Ring)' = {}
        PROVE  acked' = <<>> /\ (~refused' => LoneProofs(heads', 1))
    <3>1. ~(ride.next_sequence > 1)
      <4> SUFFICES ASSUME ride.next_sequence > 1 PROVE FALSE  OBVIOUS
      <4>1. Source \in Ring /\ Candidate(heads', tails', Source)  BY <1>6, <2>1, CutSource
      <4> QED  BY <2>2, <2>3, <4>1
    <3>2. ride.next_sequence = 1
      <4>1. ride.next_sequence \in Nat /\ ride.next_sequence >= 1
        BY <1>6, RideFields DEF StoreOK, TypesOK
      <4> QED  BY <3>1, <4>1
    <3>3. ride.payload = <<>>  BY <1>6, <3>2 DEF StoreOK, RideOK, current_ride_slot
    <3>4. IsPrefix(acked, <<>>) /\ acked \in Bytes
      BY <1>6, <3>3 DEF ContentOK, RidePart, StoreOK, TypesOK
    <3>5. acked = <<>>  BY <3>4, PrefixOfNothing
    <3>6. ASSUME ~refused', NEW j \in Ring, heads'[j] # None, heads'[j].sequence >= 1
          PROVE  heads'[j].proof /\ heads'[j].sequence = 1
      <4> SUFFICES ASSUME ~(heads'[j].proof /\ heads'[j].sequence = 1) PROVE FALSE
        OBVIOUS
      <4>1. Candidate(heads', tails', j)  BY <1>1, <1>6, <2>1, <3>2, <3>6, CutWritten
      <4> QED  BY <2>2, <2>3, <4>1
    <3> QED  BY <1>1, <3>5, <3>6 DEF LoneProofs
  <2>4. ASSUME NEW i \in Ring, Newest(i)' PROVE CutRecovers(i)
    <3>1. /\ Candidate(heads', tails', i)
          /\ \A j \in Ring : Candidate(heads', tails', j) =>
               heads'[j].sequence <= heads'[i].sequence
      BY <2>2, <2>4 DEF Newest
    <3>2. CASE heads'[i].sequence >= ride.next_sequence
      BY <1>6, <2>1, <3>1, <3>2, CutRecoversNewer
    <3>3. CASE ~(heads'[i].sequence >= ride.next_sequence)
      BY <1>6, <2>1, <3>1, <3>3, CutRecoversOlder
    <3> QED  BY <3>2, <3>3
  <2>5. Recoverable'
    BY <1>1, <2>3, <2>4 DEF Recoverable, CutRecovers, IsPrefix, Holds, Cell, ProofGood, LoneProofs, SlotOf
  <2> QED  BY <1>2, <1>3, <1>4, <2>1, <2>5 DEF ContentOK, MountPart
<1> QED  BY <1>5, <1>6

\* It holds of a ride that has just begun.
LEMMA ContentInit ==
    ASSUME Init
    PROVE  ContentOK
<1> USE DEF Init
<1>1. /\ ride.next_sequence = 1 /\ ride.payload = <<>> /\ ride.flushed = 0
      /\ ride.pending_proof = 0
  BY EmptyRideOK
<1>2. \A j \in Ring : heads[j] = None  OBVIOUS
<1>3. Len(<<>>) + 1 <= Reserve /\ Len(<<>>) <= Reserve
  BY EmptyBytes, JournalAssumption
<1>4. Disk(heads, tails, pages)
  <2>1. Holds(pages, ride.payload, PageEnd)
    <3>1. PageEnd = 0  BY <1>1 DEF PageEnd
    <3>2. \A n \in 1 .. 0 : FALSE  OBVIOUS
    <3> QED  BY <3>1, <3>2 DEF Holds
  <2>2. ProofHeld(heads, tails)
    <3>1. ~(ride.next_sequence > 1)  BY <1>1
    <3> QED  BY <3>1 DEF ProofHeld
  <2>3. \A j \in Ring : ~Ahead(heads, j)  BY <1>2 DEF Ahead
  <2>4. pc \notin {"logical_tail", "logical_head"}  OBVIOUS
  <2> QED  BY <2>1, <2>2, <2>3, <2>4 DEF Disk
<1>5. RidePart
  <2>1. IsPrefix(<<>>, <<>>)  BY EmptyBytes, PrefixSelf
  <2>2. IsPrefix(acked, ride.payload)  BY <1>1, <2>1
  <2>3. Bounded(ride.payload)  BY <1>1, <1>3 DEF Bounded
  <2> QED  BY <1>4, <2>2, <2>3 DEF RidePart
<1>6. HeadsBounded  BY <1>2 DEF HeadsBounded
<1>7. WriterBounded
  <2>1. writer.crc = <<>> /\ writer.state = "live"  BY DEF Writer
  <2> QED  BY <1>3, <2>1 DEF WriterBounded
<1>8. TailPublished /\ Booted /\ MountPart /\ PublishedPart
  BY DEF TailPublished, Booted, MountPart, PublishedPart
<1> QED  BY <1>5, <1>6, <1>7, <1>8 DEF ContentOK

\* Every step keeps it.
LEMMA ContentStep ==
    ASSUME Survivable, StoreOK, ContentOK, [Next]_vars
    PROVE  ContentOK'
<1>0. Slots >= 4  BY DEF Survivable
<1>1. CASE UNCHANGED vars
  <2>1. /\ UNCHANGED <<media, ride, writer, acked, published, boots, refused>> /\ pc' = pc
    BY <1>1 DEF vars, media
  <2>2. WriterBounded'  BY <2>1, WriterStays
  <2>3. TailPublished' /\ Booted'  BY <2>1 DEF ContentOK, TailPublished, Booted, media
  <2>4. HeadsBounded'  BY <2>1 DEF ContentOK, HeadsBounded, Bounded, Whole, Last, media
  <2>5. PublishedPart'
    BY <2>1 DEF ContentOK, PublishedPart, PublishedIsWhole, IsPrefix, Last
  <2>6. RidePart'
    BY <1>1 DEF vars, ContentOK, RidePart, Disk, Holds, Cell, PageEnd, ProofHeld, ProofGood,
                Source, SlotOf, Ahead, Attempt, SlotWrite, Ordinary, ProofPart, LogicalPart,
                IntoPage, Spill, Header, IsPrefix, Bounded, Whole, Last
  <2>7. MountPart'
    BY <1>1 DEF vars, ContentOK, MountPart, Recoverable, Candidates, ProofOf, slot_intact,
                Newest, LoneProofs, Holds, Cell, ProofGood, SlotOf, IsPrefix
  <2> QED  BY <2>2, <2>3, <2>4, <2>5, <2>6, <2>7 DEF ContentOK
<1>2. CASE append  BY <1>2, ContentAppend
<1>3. CASE checkpoint  BY <1>3, ContentCheckpoint
<1>4. CASE finish  BY <1>4, ContentFinish
<1>5. CASE discard  BY <1>5, ContentDiscard
<1>6. CASE journal  BY <1>6, ContentJournal
<1>7. CASE TailDone  BY <1>0, <1>7, ContentTailDone
<1>8. CASE HeadDone  BY <1>0, <1>8, ContentHeadDone
<1>9. CASE ProofDone  BY <1>0, <1>9, ContentProofDone
<1>10. CASE LogicalDone  BY <1>0, <1>10, ContentLogicalDone
<1>11. CASE repair_rollover  BY <1>0, <1>11, ContentRepairRollover
<1>12. CASE JournalFails  BY <1>0, <1>12, ContentJournalFails
<1>13. CASE BeginPublish  BY <1>13, ContentBeginPublish
<1>14. CASE flush_ride_tail  BY <1>0, <1>14, ContentFlush
<1>15. CASE Publish  BY <1>15, ContentPublish
<1>16. CASE PublishFails  BY <1>16, ContentPublishFails
<1>17. CASE RemoveRide  BY <1>17, ContentRemoveRide
<1>18. CASE Cut  BY <1>18, ContentCut
<1>19. CASE recover_ride  BY <1>19, ContentRecoverRide
<1>20. CASE RecoverRepair  BY <1>0, <1>20, ContentRecoverRepair
<1>21. CASE RecoverFails  BY <1>21, ContentRecoverFails
<1>22. CASE recover  BY <1>22, ContentRecover
<1> QED
  BY <1>1, <1>2, <1>3, <1>4, <1>5, <1>6, <1>7, <1>8, <1>9, <1>10, <1>11, <1>12, <1>13,
     <1>14, <1>15, <1>16, <1>17, <1>18, <1>19, <1>20, <1>21, <1>22 DEF Next

\* The content of the ride is an invariant: wherever a checkpoint, a rollover, a
\* repair or a publication is cut or refused, the card holds the payload the store
\* describes, or the next mount finds it.  For every size of the page, the reserve
\* and a checkpoint, every ring of at least four slots and every number of cuts.
THEOREM ContentIsInvariant ==
    ASSUME Survivable
    PROVE  Spec => [](StoreOK /\ ContentOK)
<1>1. Init => StoreOK /\ ContentOK  BY StoreInit, ContentInit
<1>2. StoreOK /\ ContentOK /\ [Next]_vars => (StoreOK /\ ContentOK)'
  BY StoreStep, ContentStep
<1> QED  BY <1>1, <1>2, PTL DEF Spec

\* Every variable keeps its type; a ride and the writer's payload stay within the
\* reserve, footer included (TypeOK).
THEOREM JournalTypes ==
    ASSUME Survivable
    PROVE  Spec => []TypeOK
<1>1. StoreOK /\ ContentOK => TypeOK
  <2> SUFFICES ASSUME StoreOK, ContentOK PROVE TypeOK  OBVIOUS
  <2>1. /\ heads \in [Ring -> HeaderType \cup {None}]
        /\ tails \in [Ring -> Bytes \cup {Torn}]
        /\ pages \in [0 .. Reserve \div Page -> Bytes \cup {Torn}]
        /\ acked \in Bytes
        /\ boots \in 0 .. MaxBoots /\ refused \in BOOLEAN /\ idles \in 0 .. MaxIdle
    BY DEF StoreOK, TypesOK
  <2>2. ride # None =>
          ride \in RideType /\ Len(ride.tail) < Page /\ ride.flushed % Page = 0
    BY DEF StoreOK, TypesOK, RideOK
  <2>3. writer \in [state : {"live", "pending", "repair", "closing", "publish",
                             "discard", "idle"}, append : Bytes, crc : Bytes]
    <3>1. States = {"live", "pending", "repair", "closing", "publish", "discard", "idle"}
      BY DEF States, Outstanding
    <3> QED  BY <3>1 DEF StoreOK, TypesOK
  <2>4. pc \in {"idle", "tail", "head", "proof_tail", "proof_head", "logical_tail",
                "logical_head", "repair", "flush", "commit", "ended", "mount",
                "repairing", "recover", "unreadable"}
    BY DEF StoreOK, TypesOK, Stages, Plain, Rolling
  <2>5. Len(writer.append) <= Delta /\ Len(writer.crc) <= Reserve
    BY DEF StoreOK, ContinuesOK, ContentOK, WriterBounded
  <2>6. published # None => published \in [crc : Bytes, bytes : Bytes]
    BY DEF ContentOK, PublishedPart
  <2> QED  BY <2>1, <2>2, <2>3, <2>4, <2>5, <2>6 DEF TypeOK
<1> QED  BY <1>1, ContentIsInvariant, PTL

\* The bytes of a ride are the bytes its running CRC was computed over, across
\* retries, rollovers, cuts and recoveries (RecordedMatchesCrc).
THEOREM RideMatchesCrc ==
    ASSUME Survivable
    PROVE  Spec => []RecordedMatchesCrc
<1>1. StoreOK /\ ContentOK => RecordedMatchesCrc
  <2> SUFFICES ASSUME StoreOK, ContentOK, Idle, ride.pending_proof = 0
               PROVE  Recorded = ride.payload
    BY DEF RecordedMatchesCrc
  <2>1. ride # None  BY DEF Idle, StoreOK, StageOK
  <2> QED  BY <2>1, RecordedIs
<1> QED  BY <1>1, ContentIsInvariant, PTL

\* Every checkpoint that returned success is part of the ride, however many cuts
\* follow it (AcknowledgedSurvives; store.rs journal and recover_ride).
THEOREM AcknowledgedRideSurvives ==
    ASSUME Survivable
    PROVE  Spec => []AcknowledgedSurvives
<1>1. StoreOK /\ ContentOK => AcknowledgedSurvives
  BY DEF ContentOK, RidePart, AcknowledgedSurvives
<1> QED  BY <1>1, ContentIsInvariant, PTL

\* A published ride has exactly the bytes of its CRC, with everything that was ever
\* acknowledged, and ends with its footer (PublishedIsWhole; store.rs publish_ride).
THEOREM PublishedRideIsWhole ==
    ASSUME Survivable
    PROVE  Spec => []PublishedIsWhole
<1>1. StoreOK /\ ContentOK => PublishedIsWhole
  BY DEF ContentOK, PublishedPart, PublishedIsWhole
<1> QED  BY <1>1, ContentIsInvariant, PTL
===============================================================================
