----------------------------- MODULE WireProofs -----------------------------
(***************************************************************************)
(* Proofs about Wire: how much of what the radio sends a tear of the       *)
(* stream or a damaged byte can spoil, for frames of any number and        *)
(* length, cut anywhere.                                                   *)
(*                                                                         *)
(* The argument is by weight.  A frame is safe while its bytes lie         *)
(* together and nothing unfinished is before them: it will be decoded as   *)
(* it was sent.  The weight of the bytes that are still read is the number *)
(* of frames that are neither safe nor settled, and one more if the last   *)
(* of them is open.  Reading and decoding never add to it; a tear or a     *)
(* damaged byte adds two.  That a frame is decoded wrong uses up the last  *)
(* byte of one that is not safe, so the weight bounds those as well; or it *)
(* uses up a terminator that nobody sent, of which a garbled byte makes    *)
(* one at most, and then it spoils one frame and not two.                  *)
(***************************************************************************)
EXTENDS Wire, SequenceTheorems, FiniteSetTheorems, TLAPS

-----------------------------------------------------------------------------
(* Cutting a sequence in two.                                              *)

\* Receiving the first n leaves the others, n places further ahead.
LEMMA SplitLine ==
  ASSUME NEW S, NEW q \in Seq(S), NEW n \in 0..Len(q)
  PROVE  LET c == SubSeq(q, 1, n)
             d == SubSeq(q, n + 1, Len(q))
         IN  /\ c \in Seq(S) /\ Len(c) = n
             /\ \A i \in 1..n : c[i] = q[i]
             /\ d \in Seq(S) /\ Len(d) = Len(q) - n
             /\ \A i \in 1..Len(d) : d[i] = q[n + i] /\ n + i \in 1..Len(q) /\ n + i > n
<1> DEFINE one == 1
           c == SubSeq(q, one, n)
           d == SubSeq(q, n + 1, Len(q))
<1>1. Len(q) \in Nat /\ n \in Int /\ n + 1 \in Int /\ Len(q) \in Int /\ one \in Int
  OBVIOUS
<1>2. \A i \in one..n : q[i] \in S
  OBVIOUS
<1>3. \A i \in (n + 1)..Len(q) : q[i] \in S
  OBVIOUS
<1>4. /\ c \in Seq(S) /\ Len(c) = IF one <= n THEN n - one + 1 ELSE 0
      /\ \A i \in 1..(n - one + 1) : c[i] = q[one + i - 1]
  <2> HIDE DEF one
  <2> QED  BY <1>1, <1>2, SubSeqProperties
<1>5. /\ d \in Seq(S) /\ Len(d) = IF n + 1 <= Len(q) THEN Len(q) - (n + 1) + 1 ELSE 0
      /\ \A i \in 1..(Len(q) - (n + 1) + 1) : d[i] = q[n + 1 + i - 1]
  BY <1>1, <1>3, SubSeqProperties
<1>6. \A i \in 1..n : one + i - 1 = i
  OBVIOUS
<1>7. Len(c) = n /\ \A i \in 1..n : c[i] = q[i]
  BY <1>4, <1>6
<1>8. \A i \in 1..(Len(q) - n) : n + 1 + i - 1 = n + i /\ n + i \in 1..Len(q) /\ n + i > n
  OBVIOUS
<1>9. Len(d) = Len(q) - n
  BY <1>5
<1>10. Len(q) - (n + 1) + 1 = Len(q) - n
  BY <1>1
<1> HIDE DEF c, d
<1>11. \A i \in 1..Len(d) : d[i] = q[n + i] /\ n + i \in 1..Len(q) /\ n + i > n
  BY <1>5, <1>8, <1>9, <1>10
<1> QED  BY <1>4, <1>5, <1>7, <1>9, <1>11 DEF c, d

-----------------------------------------------------------------------------
(* What the decoders do with a buffer.                                     *)

\* The least of a set of numbers.
LEMMA Least ==
  ASSUME NEW S \in SUBSET Nat, S # {}
  PROVE  \E m \in S : \A i \in S : m <= i
<1> DEFINE R == StrictSubsetOrdering(Nat)
           F == FiniteSubsetsOf(Nat)
           T == {0..n : n \in S}
<1>1. IsWellFoundedOn(R, F)
  BY FS_StrictSubsetOrderingWellFounded
<1>2. T \subseteq F /\ T # {}
  <2>1. \A n \in S : 0..n \in F
    <3> SUFFICES ASSUME NEW n \in S  PROVE  0..n \in F
      OBVIOUS
    <3>1. n \in Int /\ 0 \in Int /\ 0..n \in SUBSET Nat
      OBVIOUS
    <3>2. IsFiniteSet(0..n)
      BY <3>1, FS_Interval
    <3> QED  BY <3>1, <3>2 DEF FiniteSubsetsOf
  <2> QED  BY <2>1
<1>3. PICK x \in T : \A y \in T : <<y, x>> \notin R
  <2> HIDE DEF R, F, T
  <2> QED  BY <1>1, <1>2, WFMin
<1>4. PICK m \in S : x = 0..m
  BY <1>3
<1>5. ASSUME NEW i \in S, ~(m <= i)  PROVE  FALSE
  <2>1. i \in Nat /\ m \in Nat /\ i < m
    BY <1>5
  <2>2. 0..i \in T /\ 0..i \subseteq 0..m /\ 0..i # 0..m
    BY <2>1
  <2>3. <<0..i, 0..m>> \in R
    BY <2>1, <2>2 DEF StrictSubsetOrdering
  <2> QED  BY <1>3, <1>4, <2>2, <2>3
<1> QED  BY <1>5

\* The first place of a byte.
LEMMA FirstIs ==
  ASSUME NEW S, NEW buf \in Seq(S), NEW byte, Has(buf, byte)
  PROVE  /\ First(buf, byte) \in 1..Len(buf) /\ buf[First(buf, byte)] = byte
         /\ \A j \in 1..First(buf, byte) - 1 : buf[j] # byte
<1> DEFINE T == {i \in 1..Len(buf) : buf[i] = byte}
<1>0. DOMAIN buf = 1..Len(buf) /\ Len(buf) \in Nat
  OBVIOUS
<1>1. T \in SUBSET Nat /\ T # {}
  BY <1>0 DEF Has
<1>2. PICK m \in T : \A i \in T : m <= i
  <2> HIDE DEF T
  <2> QED BY <1>1, Least
<1>3. m \in DOMAIN buf /\ buf[m] = byte /\ \A j \in 1..m - 1 : buf[j] # byte
  BY <1>0, <1>2
<1> QED BY <1>0, <1>3 DEF First

\* The letters at the beginning.
LEMMA AlphaEnd ==
  ASSUME NEW S, NEW text \in Seq(S)
  PROVE  /\ alpha_end(text) \in 0..Len(text)
         /\ \A i \in 1..alpha_end(text) : text[i] \in Letters
<1> DEFINE T == {n \in 1..Len(text) + 1 : n <= Len(text) => text[n] \notin Letters}
<1>0. Len(text) \in Nat
  OBVIOUS
<1>1. T \in SUBSET Nat /\ T # {}
  <2>1. Len(text) + 1 \in T
    BY <1>0
  <2> QED BY <1>0, <2>1
<1>2. PICK m \in T : \A i \in T : m <= i
  <2> HIDE DEF T
  <2> QED BY <1>1, Least
<1>3. /\ m - 1 \in 0..Len(text)
      /\ \A i \in 1..m - 1 : text[i] \in Letters
      /\ m - 1 < Len(text) => text[m - 1 + 1] \notin Letters
  BY <1>0, <1>2
<1>4. \E n \in 0..Len(text) : /\ \A i \in 1..n : text[i] \in Letters
                              /\ n < Len(text) => text[n + 1] \notin Letters
  BY <1>3
<1> QED BY <1>4 DEF alpha_end

-----------------------------------------------------------------------------
(* The text decoders.                                                      *)

\* The body of the first frame.
LEMMA BodyIs ==
  ASSUME NEW S, NEW buf \in Seq(S), Has(buf, TERMINATOR)
  PROVE  /\ First(buf, TERMINATOR) \in 1..Len(buf)
         /\ SubSeq(buf, 1, First(buf, TERMINATOR) - 1) \in Seq(S)
         /\ Len(SubSeq(buf, 1, First(buf, TERMINATOR) - 1)) = First(buf, TERMINATOR) - 1
<1>1. First(buf, TERMINATOR) \in 1..Len(buf) /\ Len(buf) \in Nat
  BY FirstIs
<1>2. First(buf, TERMINATOR) - 1 \in 0..Len(buf)
  BY <1>1
<1> QED  BY <1>1, <1>2, SplitLine

\* What decode_response takes from a buffer: all up to the first semicolon.
LEMMA TextDecode ==
  ASSUME NEW S, NEW buf \in Seq(S), NEW ds
  PROVE  IF Has(buf, TERMINATOR)
         THEN /\ decode_response(buf, ds).consumed = First(buf, TERMINATOR)
              /\ decode_response(buf, ds).kind \in {"Error", "Response"}
         ELSE decode_response(buf, ds) = Incomplete
BY DEF decode_response, Error, Response, Incomplete

\* The copies of the decoder in the crates of the makes and the shared one agree on
\* every buffer (decode_response of riglib-text-io and of the three makes).
LEMMA CopiesAgree ==
  ASSUME NEW S, NEW buf \in Seq(S)
  PROVE  /\ kenwood_decode_response(buf) = decode_response(buf, {})
         /\ elecraft_decode_response(buf) = decode_response(buf, {})
         /\ yaesu_decode_response(buf) = decode_response(buf, DIGIT_SUFFIX_PREFIXES)
<1>1. CASE ~Has(buf, TERMINATOR)
  BY <1>1 DEF kenwood_decode_response, elecraft_decode_response, yaesu_decode_response,
              decode_response
<1>2. CASE Has(buf, TERMINATOR)
  <2> DEFINE k == First(buf, TERMINATOR)
             body == Body(buf)
             n == alpha_end(body)
             fig == Figure(body, n + 1)
  <2>1. /\ k \in 1..Len(buf) /\ body \in Seq(S) /\ Len(body) = k - 1
        /\ body = SubSeq(buf, 1, k - 1)
    BY <1>2, BodyIs DEF Body
  <2>2. n \in 0..Len(body)
    BY <2>1, AlphaEnd
  <2>3. SubSeq(buf, 1, n) = SubSeq(body, 1, n)
    BY <2>1, <2>2
  <2>4. prefix_end(body, {}) = n
    BY DEF prefix_end
  <2>5. prefix_end(body, DIGIT_SUFFIX_PREFIXES) =
          IF SubSeq(buf, 1, n) \in DIGIT_SUFFIX_PREFIXES /\ fig THEN n + 1 ELSE n
    BY <2>3 DEF prefix_end
  <2>6. \A ds : decode_response(buf, ds) =
          IF Malformed(body) THEN Error(k)
          ELSE Response(SubSeq(body, 1, prefix_end(body, ds)),
                        SubSeq(body, prefix_end(body, ds) + 1, Len(body)), k)
    BY <1>2, <2>1 DEF decode_response, Malformed
  <2>7. \A e : Split(body, e) = Response(SubSeq(body, 1, e), SubSeq(body, e + 1, Len(body)), k)
    BY <2>1 DEF Split
  <2>8. Len(body) + 1 = k
    BY <2>1
  <2>9. kenwood_decode_response(buf) = IF Malformed(body) THEN Error(k) ELSE Split(body, n)
    BY <1>2, <2>8 DEF kenwood_decode_response
  <2>10. elecraft_decode_response(buf) = IF Malformed(body) THEN Error(k) ELSE Split(body, n)
    BY <1>2 DEF elecraft_decode_response
  <2>11. yaesu_decode_response(buf) =
           IF Malformed(body) THEN Error(k)
           ELSE Split(body, IF SubSeq(buf, 1, n) \in DIGIT_SUFFIX_PREFIXES /\ fig THEN n + 1 ELSE n)
    BY <1>2 DEF yaesu_decode_response
  <2> HIDE DEF k, body, n, fig
  <2> QED  BY <2>4, <2>5, <2>6, <2>7, <2>9, <2>10, <2>11
<1> QED  BY <1>1, <1>2

-----------------------------------------------------------------------------
(* The decoder of CI-V.                                                    *)

\* The preamble is the first there is.
LEMMA PreambleIs ==
  ASSUME NEW S, NEW buf \in Seq(S), Preambles(buf) # {}
  PROVE  /\ find_preamble(buf) \in Preambles(buf)
         /\ \A j \in Preambles(buf) : find_preamble(buf) <= j
<1>1. Preambles(buf) \in SUBSET Nat
  BY DEF Preambles
<1>2. \E m \in Preambles(buf) : \A j \in Preambles(buf) : m <= j
  BY <1>1, Least
<1> QED  BY <1>2 DEF find_preamble

\* What stands behind a preamble at p.
LEMMA BehindPreamble ==
  ASSUME NEW S, NEW buf \in Seq(S), NEW p \in 1..Len(buf) - 1
  PROVE  /\ SubSeq(buf, p + 2, Len(buf)) \in Seq(S)
         /\ Len(SubSeq(buf, p + 2, Len(buf))) = Len(buf) - p - 1
         /\ \A i \in 1..Len(buf) - p - 1 : SubSeq(buf, p + 2, Len(buf))[i] = buf[p + 1 + i]
<1>1. p + 1 \in 0..Len(buf) /\ p + 1 + 1 = p + 2 /\ Len(buf) \in Nat
  OBVIOUS
<1> QED  BY <1>1, SplitLine

\* The bytes between the preamble at p and the first terminator behind it, at q.
FrameEnds(buf, p, q) ==
  /\ q \in p + 2 .. Len(buf) /\ buf[q] = "FD"
  /\ \A i \in p + 2 .. q - 1 : buf[i] # "FD"
NeverEnds(buf, p) == \A i \in p + 2 .. Len(buf) : buf[i] # "FD"

\* What decode_frame takes from a buffer: all up to the first terminator behind the
\* first preamble, or everything if a collision came before the terminator.
LEMMA CivDecode ==
  ASSUME NEW S, NEW buf \in Seq(S)
  PROVE  LET d == decode_frame(buf)
             p == find_preamble(buf)
         IN  \/ d = Incomplete /\ (Preambles(buf) = {} \/ NeverEnds(buf, p))
             \/ /\ Preambles(buf) # {} /\ FrameEnds(buf, p, d.consumed)
                /\ d.kind \in {"Frame", "Collision"}
             \/ /\ Preambles(buf) # {} /\ NeverEnds(buf, p) /\ d = Collision(Len(buf))
                /\ \E i \in p + 2 .. Len(buf) : buf[i] = "FC"
<1> DEFINE d == decode_frame(buf)
           p == find_preamble(buf)
           open == SubSeq(buf, p + 2, Len(buf))
<1>1. CASE Preambles(buf) = {}
  BY <1>1 DEF decode_frame
<1>2. CASE Preambles(buf) # {}
  <2>1. p \in 1..Len(buf) - 1 /\ Len(buf) \in Nat
    BY <1>2, PreambleIs DEF Preambles
  <2>2. /\ open \in Seq(S) /\ Len(open) = Len(buf) - p - 1
        /\ \A i \in 1..Len(open) : open[i] = buf[p + 1 + i]
    BY <2>1, BehindPreamble
  <2>3. DOMAIN open = 1..Len(open)
    BY <2>2
  <2>4. CASE ~Has(open, "FD")
    <3>1. NeverEnds(buf, p)
      <4> SUFFICES ASSUME NEW i \in p + 2 .. Len(buf)  PROVE  buf[i] # "FD"
        BY DEF NeverEnds
      <4>1. i - p - 1 \in 1..Len(open) /\ p + 1 + (i - p - 1) = i
        BY <2>1, <2>2
      <4> QED  BY <4>1, <2>2, <2>3, <2>4 DEF Has
    <3>2. d = IF Has(open, "FC") THEN Collision(Len(buf)) ELSE Incomplete
      BY <1>2, <2>4 DEF decode_frame
    <3>3. Has(open, "FC") => \E i \in p + 2 .. Len(buf) : buf[i] = "FC"
      <4> SUFFICES ASSUME Has(open, "FC")  PROVE  \E i \in p + 2 .. Len(buf) : buf[i] = "FC"
        OBVIOUS
      <4>1. PICK i \in 1..Len(open) : open[i] = "FC"
        BY <2>3 DEF Has
      <4>2. p + 1 + i \in p + 2 .. Len(buf) /\ buf[p + 1 + i] = "FC"
        BY <2>1, <2>2, <4>1, SMTT(30)
      <4> QED  BY <4>2
    <3> QED  BY <1>2, <3>1, <3>2, <3>3
  <2>5. CASE Has(open, "FD")
    <3> DEFINE f == First(open, "FD")
               body == SubSeq(open, 1, f - 1)
               q == p + 2 + Len(body)
    <3>1. f \in 1..Len(open) /\ open[f] = "FD" /\ \A j \in 1..f - 1 : open[j] # "FD"
      BY <2>2, <2>5, FirstIs
    <3>2. f - 1 \in 0..Len(open)
      BY <3>1, <2>2
    <3>3. Len(body) = f - 1
      BY <2>2, <3>2, SplitLine
    <3>4. q = p + 1 + f
      <4> HIDE DEF p, open, f, body
      <4> QED  BY <2>1, <2>2, <3>1, <3>3
    <3>5. FrameEnds(buf, p, q)
      <4> HIDE DEF p, open, f, q
      <4>1. q \in p + 2 .. Len(buf) /\ buf[q] = "FD"
        BY <2>1, <2>2, <3>1, <3>4
      <4>2. ASSUME NEW i \in p + 2 .. q - 1  PROVE  buf[i] # "FD"
        <5>1. i - p - 1 \in 1..f - 1 /\ i - p - 1 \in 1..Len(open) /\ p + 1 + (i - p - 1) = i
          BY <2>1, <2>2, <3>1, <3>4
        <5> QED  BY <5>1, <2>2, <3>1
      <4> QED  BY <4>1, <4>2 DEF FrameEnds
    <3>6. d = IF Has(body, "FC") \/ Len(body) < 3 THEN Collision(q) ELSE CivFrame(body, q)
      BY <1>2, <2>5 DEF decode_frame
    <3>7. d.consumed = q /\ d.kind \in {"Frame", "Collision"}
      <4> HIDE DEF d, q, body
      <4> QED  BY <3>6 DEF Collision, CivFrame
    <3> QED  BY <1>2, <3>5, <3>7
  <2> QED  BY <2>4, <2>5
<1> QED  BY <1>1, <1>2

-----------------------------------------------------------------------------
(* What is on the line.                                                    *)

\* The bytes j to k of s are a frame as it was sent, its number n.
Lies(n, s, j, k) ==
  \A i \in j..k : s[i].of = n /\ s[i].at = i - j + 1 /\ s[i].size = k - j + 1 /\ s[i].ok
\* They have the form of a frame.
Clean(m, s, j, k) ==
  IF m = "icom"
  THEN /\ j + 5 <= k /\ s[j].byte = "FE" /\ s[j + 1].byte = "FE" /\ s[k].byte = "FD"
       /\ \A i \in j + 2 .. k - 1 : s[i].byte \notin {"FE", "FD", "FC"}
  ELSE s[k].byte = TERMINATOR /\ \A i \in j..k - 1 : s[i].byte # TERMINATOR
\* Frame n is in s and will be decoded as it was sent: nothing unfinished is before it.
SafeAt(m, n, s, j, k) ==
  /\ j \in 1..Len(s) /\ k \in 1..Len(s) /\ j <= k /\ Lies(n, s, j, k) /\ Clean(m, s, j, k)
  /\ j > 1 => s[j - 1].byte = Terminator(m)
Safe(m, n, s) == \E j, k \in 1..Len(s) : SafeAt(m, n, s, j, k)

\* The bytes j to k of s are in t, d places further, and nothing unfinished is before them.
Shifted(m, s, t, j, k, d) ==
  /\ j \in Int /\ k \in Int /\ d \in Int /\ j + d \in 1..Len(t) /\ k + d \in 1..Len(t)
  /\ \A i \in j..k : t[i + d] = s[i]
  /\ j + d > 1 => t[j + d - 1].byte = Terminator(m)

\* The same bytes, elsewhere.
LEMMA SafeMoves ==
  ASSUME NEW m, NEW n, NEW S, NEW s \in Seq(S), NEW t \in Seq(S), NEW j, NEW k, NEW d,
         SafeAt(m, n, s, j, k), Shifted(m, s, t, j, k, d)
  PROVE  Safe(m, n, t)
<1> DEFINE a == j + d
           b == k + d
<1>0. /\ j \in Int /\ k \in Int /\ d \in Int /\ a \in 1..Len(t) /\ b \in 1..Len(t)
      /\ \A i \in j..k : t[i + d] = s[i]
      /\ a > 1 => t[a - 1].byte = Terminator(m)
  BY DEF Shifted
<1>1. /\ a \in 1..Len(t) /\ b \in 1..Len(t) /\ a <= b /\ b - a = k - j
      /\ a \in Int /\ b \in Int /\ a - d = j /\ b - d = k
  <2>1. j <= k
    BY DEF SafeAt
  <2>2. Len(t) \in Nat
    OBVIOUS
  <2> QED  BY <1>0, <2>1, <2>2
<1> HIDE DEF a, b
<1>2. \A i \in a..b : t[i] = s[i - d] /\ i - d \in j..k /\ i - a = i - d - j
  <2> SUFFICES ASSUME NEW i \in a..b  PROVE  t[i] = s[i - d] /\ i - d \in j..k /\ i - a = i - d - j
    OBVIOUS
  <2>1. i \in Int
    BY <1>1
  <2>2. i - d \in j..k /\ i - d + d = i /\ i - a = i - d - j
    BY <1>0, <1>1, <2>1
  <2> QED  BY <1>0, <2>2
<1>3. Lies(n, t, a, b)
  <2> SUFFICES ASSUME NEW i \in a..b
               PROVE  t[i].of = n /\ t[i].at = i - a + 1 /\ t[i].size = b - a + 1 /\ t[i].ok
    BY DEF Lies
  <2>1. t[i] = s[i - d] /\ i - d \in j..k /\ i - a = i - d - j
    BY <1>2
  <2>2. s[i - d].of = n /\ s[i - d].at = i - d - j + 1 /\ s[i - d].size = k - j + 1 /\ s[i - d].ok
    BY <2>1 DEF SafeAt, Lies
  <2> QED  BY <1>1, <2>1, <2>2
<1>4. Clean(m, t, a, b)
  <2>0. a \in a..b /\ b \in a..b /\ a - d = j /\ b - d = k /\ a \in Int /\ b \in Int
    BY <1>1
  <2>1. t[a] = s[j] /\ t[b] = s[k]
    BY <1>2, <2>0
  <2>8. a + 5 <= b <=> j + 5 <= k
    BY <1>0, <1>1, <2>0
  <2>2. j + 5 <= k => t[a + 1] = s[j + 1]
    <3> SUFFICES ASSUME j + 5 <= k  PROVE  t[a + 1] = s[j + 1]
      OBVIOUS
    <3>1. PICK i \in a..b : i = a + 1 /\ i - d = j + 1
      BY <1>0, <1>1, <2>0
    <3>2. t[i] = s[i - d]
      BY <1>2
    <3> QED  BY <3>1, <3>2
  <2>3. \A i \in a + 2 .. b - 1 : t[i] = s[i - d] /\ i - d \in j + 2 .. k - 1
    BY <1>0, <1>1, <1>2
  <2>4. \A i \in a..b - 1 : t[i] = s[i - d] /\ i - d \in j..k - 1
    BY <1>0, <1>1, <1>2
  <2>5. Clean(m, s, j, k)
    BY DEF SafeAt
  <2>6. CASE m = "icom"
    <3> QED  BY <2>1, <2>2, <2>3, <2>5, <2>6, <2>8 DEF Clean
  <2>7. CASE m # "icom"
    <3> QED  BY <2>1, <2>4, <2>5, <2>7 DEF Clean
  <2> QED  BY <2>6, <2>7
<1>5. SafeAt(m, n, t, a, b)
  BY <1>0, <1>1, <1>3, <1>4 DEF SafeAt
<1> QED  BY <1>1, <1>5 DEF Safe

\* Rest of a stream from which q bytes are taken.
LEMMA SafeRest ==
  ASSUME NEW m, NEW n, NEW S, NEW s \in Seq(S), NEW j, NEW k, SafeAt(m, n, s, j, k),
         NEW q \in 0..Len(s), j > q
  PROVE  Safe(m, n, SubSeq(s, q + 1, Len(s)))
<1> DEFINE t == SubSeq(s, q + 1, Len(s))
<1>1. /\ j \in 1..Len(s) /\ k \in 1..Len(s) /\ j <= k /\ Len(s) \in Nat
      /\ j > 1 => s[j - 1].byte = Terminator(m)
  BY DEF SafeAt
<1>2. t \in Seq(S) /\ Len(t) = Len(s) - q /\ \A i \in 1..Len(s) - q : t[i] = s[i + q]
  BY SplitLine
<1> HIDE DEF t
<1>3. j + (-q) \in 1..Len(t) /\ k + (-q) \in 1..Len(t)
  BY <1>1, <1>2
<1>4. ASSUME NEW i \in j..k  PROVE  t[i + (-q)] = s[i]
  <2>1. i + (-q) \in 1..Len(s) - q /\ i + (-q) + q = i
    BY <1>1
  <2> QED  BY <1>2, <2>1
<1>5. ASSUME j + (-q) > 1  PROVE  t[j + (-q) - 1].byte = Terminator(m)
  <2>1. j + (-q) - 1 \in 1..Len(s) - q /\ j + (-q) - 1 + q = j - 1 /\ j > 1
    BY <1>1, <1>5
  <2> QED  BY <1>1, <1>2, <2>1
<1>6. j \in Int /\ k \in Int /\ -q \in Int
  BY <1>1
<1>7. Safe(m, n, t)
  <2>1. Shifted(m, s, t, j, k, -q)
    BY <1>3, <1>4, <1>5, <1>6 DEF Shifted
  <2> QED  BY <1>2, <2>1, SafeMoves
<1> QED  BY <1>7 DEF t

\* More bytes behind it.
LEMMA SafeMore ==
  ASSUME NEW m, NEW n, NEW S, NEW s \in Seq(S), NEW t \in Seq(S), Safe(m, n, s)
  PROVE  Safe(m, n, s \o t)
<1>1. PICK j, k \in 1..Len(s) : SafeAt(m, n, s, j, k)
  BY DEF Safe
<1>2. /\ s \o t \in Seq(S) /\ Len(s \o t) = Len(s) + Len(t) /\ Len(s) \in Nat /\ Len(t) \in Nat
      /\ \A i \in 1..Len(s) : (s \o t)[i] = s[i]
  BY ConcatProperties
<1>3. j + 0 \in 1..Len(s \o t) /\ k + 0 \in 1..Len(s \o t)
  BY <1>2
<1>4. \A i \in j..k : (s \o t)[i + 0] = s[i]
  BY <1>2
<1>5. j + 0 > 1 => (s \o t)[j + 0 - 1].byte = Terminator(m)
  BY <1>1, <1>2 DEF SafeAt
<1>6. j \in Int /\ k \in Int /\ 0 \in Int /\ SafeAt(m, n, s, j, k)
  BY <1>1, <1>2
<1> HIDE DEF Safe
<1>7. Safe(m, n, s \o t)
  <2>1. Shifted(m, s, s \o t, j, k, 0)
    BY <1>3, <1>4, <1>5, <1>6 DEF Shifted
  <2> QED  BY <1>2, <1>6, <2>1, SafeMoves
<1> QED  BY <1>7

-----------------------------------------------------------------------------
(* What the decoders take off a stream.                                    *)

TextCut(s, q) ==
  q \in 1..Len(s) /\ s[q].byte = TERMINATOR /\ \A i \in 1..q - 1 : s[i].byte # TERMINATOR

FirstPreamble(s, p) ==
  /\ p \in 1..Len(s) - 1 /\ s[p].byte = "FE" /\ s[p + 1].byte = "FE"
  /\ \A j \in 1..p - 1 : ~(s[j].byte = "FE" /\ s[j + 1].byte = "FE")

CivCut(s, p, q) ==
  /\ FirstPreamble(s, p) /\ q \in p + 2 .. Len(s) /\ s[q].byte = "FD"
  /\ \A i \in p + 2 .. q - 1 : s[i].byte # "FD"

CivDrop(s, p, q) ==
  /\ FirstPreamble(s, p) /\ q \in p + 2 .. Len(s)
  /\ \A i \in p + 2 .. q : s[i].byte # "FD"
  /\ \E i \in p + 2 .. q : s[i].byte = "FC"

\* A frame that would be decoded still will be, or was decoded.
LEMMA TextCutKeeps ==
  ASSUME NEW m, m # "icom", NEW n, NEW S, NEW s \in Seq(S), NEW j, NEW k, SafeAt(m, n, s, j, k),
         NEW q, TextCut(s, q)
  PROVE  (j = 1 /\ k = q) \/ Safe(m, n, SubSeq(s, q + 1, Len(s)))
<1>1. /\ j \in 1..Len(s) /\ k \in 1..Len(s) /\ j <= k /\ Len(s) \in Nat
      /\ j > 1 => s[j - 1].byte = TERMINATOR
      /\ s[k].byte = TERMINATOR /\ \A i \in j..k - 1 : s[i].byte # TERMINATOR
  BY DEF SafeAt, Clean, Terminator
<1>2. q \in 1..Len(s) /\ s[q].byte = TERMINATOR /\ \A i \in 1..q - 1 : s[i].byte # TERMINATOR
  BY DEF TextCut
<1>3. k >= q
  BY <1>1, <1>2
<1>4. k = q => j = 1
  BY <1>1, <1>2
<1>5. k > q => j > q
  BY <1>1, <1>2
<1>6. q \in 0..Len(s)
  BY <1>2
<1> QED  BY <1>1, <1>2, <1>3, <1>4, <1>5, <1>6, SafeRest

\* A safe frame of CI-V, spelled out.
LEMMA CivSafeAt ==
  ASSUME NEW n, NEW s, Len(s) \in Nat, NEW j, NEW k, SafeAt("icom", n, s, j, k)
  PROVE  /\ j \in 1..Len(s) /\ k \in 1..Len(s) /\ j + 5 <= k
         /\ j > 1 => s[j - 1].byte = "FD"
         /\ s[j].byte = "FE" /\ s[j + 1].byte = "FE" /\ s[k].byte = "FD"
         /\ \A i \in j + 2 .. k - 1 : s[i].byte \notin {"FE", "FD", "FC"}
BY DEF SafeAt, Clean, Terminator

\* The first preamble is not behind that of a frame.
LEMMA PreambleBefore ==
  ASSUME NEW n, NEW S, NEW s \in Seq(S), NEW j, NEW k, SafeAt("icom", n, s, j, k),
         NEW p, FirstPreamble(s, p)
  PROVE  /\ p \in Nat /\ p <= j
         /\ j > p => j - 1 >= p + 2 /\ s[j - 1].byte = "FD"
<1>1. /\ j \in 1..Len(s) /\ Len(s) \in Nat /\ s[j].byte = "FE" /\ s[j + 1].byte = "FE"
      /\ j > 1 => s[j - 1].byte = "FD"
  BY CivSafeAt
<1>2. /\ p \in 1..Len(s) - 1 /\ s[p].byte = "FE" /\ s[p + 1].byte = "FE"
      /\ \A i \in 1..p - 1 : ~(s[i].byte = "FE" /\ s[i + 1].byte = "FE")
  BY DEF FirstPreamble
<1>3. p <= j
  BY <1>1, <1>2
<1>4. ASSUME j > p  PROVE  j - 1 >= p + 2 /\ s[j - 1].byte = "FD"
  <2>1. s[j - 1].byte = "FD" /\ j - 1 # p /\ j - 1 # p + 1
    BY <1>1, <1>2, <1>4
  <2> QED  BY <1>1, <1>2, <1>4, <2>1
<1> QED  BY <1>2, <1>3, <1>4

\* A cut behind a terminator takes the safe frame it ends, or leaves it whole.
LEMMA CivCutKeeps ==
  ASSUME NEW n, NEW S, NEW s \in Seq(S), NEW j, NEW k, SafeAt("icom", n, s, j, k),
         NEW p, NEW q, CivCut(s, p, q)
  PROVE  (j = p /\ k = q) \/ Safe("icom", n, SubSeq(s, q + 1, Len(s)))
<1>0. FirstPreamble(s, p)
  BY DEF CivCut
<1>1. /\ j \in 1..Len(s) /\ k \in 1..Len(s) /\ j + 5 <= k /\ Len(s) \in Nat
      /\ s[j].byte = "FE" /\ s[j + 1].byte = "FE" /\ s[k].byte = "FD"
      /\ \A i \in j + 2 .. k - 1 : s[i].byte # "FD"
  <2>1. Len(s) \in Nat
    OBVIOUS
  <2>2. \A i \in j + 2 .. k - 1 : s[i].byte \notin {"FE", "FD", "FC"}
    BY <2>1, CivSafeAt
  <2>3. \A i \in j + 2 .. k - 1 : s[i].byte # "FD"
    BY <2>2
  <2>4. /\ j \in 1..Len(s) /\ k \in 1..Len(s) /\ j + 5 <= k
        /\ s[j].byte = "FE" /\ s[j + 1].byte = "FE" /\ s[k].byte = "FD"
    BY <2>1, CivSafeAt
  <2> QED  BY <2>1, <2>3, <2>4
<1>2. /\ p \in Nat /\ p <= j
      /\ j > p => j - 1 >= p + 2 /\ s[j - 1].byte = "FD"
  BY <1>0, PreambleBefore
<1>3. q \in p + 2 .. Len(s) /\ s[q].byte = "FD" /\ \A i \in p + 2 .. q - 1 : s[i].byte # "FD"
  BY DEF CivCut
<1>4. k >= q
  BY <1>1, <1>2, <1>3
<1>5. k = q => j = p
  BY <1>1, <1>2, <1>3
<1>6. k > q => j > q
  <2>1. q # j /\ q # j + 1
    BY <1>1, <1>3
  <2> QED  BY <1>1, <1>2, <1>3, <2>1
<1>7. q \in 0..Len(s)
  BY <1>2, <1>3
<1> QED  BY <1>1, <1>2, <1>3, <1>4, <1>5, <1>6, <1>7, SafeRest

\* What is dropped for a collision has no terminator in it, so no safe frame.
LEMMA CivDropKeeps ==
  ASSUME NEW n, NEW S, NEW s \in Seq(S), NEW j, NEW k, SafeAt("icom", n, s, j, k),
         NEW p, NEW q, CivDrop(s, p, q)
  PROVE  Safe("icom", n, SubSeq(s, q + 1, Len(s)))
<1>0. FirstPreamble(s, p)
  BY DEF CivDrop
<1>1. /\ j \in 1..Len(s) /\ k \in 1..Len(s) /\ j + 5 <= k /\ Len(s) \in Nat
      /\ s[k].byte = "FD" /\ \A i \in j + 2 .. k - 1 : s[i].byte \notin {"FD", "FC"}
  <2>1. Len(s) \in Nat
    OBVIOUS
  <2> QED  BY <2>1, CivSafeAt
<1>2. /\ p \in Nat /\ p <= j
      /\ j > p => j - 1 >= p + 2 /\ s[j - 1].byte = "FD"
  BY <1>0, PreambleBefore
<1>3. /\ q \in p + 2 .. Len(s) /\ \A i \in p + 2 .. q : s[i].byte # "FD"
      /\ \E i \in p + 2 .. q : s[i].byte = "FC"
  BY DEF CivDrop
<1>4. k > q
  BY <1>1, <1>2, <1>3
<1>5. j # p
  <2> SUFFICES ASSUME j = p  PROVE  FALSE
    OBVIOUS
  <2>1. PICK i \in p + 2 .. q : s[i].byte = "FC"
    BY <1>3
  <2>2. i \in j + 2 .. k - 1
    BY <1>1, <1>2, <1>3, <1>4
  <2> QED  BY <1>1, <2>1, <2>2
<1>6. j > q
  BY <1>1, <1>2, <1>3, <1>5
<1>7. q \in 0..Len(s)
  BY <1>2, <1>3
<1> QED  BY <1>6, <1>7, SafeRest

Cut(m, s, q) ==
  IF m = "icom" THEN \E p \in 1..Len(s) : CivCut(s, p, q) \/ CivDrop(s, p, q) ELSE TextCut(s, q)
\* Where the decoder begins, and what it takes for a frame.
Starts(m, s, j) == IF m = "icom" THEN FirstPreamble(s, j) ELSE j = 1
Framed(m, s, q) == IF m = "icom" THEN \E p \in 1..Len(s) : CivCut(s, p, q) ELSE TextCut(s, q)

\* Whatever the decoder takes, every safe frame is taken as it was sent or stays.
LEMMA CutKeeps ==
  ASSUME NEW m, NEW n, NEW S, NEW s \in Seq(S), NEW j, NEW k, SafeAt(m, n, s, j, k),
         NEW q, Cut(m, s, q)
  PROVE  (Starts(m, s, j) /\ k = q) \/ Safe(m, n, SubSeq(s, q + 1, Len(s)))
<1>1. CASE m # "icom"
  <2>1. TextCut(s, q)
    BY <1>1 DEF Cut
  <2>2. (j = 1 /\ k = q) \/ Safe(m, n, SubSeq(s, q + 1, Len(s)))
    BY <1>1, <2>1, TextCutKeeps
  <2> QED  BY <1>1, <2>2 DEF Starts
<1>2. CASE m = "icom"
  <2>1. PICK p \in 1..Len(s) : CivCut(s, p, q) \/ CivDrop(s, p, q)
    BY <1>2 DEF Cut
  <2>2. SafeAt("icom", n, s, j, k) /\ FirstPreamble(s, p)
    BY <1>2, <2>1 DEF CivCut, CivDrop
  <2>3. CASE CivCut(s, p, q)
    <3>1. (j = p /\ k = q) \/ Safe("icom", n, SubSeq(s, q + 1, Len(s)))
      BY <2>2, <2>3, CivCutKeeps
    <3> QED  BY <1>2, <2>2, <3>1 DEF Starts
  <2>4. CASE CivDrop(s, p, q)
    <3>1. Safe("icom", n, SubSeq(s, q + 1, Len(s)))
      BY <2>2, <2>4, CivDropKeeps
    <3> QED  BY <1>2, <3>1
  <2> QED  BY <2>1, <2>3, <2>4
<1> QED  BY <1>1, <1>2

\* Bytes that come later do not change what the decoder takes.
LEMMA CutMore ==
  ASSUME NEW m, NEW S, NEW s \in Seq(S), NEW t \in Seq(S), NEW q, Cut(m, s, q)
  PROVE  Cut(m, s \o t, q) /\ q \in 1..Len(s)
<1>1. /\ Len(s \o t) = Len(s) + Len(t) /\ Len(s) \in Nat /\ Len(t) \in Nat
      /\ \A i \in 1..Len(s) : (s \o t)[i] = s[i]
  BY ConcatProperties
<1> DEFINE u == s \o t
<1>2. CASE m # "icom"
  <2>1. q \in 1..Len(s) /\ s[q].byte = TERMINATOR /\ \A i \in 1..q - 1 : s[i].byte # TERMINATOR
    BY <1>2 DEF Cut, TextCut
  <2> HIDE DEF u
  <2>2. q \in 1..Len(u) /\ u[q].byte = TERMINATOR /\ \A i \in 1..q - 1 : u[i].byte # TERMINATOR
    BY <1>1, <2>1 DEF u
  <2>3. Cut(m, u, q)
    BY <1>2, <2>2 DEF Cut, TextCut
  <2> QED  BY <2>1, <2>3 DEF u
<1>3. CASE m = "icom"
  <2>1. PICK p \in 1..Len(s) : CivCut(s, p, q) \/ CivDrop(s, p, q)
    BY <1>3 DEF Cut
  <2>2. /\ p \in 1..Len(s) - 1 /\ s[p].byte = "FE" /\ s[p + 1].byte = "FE"
        /\ \A j \in 1..p - 1 : ~(s[j].byte = "FE" /\ s[j + 1].byte = "FE")
        /\ q \in p + 2 .. Len(s)
    BY <2>1 DEF CivCut, CivDrop, FirstPreamble
  <2>3. FirstPreamble(u, p)
    <3>1. p \in 1..Len(u) - 1 /\ u[p] = s[p] /\ u[p + 1] = s[p + 1]
      BY <1>1, <2>2
    <3>2. \A j \in 1..p - 1 : u[j] = s[j] /\ u[j + 1] = s[j + 1]
      BY <1>1, <2>2
    <3> HIDE DEF u
    <3> QED  BY <2>2, <3>1, <3>2 DEF FirstPreamble
  <2>4. q \in p + 2 .. Len(u) /\ \A i \in p + 2 .. q : u[i] = s[i]
    BY <1>1, <2>2
  <2>5. p \in 1..Len(u) /\ q \in 1..Len(s) /\ u[q] = s[q] /\ \A i \in p + 2 .. q - 1 : u[i] = s[i]
    BY <1>1, <2>2, <2>4
  <2> HIDE DEF u
  <2>6. CASE CivCut(s, p, q)
    <3>1. CivCut(u, p, q)
      BY <2>3, <2>4, <2>5, <2>6 DEF CivCut
    <3>2. Cut(m, u, q)
      BY <1>3, <2>5, <3>1 DEF Cut
    <3> QED  BY <2>5, <3>2 DEF u
  <2>7. CASE CivDrop(s, p, q)
    <3>1. CivDrop(u, p, q)
      BY <2>3, <2>4, <2>5, <2>7 DEF CivDrop
    <3>2. Cut(m, u, q)
      BY <1>3, <2>5, <3>1 DEF Cut
    <3> QED  BY <2>5, <3>2 DEF u
  <2> QED  BY <2>1, <2>6, <2>7
<1> QED  BY <1>2, <1>3

-----------------------------------------------------------------------------
(* Bytes with their history.                                               *)

\* A literal is a STRING, but the provers have no rule that says so.
Byte == STRING \cup {"FC"}
Tag == [byte : Byte, of : Nat, at : Nat, size : Nat, ok : BOOLEAN]

\* The bytes of a frame that was sent, and their history.
LEMMA TaggedIs ==
  ASSUME NEW frame \in Seq(Byte), NEW nr \in Nat
  PROVE  /\ Tagged(frame, nr) \in Seq(Tag) /\ Len(Tagged(frame, nr)) = Len(frame) /\ Len(frame) \in Nat
         /\ \A i \in 1..Len(frame) : /\ Tagged(frame, nr)[i].byte = frame[i]
                                     /\ Tagged(frame, nr)[i].of = nr
                                     /\ Tagged(frame, nr)[i].at = i
                                     /\ Tagged(frame, nr)[i].size = Len(frame)
                                     /\ Tagged(frame, nr)[i].ok
<1>1. Len(frame) \in Nat /\ DOMAIN frame = 1..Len(frame) /\ \A i \in 1..Len(frame) : frame[i] \in Byte
  OBVIOUS
<1>2. \A i \in 1..Len(frame) :
        [byte |-> frame[i], of |-> nr, at |-> i, size |-> Len(frame), ok |-> TRUE] \in Tag
  BY <1>1 DEF Tag
<1>3. Tagged(frame, nr) =
        [i \in 1..Len(frame) |-> [byte |-> frame[i], of |-> nr, at |-> i, size |-> Len(frame), ok |-> TRUE]]
  BY <1>1 DEF Tagged
<1>4. Tagged(frame, nr) \in Seq(Tag) /\ Len(Tagged(frame, nr)) = Len(frame)
  BY <1>1, <1>2, <1>3
<1> QED  BY <1>1, <1>3, <1>4

\* The bytes without their history.
LEMMA BytesIs ==
  ASSUME NEW buf \in Seq(Tag)
  PROVE  /\ Bytes(buf) \in Seq(Byte) /\ Len(Bytes(buf)) = Len(buf) /\ Len(buf) \in Nat
         /\ DOMAIN Bytes(buf) = 1..Len(buf)
         /\ \A i \in 1..Len(buf) : Bytes(buf)[i] = buf[i].byte
<1>1. \A b \in Tag : b.byte \in Byte
  BY DEF Tag
<1>2. Len(buf) \in Nat /\ DOMAIN buf = 1..Len(buf) /\ \A i \in 1..Len(buf) : buf[i] \in Tag
  OBVIOUS
<1>3. Bytes(buf) = [i \in 1..Len(buf) |-> buf[i].byte]
  BY <1>2 DEF Bytes
<1> QED  BY <1>1, <1>2, <1>3

\* What decode takes from a buffer.
LEMMA TextDecoding ==
  ASSUME NEW buf \in Seq(Tag), NEW ds, NEW d, d = decode_response(Bytes(buf), ds)
  PROVE  IF \E i \in 1..Len(buf) : buf[i].byte = TERMINATOR
         THEN /\ d.consumed \in 1..Len(buf) /\ TextCut(buf, d.consumed)
              /\ d.kind \in {"Error", "Response"}
         ELSE d = Incomplete
<1>1. /\ Bytes(buf) \in Seq(Byte) /\ Len(Bytes(buf)) = Len(buf) /\ Len(buf) \in Nat
      /\ DOMAIN Bytes(buf) = 1..Len(buf)
      /\ \A i \in 1..Len(buf) : Bytes(buf)[i] = buf[i].byte
  BY BytesIs
<1> DEFINE b == Bytes(buf)
<1>2. Has(b, TERMINATOR) <=> \E i \in 1..Len(buf) : buf[i].byte = TERMINATOR
  BY <1>1 DEF Has
<1> HIDE DEF b
<1>3. CASE ~Has(b, TERMINATOR)
  <2>1. d = Incomplete
    BY <1>1, <1>3, TextDecode DEF b
  <2> QED  BY <1>2, <1>3, <2>1
<1>4. CASE Has(b, TERMINATOR)
  <2>1. d.consumed = First(b, TERMINATOR) /\ d.kind \in {"Error", "Response"}
    BY <1>1, <1>4, TextDecode DEF b
  <2> DEFINE f == First(b, TERMINATOR)
  <2>2. f \in 1..Len(b) /\ b[f] = TERMINATOR /\ \A j \in 1..f - 1 : b[j] # TERMINATOR
    BY <1>1, <1>4, FirstIs DEF b
  <2>3. d.consumed = f
    BY <2>1
  <2> HIDE DEF f
  <2>4. Len(b) = Len(buf) /\ Len(buf) \in Nat /\ \A i \in 1..Len(buf) : b[i] = buf[i].byte
    BY <1>1 DEF b
  <2>5. f \in 1..Len(buf) /\ TextCut(buf, f)
    BY <2>2, <2>4 DEF TextCut
  <2> QED  BY <1>2, <1>4, <2>1, <2>3, <2>5
<1> QED  BY <1>3, <1>4

\* find_preamble finds the first preamble, if there is one.
LEMMA PreambleOf ==
  ASSUME NEW buf \in Seq(Tag)
  PROVE  /\ Preambles(Bytes(buf)) # {} => FirstPreamble(buf, find_preamble(Bytes(buf)))
         /\ \A p : FirstPreamble(buf, p) => p = find_preamble(Bytes(buf))
         /\ \A j \in 1..Len(buf) - 1 :
              buf[j].byte = "FE" /\ buf[j + 1].byte = "FE" => Preambles(Bytes(buf)) # {}
<1> DEFINE b == Bytes(buf)
           P == {i \in 1..Len(buf) - 1 : buf[i].byte = "FE" /\ buf[i + 1].byte = "FE"}
<1>1. /\ b \in Seq(Byte) /\ Len(b) = Len(buf) /\ Len(buf) \in Nat
      /\ \A i \in 1..Len(buf) : b[i] = buf[i].byte
  BY BytesIs
<1>2. Preambles(b) = P
  <2> HIDE DEF b
  <2>1. \A i \in 1..Len(buf) - 1 : b[i] = buf[i].byte /\ b[i + 1] = buf[i + 1].byte
    BY <1>1
  <2> QED  BY <1>1, <2>1 DEF Preambles
<1>3. P # {} => find_preamble(b) \in P /\ \A j \in P : find_preamble(b) <= j
  BY <1>1, <1>2, PreambleIs
<1> DEFINE f == find_preamble(b)
<1>4. ASSUME P # {}  PROVE  FirstPreamble(buf, f)
  <2>1. \A j \in 1..f - 1 : j \notin P
    <3> HIDE DEF P, b, f
    <3>1. f \in P /\ \A j \in P : f <= j
      BY <1>3, <1>4 DEF f
    <3>2. f \in Nat /\ P \subseteq Nat
      BY <3>1 DEF P
    <3> QED  BY <3>1, <3>2
  <2>2. f \in P
    BY <1>3, <1>4
  <2> HIDE DEF b, f
  <2> QED  BY <1>1, <2>1, <2>2 DEF FirstPreamble
<1>5. ASSUME NEW p, FirstPreamble(buf, p)  PROVE  p = f
  <2>1. p \in P /\ \A j \in 1..p - 1 : j \notin P
    BY <1>5 DEF FirstPreamble
  <2>2. f \in P /\ f <= p
    BY <1>3, <2>1
  <2> HIDE DEF P, b, f
  <2>3. p \in Nat /\ f \in Nat /\ f >= 1
    BY <2>1, <2>2, <1>1 DEF P
  <2> QED  BY <2>1, <2>2, <2>3
<1> HIDE DEF f
<1> QED  BY <1>2, <1>4, <1>5 DEF f

\* decode_frame waits, takes a frame up to its terminator, or drops a collision.
LEMMA CivDecoding ==
  ASSUME NEW buf \in Seq(Tag), NEW d, d = decode_frame(Bytes(buf))
  PROVE  \/ d = Incomplete /\ \A p : FirstPreamble(buf, p) => \A i \in p + 2 .. Len(buf) : buf[i].byte # "FD"
         \/ \E p \in 1..Len(buf) : CivCut(buf, p, d.consumed) /\ d.kind \in {"Frame", "Collision"}
         \/ \E p \in 1..Len(buf) : CivDrop(buf, p, d.consumed) /\ d.kind = "Collision"
<1> DEFINE b == Bytes(buf)
           p == find_preamble(b)
<1>1. /\ b \in Seq(Byte) /\ Len(b) = Len(buf) /\ Len(buf) \in Nat
      /\ \A i \in 1..Len(buf) : b[i] = buf[i].byte
  BY BytesIs
<1>2. \/ d = Incomplete /\ (Preambles(b) = {} \/ NeverEnds(b, p))
      \/ /\ Preambles(b) # {} /\ FrameEnds(b, p, d.consumed)
         /\ d.kind \in {"Frame", "Collision"}
      \/ /\ Preambles(b) # {} /\ NeverEnds(b, p) /\ d = Collision(Len(b))
         /\ \E i \in p + 2 .. Len(b) : b[i] = "FC"
  BY <1>1, CivDecode
<1>3. /\ Preambles(b) # {} => FirstPreamble(buf, p)
      /\ \A r : FirstPreamble(buf, r) => r = p
      /\ \A j \in 1..Len(buf) - 1 :
           buf[j].byte = "FE" /\ buf[j + 1].byte = "FE" => Preambles(b) # {}
  BY PreambleOf
<1> HIDE DEF b, p
<1>4. FirstPreamble(buf, p) => p \in 1..Len(buf) - 1
  BY DEF FirstPreamble
<1>5. CASE d = Incomplete /\ (Preambles(b) = {} \/ NeverEnds(b, p))
  <2> SUFFICES ASSUME NEW r, FirstPreamble(buf, r), NEW i \in r + 2 .. Len(buf)
               PROVE  buf[i].byte # "FD"
    BY <1>5
  <2>1. r \in 1..Len(buf) - 1 /\ buf[r].byte = "FE" /\ buf[r + 1].byte = "FE" /\ r = p
    BY <1>3 DEF FirstPreamble
  <2>2. NeverEnds(b, p)
    BY <1>3, <1>5, <2>1
  <2>3. i \in p + 2 .. Len(b) /\ i \in 1..Len(buf)
    BY <1>1, <2>1
  <2> QED  BY <1>1, <2>2, <2>3 DEF NeverEnds
<1>6. CASE /\ Preambles(b) # {} /\ FrameEnds(b, p, d.consumed)
           /\ d.kind \in {"Frame", "Collision"}
  <2>1. FirstPreamble(buf, p) /\ p \in 1..Len(buf) - 1
    BY <1>3, <1>4, <1>6
  <2>2. /\ d.consumed \in p + 2 .. Len(buf) /\ b[d.consumed] = "FD"
        /\ \A i \in p + 2 .. d.consumed - 1 : b[i] # "FD"
    BY <1>1, <1>6 DEF FrameEnds
  <2>3. /\ d.consumed \in 1..Len(buf)
        /\ \A i \in p + 2 .. d.consumed - 1 : i \in 1..Len(buf)
    BY <1>1, <2>1, <2>2
  <2>4. CivCut(buf, p, d.consumed)
    BY <1>1, <2>1, <2>2, <2>3 DEF CivCut
  <2> QED  BY <1>6, <2>1, <2>4
<1>7. CASE /\ Preambles(b) # {} /\ NeverEnds(b, p) /\ d = Collision(Len(b))
           /\ \E i \in p + 2 .. Len(b) : b[i] = "FC"
  <2>1. FirstPreamble(buf, p) /\ p \in 1..Len(buf) - 1
    BY <1>3, <1>4, <1>7
  <2>2. d.kind = "Collision" /\ d.consumed = Len(buf)
    BY <1>1, <1>7 DEF Collision
  <2>3. PICK i \in p + 2 .. Len(buf) : b[i] = "FC"
    BY <1>1, <1>7
  <2>4. Len(buf) \in p + 2 .. Len(buf) /\ \A l \in p + 2 .. Len(buf) : l \in 1..Len(buf)
    BY <1>1, <2>1, <2>3
  <2>5. \A l \in p + 2 .. Len(buf) : b[l] # "FD"
    BY <1>1, <1>7 DEF NeverEnds
  <2>6. CivDrop(buf, p, Len(buf))
    BY <1>1, <2>1, <2>3, <2>4, <2>5 DEF CivDrop
  <2> QED  BY <2>1, <2>2, <2>6
<1> QED  BY <1>2, <1>5, <1>6, <1>7

Associates(a, b, c) == (a \o b) \o c = a \o (b \o c)

\* Joining is associative.
LEMMA ThreeJoin ==
  ASSUME NEW S, NEW a \in Seq(S), NEW b \in Seq(S), NEW c \in Seq(S)
  PROVE  Associates(a, b, c)
BY ConcatAssociative DEF Associates

\* q is cut into c and d, and c goes over to s.
Parted(S, s, q, c, d) ==
  c \in Seq(S) /\ d \in Seq(S) /\ s \o c \in Seq(S) /\ c \o d = q /\ (s \o c) \o d = s \o q

\* A piece received from q goes from the one side to the other.
LEMMA ReceiveJoins ==
  ASSUME NEW S, NEW s \in Seq(S), NEW q \in Seq(S), NEW n \in 0..Len(q)
  PROVE  Parted(S, s, q, SubSeq(q, 1, n), SubSeq(q, n + 1, Len(q)))
<1> DEFINE c == SubSeq(q, 1, n)
           d == SubSeq(q, n + 1, Len(q))
<1>1. /\ c \in Seq(S) /\ Len(c) = n /\ \A i \in 1..n : c[i] = q[i]
      /\ d \in Seq(S) /\ Len(d) = Len(q) - n
      /\ \A i \in 1..Len(d) : d[i] = q[n + i]
      /\ Len(q) \in Nat
  <2>1. c \in Seq(S) /\ Len(c) = n /\ \A i \in 1..n : c[i] = q[i]
    BY SplitLine
  <2>2. d \in Seq(S) /\ Len(d) = Len(q) - n /\ \A i \in 1..Len(d) : d[i] = q[n + i]
    BY SplitLine
  <2>3. Len(q) \in Nat
    OBVIOUS
  <2> QED  BY <2>1, <2>2, <2>3
<1> HIDE DEF c, d
<1>2. c \o d = q
  <2>1. c \o d \in Seq(S) /\ Len(c \o d) = Len(q)
    <3>1. c \o d \in Seq(S) /\ Len(c \o d) = Len(c) + Len(d)
      BY <1>1, ConcatProperties
    <3>2. n \in Int
      OBVIOUS
    <3>3. n + (Len(q) - n) = Len(q)
      BY <1>1, <3>2
    <3> QED  BY <1>1, <3>1, <3>3
  <2>2. ASSUME NEW i \in 1..Len(q)  PROVE  (c \o d)[i] = q[i]
    <3>1. (c \o d)[i] = IF i <= n THEN c[i] ELSE d[i - n]
      BY <1>1
    <3>2. i > n => i - n \in 1..Len(d) /\ n + (i - n) = i
      BY <1>1
    <3> QED  BY <1>1, <3>1, <3>2
  <2> QED  BY <2>1, <2>2, SeqEqual
<1>3. (s \o c) \o d = s \o (c \o d)
  BY <1>1, ConcatAssociative
<1>4. s \o c \in Seq(S)
  BY <1>1, ConcatProperties
<1>5. Parted(S, s, q, c, d)
  BY <1>1, <1>2, <1>3, <1>4 DEF Parted
<1> QED  BY <1>5 DEF c, d

\* Taking q from the first of two joined sequences.
LEMMA TakeJoined ==
  ASSUME NEW S, NEW s \in Seq(S), NEW t \in Seq(S), NEW q \in 0..Len(s)
  PROVE  /\ SubSeq(s \o t, 1, q) = SubSeq(s, 1, q)
         /\ SubSeq(s \o t, q + 1, Len(s \o t)) = SubSeq(s, q + 1, Len(s)) \o t
         /\ s \o t \in Seq(S) /\ q \in 0..Len(s \o t)
<1> DEFINE u == s \o t
           c == SubSeq(s, 1, q)
           d == SubSeq(s, q + 1, Len(s))
           e == SubSeq(u, 1, q)
           f == SubSeq(u, q + 1, Len(u))
<1>1. /\ u \in Seq(S) /\ Len(u) = Len(s) + Len(t) /\ Len(s) \in Nat /\ Len(t) \in Nat
      /\ \A i \in 1..Len(s) + Len(t) : u[i] = IF i <= Len(s) THEN s[i] ELSE t[i - Len(s)]
  BY ConcatProperties
<1> HIDE DEF u
<1>2. q \in 0..Len(u)
  BY <1>1
<1>3. /\ c \in Seq(S) /\ Len(c) = q /\ \A i \in 1..q : c[i] = s[i]
      /\ d \in Seq(S) /\ Len(d) = Len(s) - q /\ \A i \in 1..Len(s) - q : d[i] = s[q + i]
  BY SplitLine
<1>4. /\ e \in Seq(S) /\ Len(e) = q /\ \A i \in 1..q : e[i] = u[i]
      /\ f \in Seq(S) /\ Len(f) = Len(u) - q /\ \A i \in 1..Len(u) - q : f[i] = u[q + i]
  BY <1>1, <1>2, SplitLine
<1> HIDE DEF c, d, e, f
<1>5. e = c
  <2>1. \A i \in 1..Len(e) : e[i] = c[i]
    BY <1>1, <1>3, <1>4
  <2> QED  BY <1>3, <1>4, <2>1, SeqEqual
<1>6. f = d \o t
  <2>1. /\ d \o t \in Seq(S) /\ Len(d \o t) = Len(d) + Len(t)
        /\ \A i \in 1..Len(d) + Len(t) : (d \o t)[i] = IF i <= Len(d) THEN d[i] ELSE t[i - Len(d)]
    BY <1>3, ConcatProperties
  <2>2. ASSUME NEW i \in 1..Len(f)  PROVE  f[i] = (d \o t)[i]
    <3>1. i \in 1..Len(u) - q /\ q + i \in 1..Len(s) + Len(t) /\ i \in 1..Len(d) + Len(t)
      BY <1>1, <1>3, <1>4
    <3>2. f[i] = IF q + i <= Len(s) THEN s[q + i] ELSE t[q + i - Len(s)]
      BY <1>1, <1>4, <3>1
    <3>3. CASE i <= Len(d)
      <4>1. i \in 1..Len(s) - q /\ q + i <= Len(s)
        BY <1>1, <1>3, <3>1, <3>3
      <4> QED  BY <1>3, <2>1, <3>1, <3>2, <3>3, <4>1
    <3>4. CASE i > Len(d)
      <4>1. q + i > Len(s) /\ q + i - Len(s) = i - Len(d)
        BY <1>1, <1>3, <3>1, <3>4
      <4> QED  BY <1>1, <1>3, <2>1, <3>1, <3>2, <3>4, <4>1
    <3>5. i <= Len(d) \/ i > Len(d)
      BY <1>1, <1>3
    <3> QED  BY <3>3, <3>4, <3>5
  <2>3. Len(f) = Len(d \o t)
    BY <1>1, <1>3, <1>4, <2>1
  <2> HIDE DEF u
  <2> QED  BY <1>4, <2>1, <2>2, <2>3, SeqEqual
<1> QED  BY <1>1, <1>2, <1>5, <1>6 DEF u, c, d, e, f

-----------------------------------------------------------------------------
(* The decoder of the make.                                                *)

\* What either decoder takes of a buffer.
LEMMA Decoding ==
  ASSUME NEW buf \in Seq(Tag), NEW d \in Decodes(buf)
  PROVE  /\ d.consumed \in 1..Len(buf) /\ Cut(make, buf, d.consumed)
         /\ d.kind \in {"Response", "Frame"} => Framed(make, buf, d.consumed)
<1>1. d = decode(Bytes(buf)) /\ d # Incomplete
  BY DEF Decodes
<1>2. CASE make # "icom"
  <2>1. d = decode_response(Bytes(buf), digit_suffix_prefixes)
    BY <1>1, <1>2 DEF decode, Civ
  <2>2. d.consumed \in 1..Len(buf) /\ TextCut(buf, d.consumed)
    BY <1>1, <2>1, TextDecoding
  <2> QED  BY <1>2, <2>2 DEF Cut, Framed
<1>3. CASE make = "icom"
  <2>1. d = decode_frame(Bytes(buf))
    BY <1>1, <1>3 DEF decode, Civ
  <2>2. PICK p \in 1..Len(buf) : \/ CivCut(buf, p, d.consumed)
                                 \/ CivDrop(buf, p, d.consumed) /\ d.kind = "Collision"
    BY <1>1, <2>1, CivDecoding
  <2>3. d.consumed \in p + 2 .. Len(buf) /\ Len(buf) \in Nat
    BY <2>2 DEF CivCut, CivDrop
  <2>4. d.consumed \in 1..Len(buf)
    BY <2>3
  <2>5. Cut(make, buf, d.consumed)
    BY <1>3, <2>2 DEF Cut
  <2>6. d.kind \in {"Response", "Frame"} => Framed(make, buf, d.consumed)
    BY <1>3, <2>2 DEF Framed
  <2> QED  BY <2>4, <2>5, <2>6
<1> QED  BY <1>2, <1>3

\* What is taken for a frame ends with a terminator.
LEMMA FramedEnds ==
  ASSUME NEW m, NEW s, NEW q, Framed(m, s, q)
  PROVE  s[q].byte = Terminator(m)
BY DEF Framed, CivCut, TextCut, Terminator

\* A buffer in which a frame lies is ready to be decoded.
LEMMA SafeReady ==
  ASSUME NEW buf \in Seq(Tag), NEW n, NEW j, NEW k, SafeAt(make, n, buf, j, k)
  PROVE  Ready(buf)
<1> SUFFICES ASSUME decode(Bytes(buf)) = Incomplete  PROVE  FALSE
  BY DEF Ready, Decodes
<1>1. CASE make # "icom"
  <2>1. decode(Bytes(buf)) = decode_response(Bytes(buf), digit_suffix_prefixes)
    BY <1>1 DEF decode, Civ
  <2>2. k \in 1..Len(buf) /\ buf[k].byte = TERMINATOR
    BY <1>1 DEF SafeAt, Clean
  <2>3. decode_response(Bytes(buf), digit_suffix_prefixes).kind \in {"Error", "Response"}
    BY <2>2, TextDecoding
  <2> QED  BY <2>1, <2>3 DEF Incomplete
<1>2. CASE make = "icom"
  <2>1. decode(Bytes(buf)) = decode_frame(Bytes(buf))
    BY <1>2 DEF decode, Civ
  <2>2. SafeAt("icom", n, buf, j, k) /\ Len(buf) \in Nat
    BY <1>2
  <2>3. /\ j \in 1..Len(buf) /\ k \in 1..Len(buf) /\ j + 5 <= k
        /\ buf[j].byte = "FE" /\ buf[j + 1].byte = "FE" /\ buf[k].byte = "FD"
    BY <2>2, CivSafeAt
  <2>4. j \in 1..Len(buf) - 1
    BY <2>2, <2>3
  <2>5. FirstPreamble(buf, find_preamble(Bytes(buf)))
    BY <2>3, <2>4, PreambleOf
  <2> DEFINE p == find_preamble(Bytes(buf))
  <2>6. p \in Nat /\ p <= j
    BY <2>2, <2>5, PreambleBefore
  <2>7. k \in p + 2 .. Len(buf)
    BY <2>2, <2>3, <2>6
  <2>8. ~(\A r : FirstPreamble(buf, r) => \A i \in r + 2 .. Len(buf) : buf[i].byte # "FD")
    BY <2>3, <2>5, <2>7
  <2>9. decode_frame(Bytes(buf)).kind # "Incomplete"
    BY <2>8, CivDecoding
  <2> QED  BY <2>1, <2>9 DEF Incomplete
<1> QED  BY <1>1, <1>2

\* What the decoder takes is the frame, if that begins where the decoder does.
LEMMA WholeIs ==
  ASSUME NEW s \in Seq(Tag), NEW n, NEW j, NEW k, j \in 1..Len(s), k \in 1..Len(s), j < k \/ make # "icom", j <= k,
         Lies(n, s, j, k), Starts(make, s, j)
  PROVE  Whole(SubSeq(s, 1, k)) /\ Number(SubSeq(s, 1, k)) = n
<1> DEFINE c == SubSeq(s, 1, k)
<1>1. k \in 0..Len(s) /\ Len(s) \in Nat
  OBVIOUS
<1>2. c \in Seq(Tag) /\ Len(c) = k /\ \A i \in 1..k : c[i] = s[i]
  BY <1>1, SplitLine
<1> HIDE DEF c
<1>3. c # <<>> /\ c[Len(c)] = s[k]
  BY <1>2
<1>4. s[k].of = n /\ s[k].at = k - j + 1 /\ s[k].size = k - j + 1
  BY DEF Lies
<1>5. Number(c) = n
  BY <1>3, <1>4 DEF Number
<1>6. Len(c) - c[Len(c)].size + 1 = j
  BY <1>2, <1>3, <1>4
<1>7. \A i \in j..Len(c) : c[i].of = c[Len(c)].of /\ c[i].at = i - j + 1 /\ c[i].ok
  <2>1. \A i \in j..k : c[i] = s[i]
    BY <1>2
  <2> QED  BY <1>2, <1>3, <1>4, <2>1 DEF Lies
<1>8. Civ => find_preamble(Bytes(c)) = j
  <2> SUFFICES ASSUME make = "icom"  PROVE  find_preamble(Bytes(c)) = j
    BY DEF Civ
  <2>1. FirstPreamble(s, j) /\ j < k
    BY DEF Starts
  <2>2. FirstPreamble(c, j)
    <3>1. /\ s[j].byte = "FE" /\ s[j + 1].byte = "FE"
          /\ \A l \in 1..j - 1 : ~(s[l].byte = "FE" /\ s[l + 1].byte = "FE")
      BY <2>1 DEF FirstPreamble
    <3>2. j \in 1..Len(c) - 1 /\ c[j] = s[j] /\ c[j + 1] = s[j + 1]
      BY <1>2, <2>1
    <3>3. \A l \in 1..j - 1 : c[l] = s[l] /\ c[l + 1] = s[l + 1]
      BY <1>2
    <3> QED  BY <3>1, <3>2, <3>3 DEF FirstPreamble
  <2> QED  BY <1>2, <2>2, PreambleOf
<1>9. j >= 1 /\ (j = 1 \/ Civ)
  BY DEF Starts, Civ
<1>10. c[Len(c)].at = c[Len(c)].size
  BY <1>3, <1>4
<1>11. Whole(c)
  BY <1>3, <1>6, <1>7, <1>8, <1>9, <1>10 DEF Whole
<1> QED  BY <1>5, <1>11 DEF c

-----------------------------------------------------------------------------
(* How much can still go wrong.                                            *)

One(p) == IF p THEN 1 ELSE 0
\* The last frame is not finished.
Open(m, s) == s # <<>> /\ s[Len(s)].byte # Terminator(m)
\* The frames of 1..k, but those in r, that will not be decoded as they were sent.
Spoiled(m, s, k, r) == {n \in 1..k : n \notin r /\ ~Safe(m, n, s)}
Weight(m, s, k, r) == Cardinality(Spoiled(m, s, k, r)) + One(Open(m, s))

\* The spoiled frames can be counted.
LEMMA SpoiledFinite ==
  ASSUME NEW m, NEW s, NEW k \in Nat, NEW r
  PROVE  IsFiniteSet(Spoiled(m, s, k, r)) /\ Cardinality(Spoiled(m, s, k, r)) \in Nat
<1>1. IsFiniteSet(1..k)
  BY FS_Interval
<1>2. Spoiled(m, s, k, r) \subseteq 1..k
  BY DEF Spoiled
<1>3. IsFiniteSet(Spoiled(m, s, k, r))
  BY <1>1, <1>2, FS_Subset
<1> QED  BY <1>3, FS_CardinalityType

\* A set of at most one.
Only(p, x) == IF p = 1 THEN {x} ELSE {}

\* One element more.
LEMMA CardOne ==
  ASSUME NEW A, IsFiniteSet(A), NEW p \in {0, 1}, NEW x
  PROVE  /\ IsFiniteSet(A \cup Only(p, x))
         /\ Cardinality(A \cup Only(p, x)) <= Cardinality(A) + p
<1>1. CASE p = 1
  <2>1. IsFiniteSet(A \cup {x}) /\ Cardinality(A \cup {x}) \in {Cardinality(A), Cardinality(A) + 1}
    BY FS_AddElement
  <2>2. Cardinality(A) \in Nat
    BY FS_CardinalityType
  <2>3. Cardinality(A \cup {x}) <= Cardinality(A) + 1
    BY <2>1, <2>2
  <2> QED  BY <1>1, <2>1, <2>3 DEF Only
<1>2. CASE p = 0
  <2>1. Cardinality(A) \in Nat /\ A \cup {} = A
    BY FS_CardinalityType
  <2>2. Cardinality(A) <= Cardinality(A) + 0
    BY <2>1
  <2> QED  BY <1>2, <2>1, <2>2 DEF Only
<1> QED  BY <1>1, <1>2

\* At most two more than before.
LEMMA CardTwo ==
  ASSUME NEW A, IsFiniteSet(A), NEW B, NEW p \in {0, 1}, NEW x, NEW q \in {0, 1}, NEW y,
         B \subseteq (A \cup Only(p, x)) \cup Only(q, y)
  PROVE  /\ IsFiniteSet(B) /\ Cardinality(B) \in Nat /\ Cardinality(A) \in Nat
         /\ Cardinality(B) <= Cardinality(A) + p + q
<1> DEFINE C == A \cup Only(p, x)
           D == C \cup Only(q, y)
<1>1. IsFiniteSet(C) /\ Cardinality(C) <= Cardinality(A) + p
  BY CardOne
<1>2. IsFiniteSet(D) /\ Cardinality(D) <= Cardinality(C) + q
  <2> HIDE DEF C
  <2> QED  BY <1>1, CardOne
<1>3. B \subseteq D
  OBVIOUS
<1> HIDE DEF C, D
<1>4. IsFiniteSet(B) /\ Cardinality(B) <= Cardinality(D)
  BY <1>2, <1>3, FS_Subset
<1>5. Cardinality(A) \in Nat /\ Cardinality(B) \in Nat /\ Cardinality(C) \in Nat /\ Cardinality(D) \in Nat
  BY <1>1, <1>2, <1>4, FS_CardinalityType
<1> QED  BY <1>1, <1>2, <1>4, <1>5

\* The end of two joined sequences is the end of the second, if it has one.
LEMMA OpenJoin ==
  ASSUME NEW m, NEW S, NEW s \in Seq(S), NEW t \in Seq(S)
  PROVE  /\ t = <<>> => (Open(m, s \o t) <=> Open(m, s))
         /\ t # <<>> => (Open(m, s \o t) <=> Open(m, t))
         /\ Open(m, s) \in BOOLEAN
<1> DEFINE u == s \o t
<1>1. /\ Len(u) = Len(s) + Len(t) /\ Len(s) \in Nat /\ Len(t) \in Nat
      /\ \A i \in 1..Len(s) + Len(t) : u[i] = IF i <= Len(s) THEN s[i] ELSE t[i - Len(s)]
      /\ u \in Seq(S)
  BY ConcatProperties
<1>2. t = <<>> => u = s
  BY ConcatEmptySeq
<1>3. t # <<>> => u # <<>> /\ u[Len(u)] = t[Len(t)]
  <2> HIDE DEF u
  <2> SUFFICES ASSUME t # <<>>  PROVE  u # <<>> /\ u[Len(u)] = t[Len(t)]
    OBVIOUS
  <2>1. Len(t) > 0
    BY <1>1
  <2>2. Len(u) \in 1..Len(s) + Len(t) /\ ~(Len(u) <= Len(s)) /\ Len(u) - Len(s) = Len(t)
    BY <1>1, <2>1
  <2>3. u # <<>>
    BY <2>2
  <2> QED  BY <1>1, <2>2, <2>3
<1> HIDE DEF u
<1>4. (t # <<>> => (Open(m, u) <=> Open(m, t))) /\ Open(m, s) \in BOOLEAN
  BY <1>3 DEF Open
<1> QED  BY <1>2, <1>4 DEF u

\* Taking bytes from the front does not change the end.
LEMMA OpenRest ==
  ASSUME NEW m, NEW S, NEW s \in Seq(S), NEW q \in 0..Len(s), Open(m, SubSeq(s, q + 1, Len(s)))
  PROVE  Open(m, s)
<1> DEFINE t == SubSeq(s, q + 1, Len(s))
<1>1. t \in Seq(S) /\ Len(t) = Len(s) - q /\ \A i \in 1..Len(t) : t[i] = s[q + i]
  BY SplitLine
<1> HIDE DEF t
<1>2. t # <<>> /\ t[Len(t)].byte # Terminator(m)
  BY DEF Open, t
<1>3. Len(t) \in 1..Len(t) /\ q + Len(t) = Len(s) /\ s # <<>>
  BY <1>1, <1>2
<1> QED  BY <1>1, <1>2, <1>3 DEF Open

-----------------------------------------------------------------------------
(* What the steps add to it.                                               *)

\* Decoding adds nothing.
LEMMA CutWeighs ==
  ASSUME NEW m, NEW S, NEW s \in Seq(S), NEW q, Cut(m, s, q), NEW K \in Nat, NEW r, NEW r2,
         r \subseteq r2, \A n, j : SafeAt(m, n, s, j, q) /\ Starts(m, s, j) => n \in r2
  PROVE  Weight(m, SubSeq(s, q + 1, Len(s)), K, r2) <= Weight(m, s, K, r)
<1> DEFINE t == SubSeq(s, q + 1, Len(s))
           A == Spoiled(m, s, K, r)
           B == Spoiled(m, t, K, r2)
<1>1. q \in 1..Len(s) /\ Len(s) \in Nat
  <2>1. <<>> \in Seq(S) /\ Len(s) \in Nat
    OBVIOUS
  <2> QED  BY <2>1, CutMore
<1>2. \A n \in B : n \in A
  <2> SUFFICES ASSUME NEW n \in B, n \notin A  PROVE  FALSE
    OBVIOUS
  <2>1. n \in 1..K /\ n \notin r2 /\ ~Safe(m, n, t) /\ n \notin r /\ Safe(m, n, s)
    BY DEF Spoiled
  <2>2. PICK j, k \in 1..Len(s) : SafeAt(m, n, s, j, k)
    BY <2>1 DEF Safe
  <2>3. (Starts(m, s, j) /\ k = q) \/ Safe(m, n, t)
    BY <2>2, CutKeeps
  <2> QED  BY <2>1, <2>2, <2>3
<1>3. q \in 0..Len(s)
  BY <1>1
<1>4. Open(m, t) => Open(m, s)
  BY <1>3, OpenRest
<1>5. IsFiniteSet(A)
  BY SpoiledFinite
<1> HIDE DEF A, B, t
<1>6. Cardinality(B) \in Nat /\ Cardinality(A) \in Nat /\ Cardinality(B) <= Cardinality(A)
  <2>1. B \subseteq A
    BY <1>2
  <2> QED  BY <1>5, <2>1, FS_Subset, FS_CardinalityType
<1>7. Cardinality(B) + One(Open(m, t)) <= Cardinality(A) + One(Open(m, s))
  BY <1>4, <1>6 DEF One
<1> QED  BY <1>7 DEF Weight, A, B, t

\* The places of two joined sequences.
LEMMA JoinedIs ==
  ASSUME NEW S, NEW s \in Seq(S), NEW t \in Seq(S)
  PROVE  /\ s \o t \in Seq(S) /\ Len(s \o t) = Len(s) + Len(t) /\ Len(s) \in Nat /\ Len(t) \in Nat
         /\ \A i \in 1..Len(s) : (s \o t)[i] = s[i]
         /\ \A i \in 1..Len(t) : (s \o t)[Len(s) + i] = t[i]
<1> DEFINE u == s \o t
<1>1. /\ u \in Seq(S) /\ Len(u) = Len(s) + Len(t) /\ Len(s) \in Nat /\ Len(t) \in Nat
      /\ \A i \in 1..Len(s) + Len(t) : u[i] = IF i <= Len(s) THEN s[i] ELSE t[i - Len(s)]
  BY ConcatProperties
<1> HIDE DEF u
<1>2. ASSUME NEW i \in 1..Len(t)  PROVE  u[Len(s) + i] = t[i]
  <2>1. Len(s) + i \in 1..Len(s) + Len(t) /\ ~(Len(s) + i <= Len(s)) /\ Len(s) + i - Len(s) = i
    BY <1>1
  <2> QED  BY <1>1, <2>1
<1>3. ASSUME NEW i \in 1..Len(s)  PROVE  u[i] = s[i]
  <2>1. i \in 1..Len(s) + Len(t) /\ i <= Len(s)
    BY <1>1
  <2> QED  BY <1>1, <2>1
<1> QED  BY <1>1, <1>2, <1>3 DEF u

\* When an exchange ends: its bytes are forgotten, and those that idled come before
\* the flow again.
LEMMA ReturnWeighs ==
  ASSUME NEW m, NEW S, NEW left \in Seq(S), NEW rest \in Seq(S), NEW idle \in Seq(S),
         NEW K \in Nat, NEW r, NEW r2, r \subseteq r2, NEW p \in BOOLEAN,
         \A n, j, k : SafeAt(m, n, left \o rest, j, k) /\ k <= Len(left) => n \in r2,
         \A n, j, k : SafeAt(m, n, left \o rest, j, k) /\ j <= Len(left) /\ Len(left) < k => p
  PROVE  Weight(m, idle \o rest, K, r2)
           <= Weight(m, left \o rest, K, r) + One(Open(m, idle)) + One(p)
<1> DEFINE s == left \o rest
           t == idle \o rest
           A == Spoiled(m, s, K, r)
           B == Spoiled(m, t, K, r2)
           o == Open(m, idle) /\ rest # <<>>
           x == s[Len(left)].of
           y == rest[1].of
<1>1. /\ s \in Seq(S) /\ Len(s) = Len(left) + Len(rest)
      /\ \A i \in 1..Len(rest) : s[Len(left) + i] = rest[i]
      /\ t \in Seq(S) /\ Len(t) = Len(idle) + Len(rest)
      /\ \A i \in 1..Len(idle) : t[i] = idle[i]
      /\ \A i \in 1..Len(rest) : t[Len(idle) + i] = rest[i]
      /\ Len(left) \in Nat /\ Len(idle) \in Nat /\ Len(rest) \in Nat
  BY JoinedIs
<1>2. \A n \in B : n \in A \/ (p /\ n = x) \/ (o /\ n = y)
  <2> SUFFICES ASSUME NEW n \in B, n \notin A  PROVE  (p /\ n = x) \/ (o /\ n = y)
    OBVIOUS
  <2>1. n \in 1..K /\ n \notin r2 /\ ~Safe(m, n, t) /\ n \notin r /\ Safe(m, n, s)
    BY DEF Spoiled
  <2>2. PICK j, k \in 1..Len(s) : SafeAt(m, n, s, j, k)
    BY <2>1 DEF Safe
  <2>3. /\ j <= k /\ \A i \in j..k : s[i].of = n
        /\ j > 1 => s[j - 1].byte = Terminator(m)
    BY <2>2 DEF SafeAt, Lies
  <2>4. k > Len(left)
    BY <1>1, <2>1, <2>2
  <2>5. CASE j <= Len(left)
    <3>1. p
      BY <2>2, <2>4, <2>5
    <3>2. Len(left) \in j..k
      BY <1>1, <2>4, <2>5
    <3> QED  BY <2>3, <3>1, <3>2
  <2>6. CASE j > Len(left) + 1 \/ (j = Len(left) + 1 /\ ~Open(m, idle))
    <3> DEFINE d == Len(idle) - Len(left)
    <3>1. j + d \in 1..Len(t) /\ k + d \in 1..Len(t) /\ d \in Int /\ j \in Int /\ k \in Int
      BY <1>1, <2>4, <2>6
    <3>2. \A i \in j..k : t[i + d] = s[i]
      <4> SUFFICES ASSUME NEW i \in j..k  PROVE  t[i + d] = s[i]
        OBVIOUS
      <4>1. /\ i - Len(left) \in 1..Len(rest) /\ Len(left) + (i - Len(left)) = i
            /\ Len(idle) + (i - Len(left)) = i + d
        BY <1>1, <2>6
      <4> HIDE DEF d, s, t
      <4>2. s[i] = rest[i - Len(left)]
        BY <1>1, <4>1
      <4>3. t[i + d] = rest[i - Len(left)]
        BY <1>1, <4>1
      <4> QED  BY <4>2, <4>3
    <3>3. ASSUME j + d > 1  PROVE  t[j + d - 1].byte = Terminator(m)
      <4>1. CASE j > Len(left) + 1
        <5> DEFINE e == j - 1 - Len(left)
        <5>1. /\ e \in 1..Len(rest) /\ Len(left) + e = j - 1 /\ j > 1
              /\ Len(idle) + e = j + d - 1
          BY <1>1, <4>1
        <5> HIDE DEF d, s, t, e
        <5>2. s[j - 1] = rest[e]
          BY <1>1, <5>1
        <5>3. t[j + d - 1] = rest[e]
          BY <1>1, <5>1
        <5> QED  BY <2>3, <5>1, <5>2, <5>3
      <4>2. CASE j = Len(left) + 1 /\ ~Open(m, idle)
        <5>1. j + d - 1 = Len(idle) /\ Len(idle) > 0 /\ Len(idle) \in 1..Len(idle)
          BY <1>1, <3>3, <4>2
        <5> HIDE DEF d, s, t
        <5>2. idle # <<>> /\ t[Len(idle)] = idle[Len(idle)]
          BY <1>1, <5>1
        <5> QED  BY <4>2, <5>1, <5>2 DEF Open
      <4> QED  BY <2>6, <4>1, <4>2
    <3> HIDE DEF d, s, t
    <3>4. s \in Seq(S) /\ t \in Seq(S) /\ SafeAt(m, n, s, j, k)
      BY <1>1, <2>2
    <3>5. j + d > 1 => t[j + d - 1].byte = Terminator(m)
      BY <3>3
    <3>6. Shifted(m, s, t, j, k, d)
      BY <3>1, <3>2, <3>5 DEF Shifted
    <3>7. Safe(m, n, t)
      BY <3>4, <3>6, SafeMoves
    <3> QED  BY <2>1, <3>7
  <2>7. CASE j = Len(left) + 1 /\ Open(m, idle)
    <3>1. j \in j..k /\ 1 \in 1..Len(rest) /\ j = Len(left) + 1
      BY <1>1, <2>3, <2>7
    <3>2. s[j] = rest[1] /\ s[j].of = n
      <4> HIDE DEF s, t
      <4> QED  BY <1>1, <2>3, <3>1
    <3>3. rest # <<>>
      BY <1>1, <3>1
    <3> QED  BY <2>7, <3>2, <3>3
  <2>8. j <= Len(left) \/ j > Len(left) + 1 \/ j = Len(left) + 1
    <3> HIDE DEF s, t
    <3>1. j \in Int
      BY <1>1
    <3> QED  BY <1>1, <3>1
  <2> QED  BY <2>5, <2>6, <2>7, <2>8
<1>3. /\ rest = <<>> => (Open(m, t) <=> Open(m, idle)) /\ ~o
      /\ rest # <<>> => (Open(m, t) <=> Open(m, s)) /\ (o <=> Open(m, idle))
  BY OpenJoin
<1>4. IsFiniteSet(A)
  BY SpoiledFinite
<1> HIDE DEF A, B, s, t, x, y, o
<1>5. Cardinality(B) \in Nat /\ Cardinality(A) \in Nat /\ Cardinality(B) <= Cardinality(A) + One(p) + One(o)
  <2> DEFINE a == One(p)
             b == One(o)
  <2>1. a \in {0, 1} /\ (p => a = 1) /\ b \in {0, 1} /\ (o => b = 1)
    BY DEF One
  <2>2. B \subseteq (A \cup Only(a, x)) \cup Only(b, y)
    BY <1>2, <2>1 DEF Only
  <2> HIDE DEF a, b
  <2>3. Cardinality(B) \in Nat /\ Cardinality(A) \in Nat /\ Cardinality(B) <= Cardinality(A) + a + b
    BY <1>4, <2>1, <2>2, CardTwo
  <2> QED  BY <2>3 DEF a, b
<1>6. Cardinality(B) + One(Open(m, t)) <= Cardinality(A) + One(Open(m, s)) + One(Open(m, idle)) + One(p)
  <2>1. One(p) \in Nat
    BY DEF One
  <2>2. One(o) + One(Open(m, t)) <= One(Open(m, s)) + One(Open(m, idle))
    BY <1>3 DEF One
  <2>3. One(o) \in Nat /\ One(Open(m, t)) \in Nat /\ One(Open(m, s)) \in Nat /\ One(Open(m, idle)) \in Nat
    BY DEF One
  <2> QED  BY <1>5, <2>1, <2>2, <2>3
<1> QED  BY <1>6 DEF Weight, A, B, s, t

\* The weight is a number, and bounds the spoiled frames.
LEMMA WeightNat ==
  ASSUME NEW m, NEW s, NEW K \in Nat, NEW r
  PROVE  /\ Weight(m, s, K, r) \in Nat
         /\ Cardinality(Spoiled(m, s, K, r)) \in Nat
         /\ Cardinality(Spoiled(m, s, K, r)) <= Weight(m, s, K, r)
<1>1. Cardinality(Spoiled(m, s, K, r)) \in Nat /\ One(Open(m, s)) \in {0, 1}
  BY SpoiledFinite DEF One
<1> QED  BY <1>1 DEF Weight

\* What is sent.
LEMMA SayWeighs ==
  ASSUME NEW m, NEW S, NEW s \in Seq(S), NEW t \in Seq(S), NEW K \in Nat, NEW r
  PROVE  /\ Weight(m, s \o t, K + 1, r) <= Weight(m, s, K, r) + 2
         /\ SafeAt(m, K + 1, t, 1, Len(t)) => Weight(m, s \o t, K + 1, r) <= Weight(m, s, K, r)
<1> DEFINE u == s \o t
           A == Spoiled(m, s, K, r)
           B == Spoiled(m, u, K + 1, r)
<1>1. /\ u \in Seq(S) /\ Len(u) = Len(s) + Len(t) /\ Len(s) \in Nat /\ Len(t) \in Nat
      /\ \A i \in 1..Len(s) : u[i] = s[i]
      /\ \A i \in 1..Len(t) : u[Len(s) + i] = t[i]
  BY JoinedIs
<1>2. \A n \in B : n \in A \/ n = K + 1
  <2> SUFFICES ASSUME NEW n \in B, n # K + 1, n \notin A  PROVE  FALSE
    OBVIOUS
  <2>1. n \in 1..K + 1 /\ n \notin r /\ ~Safe(m, n, u)
    BY DEF Spoiled
  <2>2. n \in 1..K
    BY <2>1
  <2>3. Safe(m, n, s)
    BY <2>1, <2>2 DEF Spoiled
  <2>4. Safe(m, n, u)
    BY <2>3, SafeMore
  <2> QED  BY <2>1, <2>4
<1>3. IsFiniteSet(A)
  BY SpoiledFinite
<1>4. ASSUME SafeAt(m, K + 1, t, 1, Len(t)), ~Open(m, s)  PROVE  B \subseteq A
  <2>1. 1 \in 1..Len(t) /\ Len(t) \in 1..Len(t)
    BY <1>4 DEF SafeAt
  <2>2. 1 + Len(s) \in 1..Len(u) /\ Len(t) + Len(s) \in 1..Len(u) /\ 1 \in Int /\ Len(t) \in Int /\ Len(s) \in Int
    BY <1>1, <2>1
  <2> HIDE DEF u
  <2>3. \A i \in 1..Len(t) : u[i + Len(s)] = t[i]
    <3>1. \A i \in 1..Len(t) : i + Len(s) = Len(s) + i
      BY <1>1
    <3> QED  BY <1>1, <3>1
  <2>4. 1 + Len(s) > 1 => u[1 + Len(s) - 1].byte = Terminator(m)
    <3> SUFFICES ASSUME 1 + Len(s) > 1  PROVE  u[1 + Len(s) - 1].byte = Terminator(m)
      OBVIOUS
    <3>1. s # <<>> /\ Len(s) \in 1..Len(s) /\ 1 + Len(s) - 1 = Len(s)
      BY <1>1
    <3>2. u[Len(s)] = s[Len(s)] /\ s[Len(s)].byte = Terminator(m)
      BY <1>1, <1>4, <3>1 DEF Open
    <3> QED  BY <3>1, <3>2
  <2>5. Shifted(m, t, u, 1, Len(t), Len(s))
    BY <1>1, <2>2, <2>3, <2>4 DEF Shifted
  <2>6. Safe(m, K + 1, u)
    BY <1>1, <1>4, <2>5, SafeMoves
  <2> QED  BY <1>2, <2>6 DEF Spoiled, u
<1>5. SafeAt(m, K + 1, t, 1, Len(t)) => ~Open(m, u)
  <2> SUFFICES ASSUME SafeAt(m, K + 1, t, 1, Len(t))  PROVE  ~Open(m, u)
    OBVIOUS
  <2>1. Len(t) \in 1..Len(t) /\ t[Len(t)].byte = Terminator(m)
    BY DEF SafeAt, Clean, Terminator
  <2>2. t # <<>>
    BY <2>1
  <2>3. ~Open(m, t)
    BY <2>1 DEF Open
  <2> QED  BY <2>2, <2>3, OpenJoin
<1> HIDE DEF u, A, B
<1>6. B \subseteq (A \cup Only(1, K + 1)) \cup Only(0, 0)
  BY <1>2 DEF Only
<1>7. Cardinality(B) \in Nat /\ Cardinality(A) \in Nat /\ Cardinality(B) <= Cardinality(A) + 1 + 0
  BY <1>3, <1>6, CardTwo
<1>8. SafeAt(m, K + 1, t, 1, Len(t)) /\ ~Open(m, s) => Cardinality(B) <= Cardinality(A)
  BY <1>3, <1>4, FS_Subset
<1> DEFINE a == One(Open(m, s))
           b == One(Open(m, u))
<1>9. /\ a \in {0, 1} /\ b \in {0, 1}
      /\ SafeAt(m, K + 1, t, 1, Len(t)) => b = 0
      /\ ~Open(m, s) => a = 0
      /\ Open(m, s) => a = 1
  BY <1>5 DEF One
<1> HIDE DEF a, b
<1>10. /\ Cardinality(B) + b <= Cardinality(A) + a + 2
       /\ SafeAt(m, K + 1, t, 1, Len(t)) => Cardinality(B) + b <= Cardinality(A) + a
  BY <1>7, <1>8, <1>9
<1> QED  BY <1>10 DEF Weight, u, A, B, a, b

\* A byte that is taken out.
LEMMA RemoveAtIs ==
  ASSUME NEW S, NEW s \in Seq(S), NEW p \in 1..Len(s)
  PROVE  /\ RemoveAt(s, p) \in Seq(S) /\ Len(RemoveAt(s, p)) = Len(s) - 1 /\ Len(s) \in Nat
         /\ \A i \in 1..p - 1 : RemoveAt(s, p)[i] = s[i]
         /\ \A i \in p..Len(s) - 1 : RemoveAt(s, p)[i] = s[i + 1]
<1> DEFINE c == SubSeq(s, 1, p - 1)
           d == SubSeq(s, p + 1, Len(s))
           u == c \o d
<1>0. Len(s) \in Nat /\ p - 1 \in 0..Len(s) /\ p \in 0..Len(s)
  OBVIOUS
<1>1. c \in Seq(S) /\ Len(c) = p - 1 /\ \A i \in 1..p - 1 : c[i] = s[i]
  BY <1>0, SplitLine
<1>2. d \in Seq(S) /\ Len(d) = Len(s) - p /\ \A i \in 1..Len(d) : d[i] = s[p + i]
  BY <1>0, SplitLine
<1> HIDE DEF c, d
<1>3. /\ u \in Seq(S) /\ Len(u) = Len(c) + Len(d)
      /\ \A i \in 1..Len(c) : u[i] = c[i]
      /\ \A i \in 1..Len(d) : u[Len(c) + i] = d[i]
  <2>1. c \in Seq(S) /\ d \in Seq(S)
    BY <1>1, <1>2
  <2> QED  BY <2>1, JoinedIs
<1> HIDE DEF u
<1>4. Len(u) = Len(s) - 1
  BY <1>0, <1>1, <1>2, <1>3
<1>5. \A i \in 1..p - 1 : u[i] = s[i]
  BY <1>1, <1>3
<1>6. ASSUME NEW i \in p..Len(s) - 1  PROVE  u[i] = s[i + 1]
  <2>1. i - (p - 1) \in 1..Len(d) /\ Len(c) + (i - (p - 1)) = i /\ p + (i - (p - 1)) = i + 1
    BY <1>0, <1>1, <1>2
  <2>2. u[i] = d[i - (p - 1)]
    BY <1>3, <2>1
  <2>3. d[i - (p - 1)] = s[i + 1]
    BY <1>2, <2>1
  <2> QED  BY <2>2, <2>3
<1>7. u = RemoveAt(s, p)
  BY DEF RemoveAt, u, c, d
<1> QED  BY <1>0, <1>3, <1>4, <1>5, <1>6, <1>7

\* A lost byte spoils its frame and, if it was a terminator, the next.
LEMMA LoseWeighs ==
  ASSUME NEW m, NEW S, NEW s \in Seq(S), NEW p \in 1..Len(s), NEW K \in Nat, NEW r
  PROVE  Weight(m, RemoveAt(s, p), K, r) <= Weight(m, s, K, r) + 2
<1> DEFINE u == RemoveAt(s, p)
           A == Spoiled(m, s, K, r)
           B == Spoiled(m, u, K, r)
           x == s[p].of
           y == s[p + 1].of
<1>1. /\ u \in Seq(S) /\ Len(u) = Len(s) - 1 /\ Len(s) \in Nat
      /\ \A i \in 1..p - 1 : u[i] = s[i]
      /\ \A i \in p..Len(s) - 1 : u[i] = s[i + 1]
  BY RemoveAtIs
<1> HIDE DEF u
<1>2. \A n \in B : n \in A \/ n = x \/ (p < Len(s) /\ n = y)
  <2> SUFFICES ASSUME NEW n \in B, n \notin A  PROVE  n = x \/ (p < Len(s) /\ n = y)
    OBVIOUS
  <2>1. n \in 1..K /\ n \notin r /\ ~Safe(m, n, u) /\ Safe(m, n, s)
    BY DEF Spoiled
  <2>2. PICK j, k \in 1..Len(s) : SafeAt(m, n, s, j, k)
    BY <2>1 DEF Safe
  <2>3. /\ j <= k /\ \A i \in j..k : s[i].of = n
        /\ j > 1 => s[j - 1].byte = Terminator(m)
        /\ j \in Int /\ k \in Int
    BY <1>1, <2>2 DEF SafeAt, Lies
  <2>4. CASE p \in j..k
    BY <2>3, <2>4
  <2>5. CASE p = j - 1
    BY <1>1, <2>3, <2>5
  <2>6. CASE p > k
    <3>1. j + 0 \in 1..Len(u) /\ k + 0 \in 1..Len(u) /\ 0 \in Int
      BY <1>1, <2>3, <2>6
    <3>2. \A i \in j..k : u[i + 0] = s[i]
      <4>1. \A i \in j..k : i \in 1..p - 1 /\ i + 0 = i
        BY <1>1, <2>3, <2>6
      <4> QED  BY <1>1, <4>1
    <3>3. j + 0 > 1 => u[j + 0 - 1].byte = Terminator(m)
      <4>1. j > 1 => j - 1 \in 1..p - 1
        BY <1>1, <2>3, <2>6
      <4>2. j + 0 - 1 = j - 1 /\ j + 0 = j
        BY <2>3
      <4> QED  BY <1>1, <2>3, <4>1, <4>2
    <3>4. Shifted(m, s, u, j, k, 0)
      BY <2>3, <3>1, <3>2, <3>3 DEF Shifted
    <3>5. Safe(m, n, u)
      BY <1>1, <2>2, <3>4, SafeMoves
    <3> QED  BY <2>1, <3>5
  <2>7. CASE p < j - 1
    <3>1. j + (-1) \in 1..Len(u) /\ k + (-1) \in 1..Len(u) /\ -1 \in Int
      BY <1>1, <2>3, <2>7
    <3>2. \A i \in j..k : u[i + (-1)] = s[i]
      <4>1. \A i \in j..k : i + (-1) \in p..Len(s) - 1 /\ i + (-1) + 1 = i
        BY <1>1, <2>3, <2>7
      <4> QED  BY <1>1, <4>1
    <3>3. j + (-1) > 1 => u[j + (-1) - 1].byte = Terminator(m)
      <4>1. j - 2 \in p..Len(s) - 1 /\ j - 2 + 1 = j - 1 /\ j > 1 /\ j + (-1) - 1 = j - 2
        BY <1>1, <2>3, <2>7
      <4>2. u[j - 2] = s[j - 1]
        BY <1>1, <4>1
      <4> QED  BY <2>3, <4>1, <4>2
    <3>4. Shifted(m, s, u, j, k, -1)
      BY <2>3, <3>1, <3>2, <3>3 DEF Shifted
    <3>5. Safe(m, n, u)
      BY <1>1, <2>2, <3>4, SafeMoves
    <3> QED  BY <2>1, <3>5
  <2> QED  BY <2>3, <2>4, <2>5, <2>6, <2>7
<1>3. p < Len(s) => (Open(m, u) <=> Open(m, s))
  <2> SUFFICES ASSUME p < Len(s)  PROVE  Open(m, u) <=> Open(m, s)
    OBVIOUS
  <2>1. Len(u) \in p..Len(s) - 1 /\ Len(u) + 1 = Len(s) /\ u # <<>> /\ s # <<>>
    BY <1>1
  <2>2. u[Len(u)] = s[Len(s)]
    BY <1>1, <2>1
  <2> QED  BY <2>1, <2>2 DEF Open
<1>4. IsFiniteSet(A)
  BY SpoiledFinite
<1> DEFINE c == IF p < Len(s) THEN 1 ELSE 0
           a == One(Open(m, s))
           b == One(Open(m, u))
<1>5. B \subseteq (A \cup Only(1, x)) \cup Only(c, y)
  <2> HIDE DEF A, B, x, y
  <2> QED  BY <1>2 DEF Only
<1>6. c \in {0, 1} /\ a \in {0, 1} /\ b \in {0, 1} /\ (c = 1 => a = b)
  BY <1>3 DEF One
<1> HIDE DEF A, B, x, y, c
<1>7. Cardinality(B) \in Nat /\ Cardinality(A) \in Nat /\ Cardinality(B) <= Cardinality(A) + 1 + c
  BY <1>4, <1>5, <1>6, CardTwo
<1> HIDE DEF a, b
<1>8. Cardinality(B) + b <= Cardinality(A) + a + 2
  BY <1>6, <1>7, SMTT(30)
<1> QED  BY <1>8 DEF Weight, u, A, B, a, b

\* The byte at p has become another.
Changed(s, t, p) ==
  /\ Len(t) = Len(s)
  /\ \A i \in 1..Len(s) : i # p => t[i] = s[i]
  /\ t[p].of = s[p].of /\ t[p].at = s[p].at /\ t[p].size = s[p].size /\ t[p].ok = FALSE

\* A garbled byte spoils its frame and, if it was a terminator, the next; if it has
\* become a terminator it spoils its own only.
LEMMA GarbleWeighs ==
  ASSUME NEW m, NEW S, NEW s \in Seq(S), NEW t \in Seq(S), NEW p \in 1..Len(s), Changed(s, t, p),
         NEW K \in Nat, NEW r
  PROVE  Weight(m, t, K, r) + One(t[p].byte = Terminator(m)) <= Weight(m, s, K, r) + 2
<1> DEFINE A == Spoiled(m, s, K, r)
           B == Spoiled(m, t, K, r)
           x == s[p].of
           y == s[p + 1].of
           ends == t[p].byte = Terminator(m)
<1>1. /\ Len(t) = Len(s) /\ Len(s) \in Nat
      /\ \A i \in 1..Len(s) : i # p => t[i] = s[i]
  BY DEF Changed
<1>2. \A n \in B : n \in A \/ n = x \/ (p < Len(s) /\ ~ends /\ n = y)
  <2> SUFFICES ASSUME NEW n \in B, n \notin A  PROVE  n = x \/ (p < Len(s) /\ ~ends /\ n = y)
    OBVIOUS
  <2>1. n \in 1..K /\ n \notin r /\ ~Safe(m, n, t) /\ Safe(m, n, s)
    BY DEF Spoiled
  <2>2. PICK j, k \in 1..Len(s) : SafeAt(m, n, s, j, k)
    BY <2>1 DEF Safe
  <2>3. /\ j <= k /\ \A i \in j..k : s[i].of = n
        /\ j > 1 => s[j - 1].byte = Terminator(m)
        /\ j \in Int /\ k \in Int
    BY <1>1, <2>2 DEF SafeAt, Lies
  <2>4. CASE p \in j..k
    BY <2>3, <2>4
  <2>5. CASE p = j - 1 /\ ~ends
    BY <1>1, <2>3, <2>5
  <2>6. CASE p \notin j..k /\ (p = j - 1 => ends)
    <3>1. j + 0 \in 1..Len(t) /\ k + 0 \in 1..Len(t) /\ 0 \in Int
      BY <1>1, <2>3
    <3>2. \A i \in j..k : t[i + 0] = s[i]
      <4>1. \A i \in j..k : i \in 1..Len(s) /\ i # p /\ i + 0 = i
        BY <1>1, <2>3, <2>6
      <4> QED  BY <1>1, <4>1
    <3>3. j + 0 > 1 => t[j + 0 - 1].byte = Terminator(m)
      <4>1. j + 0 - 1 = j - 1 /\ j + 0 = j /\ (j > 1 => j - 1 \in 1..Len(s))
        BY <1>1, <2>3
      <4> QED  BY <1>1, <2>3, <2>6, <4>1
    <3>4. Shifted(m, s, t, j, k, 0)
      BY <2>3, <3>1, <3>2, <3>3 DEF Shifted
    <3>5. Safe(m, n, t)
      BY <2>2, <3>4, SafeMoves
    <3> QED  BY <2>1, <3>5
  <2> QED  BY <2>4, <2>5, <2>6
<1>3. /\ p < Len(s) => (Open(m, t) <=> Open(m, s))
      /\ p = Len(s) => (Open(m, t) <=> ~ends)
  <2>1. s # <<>> /\ t # <<>> /\ Len(s) \in 1..Len(s)
    BY <1>1
  <2>2. p < Len(s) => t[Len(t)] = s[Len(s)]
    BY <1>1, <2>1
  <2> QED  BY <1>1, <2>1, <2>2 DEF Open
<1>4. IsFiniteSet(A)
  BY SpoiledFinite
<1> DEFINE c == IF p < Len(s) /\ ~ends THEN 1 ELSE 0
           a == One(Open(m, s))
           b == One(Open(m, t))
           e == One(ends)
<1>5. B \subseteq (A \cup Only(1, x)) \cup Only(c, y)
  <2> HIDE DEF A, B, x, y, ends
  <2> QED  BY <1>2 DEF Only
<1>6. c \in {0, 1} /\ a \in {0, 1} /\ b \in {0, 1} /\ e \in {0, 1}
  BY DEF One
<1>7. b + c + e <= a + 1
  <2>1. p < Len(s) \/ p = Len(s)
    BY <1>1
  <2>2. CASE p < Len(s)
    <3>1. a = b
      <4>1. Open(m, s) <=> Open(m, t)
        BY <1>3, <2>2
      <4> QED  BY <4>1 DEF One
    <3>2. c + e = 1
      <4> HIDE DEF ends
      <4> QED  BY <2>2 DEF One
    <3> QED  BY <1>6, <3>1, <3>2
  <2>3. CASE p = Len(s)
    <3>1. c = 0
      BY <1>1, <2>3
    <3>2. b + e = 1
      <4> HIDE DEF ends
      <4> QED  BY <1>3, <2>3 DEF One
    <3> QED  BY <1>6, <3>1, <3>2
  <2> QED  BY <2>1, <2>2, <2>3
<1> HIDE DEF A, B, x, y, c
<1>8. Cardinality(B) \in Nat /\ Cardinality(A) \in Nat /\ Cardinality(B) <= Cardinality(A) + 1 + c
  BY <1>4, <1>5, <1>6, CardTwo
<1> HIDE DEF a, b, e
<1>9. (Cardinality(B) + b) + e <= (Cardinality(A) + a) + 2
  BY <1>6, <1>7, <1>8, SMTT(30)
<1> QED  BY <1>9 DEF Weight, A, B, a, b, e

-----------------------------------------------------------------------------
(* The bytes that are on the line or in the buffers.                       *)

ByteOk(m, b, k) ==
  /\ b.of \in 1..k /\ b.size \in Nat /\ b.at \in 1..b.size
  /\ b.byte = Terminator(m) /\ b.ok => b.at = b.size
Before(b, c) == b.of < c.of \/ (b.of = c.of /\ b.at < c.at /\ b.size = c.size)
Sorted(s) == \A i, j \in 1..Len(s) : i < j => Before(s[i], s[j])
\* The frames that are not in r and whose last byte is not in s.
Gone(s, k, r) == {n \in 1..k : n \notin r /\ \A i \in 1..Len(s) : ~(s[i].of = n /\ s[i].at = s[i].size)}
\* A terminator that nobody sent, and those of the places F that are not in s any more.
Fake(m, b) == b.byte = Terminator(m) /\ ~b.ok
Place(b) == <<b.of, b.at>>
Used(s, F) == {f \in F : \A i \in 1..Len(s) : Place(s[i]) # f}

\* Of k frames sent, with bytes s on the line, those in r were read or forgotten
\* and w read wrong; F is where the terminators are that nobody sent.
Sound(m, s, k, r, w, F) ==
  /\ \A i \in 1..Len(s) : ByteOk(m, s[i], k)
  /\ Sorted(s)
  /\ \A i \in 1..Len(s) : s[i].at = s[i].size => s[i].of \notin r
  /\ r \subseteq 1..k
  /\ IsFiniteSet(F) /\ F \subseteq (1..k) \X Nat
  /\ \A i \in 1..Len(s) : Fake(m, s[i]) => Place(s[i]) \in F
  /\ w \in Nat /\ w <= Cardinality(Gone(s, k, r)) + Cardinality(Used(s, F))

\* The frames whose end has passed can be counted.
LEMMA GoneFinite ==
  ASSUME NEW s, NEW k \in Nat, NEW r
  PROVE  IsFiniteSet(Gone(s, k, r)) /\ Cardinality(Gone(s, k, r)) \in Nat
<1>1. IsFiniteSet(1..k)
  BY FS_Interval
<1>2. Gone(s, k, r) \subseteq 1..k
  BY DEF Gone
<1>3. IsFiniteSet(Gone(s, k, r))
  BY <1>1, <1>2, FS_Subset
<1> QED  BY <1>3, FS_CardinalityType

\* The terminators that have passed can be counted.
LEMMA UsedFinite ==
  ASSUME NEW s, NEW F, IsFiniteSet(F)
  PROVE  /\ IsFiniteSet(Used(s, F)) /\ Cardinality(Used(s, F)) \in Nat /\ Cardinality(F) \in Nat
         /\ Cardinality(Used(s, F)) <= Cardinality(F)
<1>1. Used(s, F) \subseteq F
  BY DEF Used
<1>2. IsFiniteSet(Used(s, F)) /\ Cardinality(Used(s, F)) <= Cardinality(F)
  BY <1>1, FS_Subset
<1> QED  BY <1>2, FS_CardinalityType

AllOk(m, s, k) == \A i \in 1..Len(s) : ByteOk(m, s[i], k)

\* Nothing is twice on the line.
LEMMA SortedOnce ==
  ASSUME NEW m, NEW s, NEW k \in Nat, Sorted(s), AllOk(m, s, k),
         NEW i \in 1..Len(s), NEW j \in 1..Len(s), s[i].of = s[j].of
  PROVE  /\ s[i].size = s[j].size
         /\ i < j => s[i].at < s[j].at
         /\ s[i].at = s[j].at => i = j
<1>1. s[i].of \in Int /\ s[i].at \in Int /\ s[j].of \in Int /\ s[j].at \in Int /\ i \in Int /\ j \in Int
  BY DEF ByteOk, AllOk
<1>2. (i < j => Before(s[i], s[j])) /\ (j < i => Before(s[j], s[i]))
  BY DEF Sorted
<1> QED  BY <1>1, <1>2 DEF Before

\* A middle piece.
LEMMA MiddleOut ==
  ASSUME NEW S, NEW a \in Seq(S), NEW b \in Seq(S), NEW c \in Seq(S)
  PROVE  LET s == (a \o b) \o c
             t == a \o c
         IN  /\ \A i \in 1..Len(t) : \E j \in 1..Len(s) : t[i] = s[j]
             /\ \A i \in 1..Len(b) : \E j \in 1..Len(s) : b[i] = s[j]
             /\ Sorted(s) => Sorted(t)
             /\ Sorted(s) => \A i \in 1..Len(t), j \in 1..Len(b) : Before(t[i], b[j]) \/ Before(b[j], t[i])
<1> DEFINE s == (a \o b) \o c
           t == a \o c
           u == a \o b
<1>1. /\ u \in Seq(S) /\ Len(u) = Len(a) + Len(b) /\ Len(a) \in Nat /\ Len(b) \in Nat
      /\ \A i \in 1..Len(a) : u[i] = a[i]
      /\ \A i \in 1..Len(b) : u[Len(a) + i] = b[i]
  BY JoinedIs
<1> HIDE DEF u
<1>2. /\ u \o c \in Seq(S) /\ Len(u \o c) = Len(u) + Len(c) /\ Len(c) \in Nat
      /\ \A i \in 1..Len(u) : (u \o c)[i] = u[i]
      /\ \A i \in 1..Len(c) : (u \o c)[Len(u) + i] = c[i]
  <2>1. u \in Seq(S) /\ c \in Seq(S)
    BY <1>1
  <2> QED  BY <2>1, JoinedIs
<1>3. s = u \o c
  BY DEF u
<1>4. /\ t \in Seq(S) /\ Len(t) = Len(a) + Len(c)
      /\ \A i \in 1..Len(a) : t[i] = a[i]
      /\ \A i \in 1..Len(c) : t[Len(a) + i] = c[i]
  BY JoinedIs
<1> HIDE DEF s, t
<1>5. /\ Len(s) = Len(a) + Len(b) + Len(c)
      /\ \A i \in 1..Len(a) : s[i] = a[i]
      /\ \A i \in 1..Len(b) : s[Len(a) + i] = b[i]
      /\ \A i \in 1..Len(c) : s[Len(a) + Len(b) + i] = c[i]
  <2>1. \A i \in 1..Len(a) : i \in 1..Len(u)
    BY <1>1
  <2>2. \A i \in 1..Len(b) : Len(a) + i \in 1..Len(u)
    BY <1>1
  <2> QED  BY <1>1, <1>2, <1>3, <2>1, <2>2
<1> DEFINE f(i) == IF i <= Len(a) THEN i ELSE i + Len(b)
<1>6. \A i \in 1..Len(t) : f(i) \in 1..Len(s) /\ t[i] = s[f(i)]
  <2> SUFFICES ASSUME NEW i \in 1..Len(t)  PROVE  f(i) \in 1..Len(s) /\ t[i] = s[f(i)]
    OBVIOUS
  <2>1. CASE i <= Len(a)
    <3>1. i \in 1..Len(a) /\ i \in 1..Len(s)
      BY <1>1, <1>2, <1>4, <1>5, <2>1
    <3> QED  BY <1>4, <1>5, <2>1, <3>1
  <2>2. CASE ~(i <= Len(a))
    <3>1. /\ i - Len(a) \in 1..Len(c) /\ Len(a) + (i - Len(a)) = i
          /\ Len(a) + Len(b) + (i - Len(a)) = i + Len(b) /\ i + Len(b) \in 1..Len(s)
      BY <1>1, <1>2, <1>4, <1>5, <2>2
    <3>2. t[i] = c[i - Len(a)] /\ s[i + Len(b)] = c[i - Len(a)]
      BY <1>4, <1>5, <3>1
    <3> QED  BY <2>2, <3>1, <3>2
  <2> QED  BY <2>1, <2>2
<1>7. \A i, j \in 1..Len(t) : i < j => f(i) < f(j)
  BY <1>1, <1>2, <1>4
<1>8. \A i \in 1..Len(b) : Len(a) + i \in 1..Len(s) /\ b[i] = s[Len(a) + i]
  BY <1>1, <1>2, <1>5
<1>9. \A i \in 1..Len(t), j \in 1..Len(b) : f(i) < Len(a) + j \/ Len(a) + j < f(i)
  BY <1>1, <1>2, <1>4
<1> HIDE DEF f
<1>10. Sorted(s) => Sorted(t)
  <2> SUFFICES ASSUME Sorted(s), NEW i \in 1..Len(t), NEW j \in 1..Len(t), i < j
               PROVE  Before(t[i], t[j])
    BY DEF Sorted
  <2>1. f(i) \in 1..Len(s) /\ t[i] = s[f(i)] /\ f(j) \in 1..Len(s) /\ t[j] = s[f(j)] /\ f(i) < f(j)
    BY <1>6, <1>7
  <2> QED  BY <2>1 DEF Sorted
<1>11. Sorted(s) => \A i \in 1..Len(t), j \in 1..Len(b) : Before(t[i], b[j]) \/ Before(b[j], t[i])
  <2> SUFFICES ASSUME Sorted(s), NEW i \in 1..Len(t), NEW j \in 1..Len(b)
               PROVE  Before(t[i], b[j]) \/ Before(b[j], t[i])
    OBVIOUS
  <2>1. f(i) \in 1..Len(s) /\ t[i] = s[f(i)] /\ Len(a) + j \in 1..Len(s) /\ b[j] = s[Len(a) + j]
    BY <1>6, <1>8
  <2>2. f(i) < Len(a) + j \/ Len(a) + j < f(i)
    BY <1>9
  <2> QED  BY <2>1, <2>2 DEF Sorted
<1> QED  BY <1>6, <1>8, <1>10, <1>11 DEF s, t

\* The piece b is taken, with the last bytes of the frames in X, and of another
\* one if one more was read wrong.
\* The last bytes of the frames X are in b; the last byte of another is, too, or a
\* terminator that nobody sent.
Ended(b, X) == \A n \in X : \E i \in 1..Len(b) : b[i].of = n /\ b[i].at = b[i].size
Stray(m, b, X) ==
  \E i \in 1..Len(b) : (b[i].at = b[i].size /\ b[i].of \notin X) \/ Fake(m, b[i])

\* Bytes in the middle are taken away, decoded or forgotten.
LEMMA SoundOut ==
  ASSUME NEW m, NEW S, NEW a \in Seq(S), NEW b \in Seq(S), NEW c \in Seq(S),
         NEW k \in Nat, NEW r, NEW w, NEW F, Sound(m, (a \o b) \o c, k, r, w, F),
         NEW X, X \subseteq 1..k, Ended(b, X), NEW w2, w2 = w \/ (w2 = w + 1 /\ Stray(m, b, X))
  PROVE  Sound(m, a \o c, k, r \cup X, w2, F)
<1> DEFINE s == (a \o b) \o c
           t == a \o c
           A == Gone(s, k, r)
           B == Gone(t, k, r \cup X)
           G == Used(s, F)
           H == Used(t, F)
<1>1. /\ \A i \in 1..Len(t) : \E j \in 1..Len(s) : t[i] = s[j]
      /\ \A i \in 1..Len(b) : \E j \in 1..Len(s) : b[i] = s[j]
      /\ Sorted(s) => Sorted(t)
      /\ Sorted(s) => \A i \in 1..Len(t), j \in 1..Len(b) : Before(t[i], b[j]) \/ Before(b[j], t[i])
  BY MiddleOut
<1>2. /\ \A i \in 1..Len(s) : ByteOk(m, s[i], k)
      /\ Sorted(s)
      /\ \A i \in 1..Len(s) : s[i].at = s[i].size => s[i].of \notin r
      /\ r \subseteq 1..k
      /\ IsFiniteSet(F) /\ F \subseteq (1..k) \X Nat
      /\ \A i \in 1..Len(s) : Fake(m, s[i]) => Place(s[i]) \in F
      /\ w \in Nat /\ w <= Cardinality(A) + Cardinality(G)
  BY DEF Sound
<1> HIDE DEF s, t
<1>3. \A i \in 1..Len(t) : ByteOk(m, t[i], k)
  BY <1>1, <1>2
<1>4. \A i \in 1..Len(b) : ByteOk(m, b[i], k)
  BY <1>1, <1>2
\* The frame whose last byte is in b has none in t.
<1>5. ASSUME NEW i \in 1..Len(t), NEW j \in 1..Len(b), t[i].of = b[j].of, b[j].at = b[j].size
      PROVE  t[i].at # t[i].size
  <2>1. Before(t[i], b[j]) \/ Before(b[j], t[i])
    BY <1>1, <1>2
  <2>2. t[i].of \in Int /\ t[i].at \in Int /\ b[j].at \in Int
    BY <1>3, <1>4 DEF ByteOk
  <2> QED  BY <1>5, <2>1, <2>2 DEF Before
<1>6. ASSUME NEW i \in 1..Len(t), t[i].at = t[i].size  PROVE  t[i].of \notin r \cup X
  <2>1. t[i].of \notin r
    <3>1. PICK j \in 1..Len(s) : t[i] = s[j]
      BY <1>1
    <3> QED  BY <1>2, <1>6, <3>1
  <2>2. t[i].of \notin X
    BY <1>5, <1>6 DEF Ended
  <2> QED  BY <2>1, <2>2
<1>7. A \subseteq B
  <2> SUFFICES ASSUME NEW n \in A  PROVE  n \in B
    OBVIOUS
  <2>1. n \in 1..k /\ n \notin r /\ \A i \in 1..Len(s) : ~(s[i].of = n /\ s[i].at = s[i].size)
    BY DEF Gone
  <2>2. n \notin X
    BY <1>1, <2>1 DEF Ended
  <2>3. \A i \in 1..Len(t) : ~(t[i].of = n /\ t[i].at = t[i].size)
    BY <1>1, <2>1
  <2> QED  BY <2>1, <2>2, <2>3 DEF Gone
<1>8. IsFiniteSet(A) /\ IsFiniteSet(B) /\ Cardinality(A) \in Nat /\ Cardinality(B) \in Nat
  BY GoneFinite
<1>a. IsFiniteSet(G) /\ IsFiniteSet(H) /\ Cardinality(G) \in Nat /\ Cardinality(H) \in Nat
  BY <1>2, UsedFinite
<1>b. G \subseteq H
  BY <1>1 DEF Used
<1> HIDE DEF A, B, G, H
<1>9. Cardinality(A) <= Cardinality(B) /\ Cardinality(G) <= Cardinality(H)
  BY <1>7, <1>8, <1>a, <1>b, FS_Subset
<1>10. ASSUME NEW i \in 1..Len(b), b[i].at = b[i].size, b[i].of \notin X
       PROVE  Cardinality(A) + 1 <= Cardinality(B)
  <2>1. b[i].at = b[i].size /\ b[i].of \notin X
    BY <1>10
  <2>2. PICK l \in 1..Len(s) : b[i] = s[l]
    BY <1>1
  <2> DEFINE n == b[i].of
  <2>3. n \in 1..k /\ n \notin r /\ n \notin A
    BY <1>2, <1>4, <2>1, <2>2 DEF A, Gone, ByteOk
  <2>4. \A j \in 1..Len(t) : ~(t[j].of = n /\ t[j].at = t[j].size)
    BY <1>5, <2>1
  <2>5. n \in B
    BY <2>1, <2>3, <2>4 DEF B, Gone
  <2> HIDE DEF n
  <2>6. Cardinality(A \cup {n}) = Cardinality(A) + 1 /\ IsFiniteSet(A \cup {n})
    BY <1>8, <2>3, FS_AddElement
  <2>7. A \cup {n} \subseteq B
    BY <1>7, <2>5
  <2>8. Cardinality(A \cup {n}) <= Cardinality(B)
    BY <1>8, <2>7, FS_Subset
  <2> QED  BY <2>6, <2>8
\* A place is left once.
<1>c. ASSUME NEW i \in 1..Len(b), Fake(m, b[i])  PROVE  Cardinality(G) + 1 <= Cardinality(H)
  <2> DEFINE f == Place(b[i])
  <2>1. PICK l \in 1..Len(s) : b[i] = s[l]
    BY <1>1
  <2>2. f \in F /\ f \notin G
    BY <1>2, <1>c, <2>1 DEF G, Used
  <2>3. \A j \in 1..Len(t) : Place(t[j]) # f
    <3> SUFFICES ASSUME NEW j \in 1..Len(t), Place(t[j]) = Place(b[i])  PROVE  FALSE
      OBVIOUS
    <3>1. t[j].of = b[i].of /\ t[j].at = b[i].at
      BY DEF Place
    <3>2. Before(t[j], b[i]) \/ Before(b[i], t[j])
      BY <1>1, <1>2
    <3>3. t[j].of \in Int /\ t[j].at \in Int
      BY <1>3 DEF ByteOk
    <3> QED  BY <3>1, <3>2, <3>3 DEF Before
  <2>4. f \in H
    BY <2>2, <2>3 DEF H, Used
  <2> HIDE DEF f
  <2>5. Cardinality(G \cup {f}) = Cardinality(G) + 1 /\ IsFiniteSet(G \cup {f})
    BY <1>a, <2>2, FS_AddElement
  <2>6. G \cup {f} \subseteq H
    BY <1>b, <2>4
  <2>7. Cardinality(G \cup {f}) <= Cardinality(H)
    BY <1>a, <2>6, FS_Subset
  <2> QED  BY <2>5, <2>7
<1>11. w2 \in Nat /\ w2 <= Cardinality(B) + Cardinality(H)
  <2>1. CASE w2 = w
    BY <1>2, <1>8, <1>9, <1>a, <2>1
  <2>2. CASE w2 # w
    <3>1. w2 = w + 1 /\ Stray(m, b, X)
      BY <2>2
    <3>2. PICK i \in 1..Len(b) : (b[i].at = b[i].size /\ b[i].of \notin X) \/ Fake(m, b[i])
      BY <3>1 DEF Stray
    <3>3. Cardinality(A) + 1 <= Cardinality(B) \/ Cardinality(G) + 1 <= Cardinality(H)
      BY <1>10, <1>c, <3>2
    <3> QED  BY <1>2, <1>8, <1>9, <1>a, <3>1, <3>3
  <2> QED  BY <2>1, <2>2
<1>d. \A i \in 1..Len(t) : Fake(m, t[i]) => Place(t[i]) \in F
  BY <1>1, <1>2
<1>12. r \cup X \subseteq 1..k /\ Sorted(t)
  BY <1>1, <1>2
<1> QED  BY <1>2, <1>3, <1>6, <1>11, <1>12, <1>d DEF Sound, t, B, H

\* A byte is lost.
LEMMA SoundLose ==
  ASSUME NEW m, NEW S, NEW s \in Seq(S), NEW p \in 1..Len(s),
         NEW k \in Nat, NEW r, NEW w, NEW F, Sound(m, s, k, r, w, F)
  PROVE  Sound(m, RemoveAt(s, p), k, r, w, F)
<1> DEFINE t == RemoveAt(s, p)
           A == Gone(s, k, r)
           B == Gone(t, k, r)
           G == Used(s, F)
           H == Used(t, F)
           f(i) == IF i < p THEN i ELSE i + 1
<1>1. /\ Len(t) = Len(s) - 1 /\ Len(s) \in Nat
      /\ \A i \in 1..p - 1 : t[i] = s[i]
      /\ \A i \in p..Len(s) - 1 : t[i] = s[i + 1]
  BY RemoveAtIs
<1> HIDE DEF t
<1>2. /\ \A i \in 1..Len(s) : ByteOk(m, s[i], k)
      /\ Sorted(s)
      /\ \A i \in 1..Len(s) : s[i].at = s[i].size => s[i].of \notin r
      /\ r \subseteq 1..k
      /\ IsFiniteSet(F) /\ F \subseteq (1..k) \X Nat
      /\ \A i \in 1..Len(s) : Fake(m, s[i]) => Place(s[i]) \in F
      /\ w \in Nat /\ w <= Cardinality(A) + Cardinality(G)
  BY DEF Sound
<1>3. \A i \in 1..Len(t) : f(i) \in 1..Len(s) /\ t[i] = s[f(i)]
  <2> SUFFICES ASSUME NEW i \in 1..Len(t)  PROVE  f(i) \in 1..Len(s) /\ t[i] = s[f(i)]
    OBVIOUS
  <2>1. CASE i < p
    <3>1. i \in 1..p - 1 /\ i \in 1..Len(s)
      BY <1>1, <2>1
    <3> QED  BY <1>1, <2>1, <3>1
  <2>2. CASE ~(i < p)
    <3>1. i \in p..Len(s) - 1 /\ i + 1 \in 1..Len(s)
      BY <1>1, <2>2
    <3> QED  BY <1>1, <2>2, <3>1
  <2> QED  BY <2>1, <2>2
<1>4. \A i, j \in 1..Len(t) : i < j => f(i) < f(j)
  BY <1>1
<1> HIDE DEF f
<1>5. Sorted(t)
  <2> SUFFICES ASSUME NEW i \in 1..Len(t), NEW j \in 1..Len(t), i < j  PROVE  Before(t[i], t[j])
    BY DEF Sorted
  <2>1. f(i) \in 1..Len(s) /\ t[i] = s[f(i)] /\ f(j) \in 1..Len(s) /\ t[j] = s[f(j)] /\ f(i) < f(j)
    BY <1>3, <1>4
  <2> QED  BY <1>2, <2>1 DEF Sorted
<1>6. \A i \in 1..Len(t) : /\ ByteOk(m, t[i], k) /\ (t[i].at = t[i].size => t[i].of \notin r)
                           /\ Fake(m, t[i]) => Place(t[i]) \in F
  BY <1>2, <1>3
<1>7. A \subseteq B
  BY <1>3 DEF Gone
<1>8. IsFiniteSet(A) /\ IsFiniteSet(B) /\ Cardinality(A) \in Nat /\ Cardinality(B) \in Nat
  BY GoneFinite
<1>a. IsFiniteSet(G) /\ IsFiniteSet(H) /\ Cardinality(G) \in Nat /\ Cardinality(H) \in Nat
  BY <1>2, UsedFinite
<1>b. G \subseteq H
  BY <1>3 DEF Used
<1> HIDE DEF A, B, G, H
<1>9. Cardinality(A) <= Cardinality(B) /\ Cardinality(G) <= Cardinality(H)
  BY <1>7, <1>8, <1>a, <1>b, FS_Subset
<1>10. w \in Nat /\ w <= Cardinality(B) + Cardinality(H)
  BY <1>2, <1>8, <1>9, <1>a
<1> QED  BY <1>2, <1>5, <1>6, <1>10 DEF Sound, t, B, H

\* A byte is garbled.
LEMMA SoundGarble ==
  ASSUME NEW m, NEW S, NEW s \in Seq(S), NEW t \in Seq(S), NEW p \in 1..Len(s), Changed(s, t, p),
         NEW k \in Nat, NEW r, NEW w, NEW F, Sound(m, s, k, r, w, F),
         NEW F2, F2 = IF t[p].byte = Terminator(m) THEN F \cup {Place(s[p])} ELSE F
  PROVE  Sound(m, t, k, r, w, F2)
<1> DEFINE A == Gone(s, k, r)
           B == Gone(t, k, r)
           G == Used(s, F)
           H == Used(t, F2)
<1>1. /\ Len(t) = Len(s) /\ Len(s) \in Nat
      /\ \A i \in 1..Len(s) : i # p => t[i] = s[i]
      /\ \A i \in 1..Len(s) : t[i].of = s[i].of /\ t[i].at = s[i].at /\ t[i].size = s[i].size
      /\ ~t[p].ok
  BY DEF Changed
<1>2. /\ \A i \in 1..Len(s) : ByteOk(m, s[i], k)
      /\ Sorted(s)
      /\ \A i \in 1..Len(s) : s[i].at = s[i].size => s[i].of \notin r
      /\ r \subseteq 1..k
      /\ IsFiniteSet(F) /\ F \subseteq (1..k) \X Nat
      /\ \A i \in 1..Len(s) : Fake(m, s[i]) => Place(s[i]) \in F
      /\ w \in Nat /\ w <= Cardinality(A) + Cardinality(G)
  BY DEF Sound
<1>3. ASSUME NEW i \in 1..Len(t)  PROVE  ByteOk(m, t[i], k)
  <2>1. ByteOk(m, s[i], k)
    BY <1>1, <1>2
  <2>2. CASE i = p
    BY <1>1, <2>1, <2>2 DEF ByteOk
  <2>3. CASE i # p
    BY <1>1, <2>1, <2>3
  <2> QED  BY <2>2, <2>3
<1>4. Sorted(t)
  BY <1>1, <1>2 DEF Sorted, Before
<1>5. \A i \in 1..Len(t) : t[i].at = t[i].size => t[i].of \notin r
  BY <1>1, <1>2
<1>6. B = A
  BY <1>1 DEF Gone
<1>7. \A i \in 1..Len(t) : Place(t[i]) = Place(s[i])
  BY <1>1 DEF Place
<1>8. F \subseteq F2
  OBVIOUS
<1>9. Place(s[p]) \in (1..k) \X Nat
  BY <1>2 DEF ByteOk, Place
<1>10. IsFiniteSet(F2) /\ F2 \subseteq (1..k) \X Nat
  <2>1. IsFiniteSet(F \cup {Place(s[p])})
    BY <1>2, FS_AddElement
  <2> QED  BY <1>2, <1>9, <2>1
<1>11. ASSUME NEW i \in 1..Len(t), Fake(m, t[i])  PROVE  Place(t[i]) \in F2
  <2>1. CASE i = p
    <3>1. t[p].byte = Terminator(m)
      BY <1>11, <2>1 DEF Fake
    <3> QED  BY <1>7, <2>1, <3>1
  <2>2. CASE i # p
    <3>1. t[i] = s[i] /\ i \in 1..Len(s)
      BY <1>1, <2>2
    <3> QED  BY <1>2, <1>8, <1>11, <3>1
  <2> QED  BY <2>1, <2>2
<1>12. G \subseteq H
  BY <1>1, <1>7, <1>8 DEF Used
<1>13. /\ Cardinality(A) \in Nat /\ Cardinality(G) \in Nat /\ Cardinality(H) \in Nat /\ IsFiniteSet(H)
  BY <1>2, <1>10, GoneFinite, UsedFinite
<1> HIDE DEF A, B, G, H
<1>14. Cardinality(G) <= Cardinality(H)
  BY <1>12, <1>13, FS_Subset
<1>15. w \in Nat /\ w <= Cardinality(B) + Cardinality(H)
  BY <1>2, <1>6, <1>13, <1>14
<1> QED  BY <1>2, <1>3, <1>4, <1>5, <1>10, <1>11, <1>15 DEF Sound, B, H

\* A frame is sent.
LEMMA SoundSay ==
  ASSUME NEW m, NEW S, NEW s \in Seq(S), NEW t \in Seq(S),
         NEW k \in Nat, NEW r, NEW w, NEW F, Sound(m, s, k, r, w, F),
         \A i \in 1..Len(t) : /\ t[i].of = k + 1 /\ t[i].at = i /\ t[i].size = Len(t)
                              /\ t[i].ok
                              /\ t[i].byte = Terminator(m) => i = Len(t)
  PROVE  Sound(m, s \o t, k + 1, r, w, F)
<1> DEFINE u == s \o t
           A == Gone(s, k, r)
           B == Gone(u, k + 1, r)
           G == Used(s, F)
           H == Used(u, F)
<1>1. /\ Len(u) = Len(s) + Len(t) /\ Len(s) \in Nat /\ Len(t) \in Nat
      /\ \A i \in 1..Len(s) : u[i] = s[i]
      /\ \A i \in 1..Len(t) : u[Len(s) + i] = t[i]
  BY JoinedIs
<1> HIDE DEF u
<1>2. /\ \A i \in 1..Len(s) : ByteOk(m, s[i], k)
      /\ Sorted(s)
      /\ \A i \in 1..Len(s) : s[i].at = s[i].size => s[i].of \notin r
      /\ r \subseteq 1..k
      /\ IsFiniteSet(F) /\ F \subseteq (1..k) \X Nat
      /\ \A i \in 1..Len(s) : Fake(m, s[i]) => Place(s[i]) \in F
      /\ w \in Nat /\ w <= Cardinality(A) + Cardinality(G)
  BY DEF Sound
<1>3. \A i \in 1..Len(u) : \/ i \in 1..Len(s) /\ u[i] = s[i]
                           \/ i > Len(s) /\ i - Len(s) \in 1..Len(t) /\ u[i] = t[i - Len(s)]
  <2> SUFFICES ASSUME NEW i \in 1..Len(u), ~(i \in 1..Len(s))
               PROVE  i > Len(s) /\ i - Len(s) \in 1..Len(t) /\ u[i] = t[i - Len(s)]
    BY <1>1
  <2>1. i > Len(s) /\ i - Len(s) \in 1..Len(t) /\ Len(s) + (i - Len(s)) = i
    BY <1>1
  <2> QED  BY <1>1, <2>1
<1>4. ASSUME NEW i \in 1..Len(s)  PROVE  ByteOk(m, s[i], k + 1) /\ s[i].of \in 1..k
  BY <1>2 DEF ByteOk
<1>5. ASSUME NEW i \in 1..Len(t)  PROVE  ByteOk(m, t[i], k + 1)
  BY <1>1 DEF ByteOk
<1>6. \A i \in 1..Len(u) : ByteOk(m, u[i], k + 1)
  BY <1>3, <1>4, <1>5
<1>7. Sorted(u)
  <2> SUFFICES ASSUME NEW i \in 1..Len(u), NEW j \in 1..Len(u), i < j  PROVE  Before(u[i], u[j])
    BY DEF Sorted
  <2>1. CASE i \in 1..Len(s) /\ j \in 1..Len(s)
    BY <1>1, <1>2, <2>1 DEF Sorted
  <2>2. CASE i \in 1..Len(s) /\ j > Len(s)
    <3>1. u[j] = t[j - Len(s)] /\ j - Len(s) \in 1..Len(t) /\ u[i] = s[i]
      BY <1>1, <1>3, <2>2
    <3>2. u[j].of = k + 1 /\ u[i].of \in 1..k
      BY <1>4, <2>2, <3>1
    <3> QED  BY <3>2 DEF Before
  <2>3. CASE i > Len(s)
    <3>1. /\ u[j] = t[j - Len(s)] /\ j - Len(s) \in 1..Len(t)
          /\ u[i] = t[i - Len(s)] /\ i - Len(s) \in 1..Len(t)
      BY <1>1, <1>3, <2>3
    <3>2. /\ u[j].of = k + 1 /\ u[i].of = k + 1 /\ u[i].size = u[j].size
          /\ u[i].at = i - Len(s) /\ u[j].at = j - Len(s)
      BY <3>1, SMTT(30)
    <3>3. i - Len(s) < j - Len(s)
      BY <1>1, <2>3
    <3> QED  BY <3>2, <3>3 DEF Before
  <2> QED  BY <1>1, <2>1, <2>2, <2>3
<1>8. ASSUME NEW i \in 1..Len(u), u[i].at = u[i].size  PROVE  u[i].of \notin r
  <2>1. CASE i \in 1..Len(s)
    BY <1>1, <1>2, <1>8, <2>1
  <2>2. CASE i > Len(s)
    <3>1. i - Len(s) \in 1..Len(t) /\ u[i] = t[i - Len(s)]
      BY <1>1, <1>3, <2>2
    <3>2. u[i].of = k + 1
      BY <3>1
    <3> QED  BY <1>2, <3>2
  <2> QED  BY <1>1, <2>1, <2>2
<1>9. A \subseteq B
  <2> SUFFICES ASSUME NEW n \in A  PROVE  n \in B
    OBVIOUS
  <2>1. n \in 1..k /\ n \notin r /\ \A i \in 1..Len(s) : ~(s[i].of = n /\ s[i].at = s[i].size)
    BY DEF Gone
  <2>2. n \in 1..k + 1 /\ n # k + 1
    BY <2>1
  <2>3. ASSUME NEW i \in 1..Len(u)  PROVE  ~(u[i].of = n /\ u[i].at = u[i].size)
    <3>1. CASE i \in 1..Len(s)
      BY <1>1, <2>1, <3>1
    <3>2. CASE i > Len(s)
      <4>1. i - Len(s) \in 1..Len(t) /\ u[i] = t[i - Len(s)]
        BY <1>1, <1>3, <3>2
      <4> QED  BY <2>2, <4>1
    <3> QED  BY <1>1, <3>1, <3>2
  <2> QED  BY <2>1, <2>2, <2>3 DEF Gone
<1>10. IsFiniteSet(A) /\ IsFiniteSet(B) /\ Cardinality(A) \in Nat /\ Cardinality(B) \in Nat
  BY GoneFinite
<1>a. IsFiniteSet(G) /\ IsFiniteSet(H) /\ Cardinality(G) \in Nat /\ Cardinality(H) \in Nat
  BY <1>2, UsedFinite
\* What is new is nowhere in F, and nobody has made it a terminator.
<1>b. ASSUME NEW i \in 1..Len(u)  PROVE  \/ \E l \in 1..Len(s) : u[i] = s[l]
                                         \/ Place(u[i]) \notin F /\ ~Fake(m, u[i])
  <2>1. CASE i \in 1..Len(s)
    BY <1>1, <2>1
  <2>2. CASE i > Len(s)
    <3>1. i - Len(s) \in 1..Len(t) /\ u[i] = t[i - Len(s)]
      BY <1>1, <1>3, <2>2
    <3>2. u[i].of = k + 1 /\ u[i].ok
      <4>1. t[i - Len(s)].of = k + 1 /\ t[i - Len(s)].ok
        BY <3>1
      <4> QED  BY <3>1, <4>1
    <3>3. k + 1 \notin 1..k
      OBVIOUS
    <3>4. Place(u[i]) \notin (1..k) \X Nat
      BY <3>2, <3>3 DEF Place
    <3> QED  BY <1>2, <3>2, <3>4 DEF Fake
  <2> QED  BY <1>1, <2>1, <2>2
<1>c. \A i \in 1..Len(u) : Fake(m, u[i]) => Place(u[i]) \in F
  BY <1>2, <1>b
<1>d. G \subseteq H
  BY <1>b DEF Used
<1>e. F \subseteq (1..k + 1) \X Nat
  <2>1. 1..k \subseteq 1..k + 1
    OBVIOUS
  <2> QED  BY <1>2, <2>1
<1> HIDE DEF A, B, G, H
<1>11. Cardinality(A) <= Cardinality(B) /\ Cardinality(G) <= Cardinality(H)
  BY <1>9, <1>10, <1>a, <1>d, FS_Subset
<1>12. w \in Nat /\ w <= Cardinality(B) + Cardinality(H) /\ r \subseteq 1..k + 1
  BY <1>2, <1>10, <1>11, <1>a
<1> QED  BY <1>2, <1>6, <1>7, <1>8, <1>12, <1>c, <1>e DEF Sound, u, B, H

\* A piece of what is sorted is sorted.
LEMMA MiddleSorted ==
  ASSUME NEW S, NEW a \in Seq(S), NEW b \in Seq(S), NEW c \in Seq(S), Sorted((a \o b) \o c)
  PROVE  Sorted(b)
<1> DEFINE u == a \o b
           s == u \o c
<1>1. /\ u \in Seq(S) /\ Len(u) = Len(a) + Len(b) /\ Len(a) \in Nat /\ Len(b) \in Nat
      /\ \A i \in 1..Len(b) : u[Len(a) + i] = b[i]
  BY JoinedIs
<1> HIDE DEF u
<1>2. /\ Len(s) = Len(u) + Len(c) /\ Len(c) \in Nat
      /\ \A i \in 1..Len(u) : s[i] = u[i]
  <2>1. u \in Seq(S) /\ c \in Seq(S)
    BY <1>1
  <2> QED  BY <2>1, JoinedIs
<1>3. Sorted(s)
  BY DEF u
<1> HIDE DEF s
<1>4. \A i \in 1..Len(b) : Len(a) + i \in 1..Len(s) /\ s[Len(a) + i] = b[i]
  <2> SUFFICES ASSUME NEW i \in 1..Len(b)  PROVE  Len(a) + i \in 1..Len(s) /\ s[Len(a) + i] = b[i]
    OBVIOUS
  <2>1. Len(a) + i \in 1..Len(u) /\ Len(a) + i \in 1..Len(s)
    BY <1>1, <1>2
  <2> QED  BY <1>1, <1>2, <2>1
<1> SUFFICES ASSUME NEW i \in 1..Len(b), NEW j \in 1..Len(b), i < j  PROVE  Before(b[i], b[j])
  BY DEF Sorted
<1>5. /\ Len(a) + i \in 1..Len(s) /\ s[Len(a) + i] = b[i]
      /\ Len(a) + j \in 1..Len(s) /\ s[Len(a) + j] = b[j] /\ Len(a) + i < Len(a) + j
  BY <1>1, <1>4
<1> QED  BY <1>3, <1>5 DEF Sorted

-----------------------------------------------------------------------------
(* Frames that are whole in a buffer.                                      *)

Mine(buf, n) == {i \in DOMAIN buf : buf[i].of = n}

\* A frame is inside a buffer if as many of its bytes are there as it has.
LEMMA InsideIs ==
  ASSUME NEW S, NEW buf \in Seq(S), NEW n, NEW z \in Nat, Mine(buf, n) # {},
         \A i \in Mine(buf, n) : buf[i].size = z
  PROVE  n \in Inside(buf) <=> n \in 1..sent /\ Cardinality(Mine(buf, n)) = z
<1> DEFINE T == {0} \cup {buf[i].size : i \in {j \in DOMAIN buf : buf[j].of = n}}
<1>1. T = {0, z}
  BY DEF Mine
<1>2. \A x \in {0, z} : z >= x
  OBVIOUS
<1>3. Max({0, z}) = z
  <2>1. \E x \in {0, z} : \A y \in {0, z} : x >= y
    BY <1>2
  <2>2. Max({0, z}) \in {0, z} /\ \A y \in {0, z} : Max({0, z}) >= y
    BY <2>1 DEF Max
  <2> QED  BY <2>2
<1>4. Max(T) = z
  BY <1>1, <1>3
<1>5. \E i \in DOMAIN buf : buf[i].of = n
  BY DEF Mine
<1> QED  BY <1>4, <1>5 DEF Inside, Mine

\* The bytes of a buffer.
Good(m, buf) == Sorted(buf) /\ AllOk(m, buf, sent)

\* The last byte of a frame that is inside is there.
LEMMA InsideEnds ==
  ASSUME NEW m, NEW S, NEW buf \in Seq(S), sent \in Nat, Good(m, buf), NEW n \in Inside(buf)
  PROVE  \E i \in 1..Len(buf) : buf[i].of = n /\ buf[i].at = buf[i].size
<1> DEFINE I == Mine(buf, n)
<1>0. DOMAIN buf = 1..Len(buf) /\ Len(buf) \in Nat
  OBVIOUS
<1>1. I # {} /\ n \in 1..sent
  BY DEF Inside, Mine
<1>2. PICK l \in I : TRUE
  BY <1>1
<1> DEFINE z == buf[l].size
<1>3. l \in 1..Len(buf) /\ z \in Nat /\ buf[l].of = n /\ buf[l].at \in 1..z
  BY <1>0, <1>2 DEF Mine, Good, AllOk, ByteOk
<1>4. \A i \in I : i \in 1..Len(buf) /\ buf[i].of = n /\ buf[i].size = z /\ buf[i].at \in 1..z
  <2> SUFFICES ASSUME NEW i \in I
               PROVE  i \in 1..Len(buf) /\ buf[i].of = n /\ buf[i].size = z /\ buf[i].at \in 1..z
    OBVIOUS
  <2>1. i \in 1..Len(buf) /\ buf[i].of = n /\ buf[i].at \in 1..buf[i].size
    BY <1>0 DEF Mine, Good, AllOk, ByteOk
  <2>2. Sorted(buf) /\ AllOk(m, buf, sent)
    BY DEF Good
  <2>3. buf[i].size = z
    BY <1>3, <2>1, <2>2, SortedOnce
  <2> QED  BY <2>1, <2>3
<1>5. Cardinality(I) = z
  <2> HIDE DEF I, z
  <2> QED  BY <1>1, <1>3, <1>4, InsideIs DEF I
<1> SUFFICES ASSUME \A i \in I : buf[i].at # z  PROVE  FALSE
  <2>1. PICK i \in I : buf[i].at = z
    OBVIOUS
  <2> QED  BY <1>4, <2>1
<1> DEFINE f == [i \in I |-> buf[i].at]
           T == 1..z - 1
<1>6. f \in [I -> T]
  <2> HIDE DEF I, z
  <2>1. \A i \in I : buf[i].at \in 1..z - 1
    BY <1>3, <1>4
  <2> QED  BY <2>1
<1>7. \A a, b \in I : f[a] = f[b] => a = b
  <2> SUFFICES ASSUME NEW a \in I, NEW b \in I, buf[a].at = buf[b].at  PROVE  a = b
    OBVIOUS
  <2>1. a \in 1..Len(buf) /\ b \in 1..Len(buf) /\ buf[a].of = buf[b].of
    BY <1>4
  <2>2. Sorted(buf) /\ AllOk(m, buf, sent)
    BY DEF Good
  <2> QED  BY <2>1, <2>2, SortedOnce
<1> HIDE DEF f, I
<1>8. f \in Injection(I, T)
  BY <1>6, <1>7 DEF Injection, IsInjective
<1>9. IsFiniteSet(T) /\ Cardinality(T) = z - 1
  <2>1. 1 \in Int /\ z \in Int /\ z - 1 \in Int /\ z >= 1
    BY <1>3
  <2> HIDE DEF z
  <2>2. IsFiniteSet(1..z - 1) /\ Cardinality(1..z - 1) = IF 1 > z - 1 THEN 0 ELSE z - 1 - 1 + 1
    BY <2>1, FS_Interval
  <2> QED  BY <2>1, <2>2
<1>10. Cardinality(I) <= z - 1
  <2> HIDE DEF T
  <2> QED  BY <1>8, <1>9, FS_Injection
<1> QED  BY <1>3, <1>5, <1>10

\* A frame that lies in a buffer is inside.
LEMMA InsideHas ==
  ASSUME NEW m, NEW S, NEW buf \in Seq(S), sent \in Nat, Good(m, buf),
         NEW j \in 1..Len(buf), NEW k \in 1..Len(buf), j <= k, NEW n, Lies(n, buf, j, k)
  PROVE  n \in Inside(buf)
<1> DEFINE I == Mine(buf, n)
           z == k - j + 1
<1>0. DOMAIN buf = 1..Len(buf) /\ Len(buf) \in Nat /\ j \in Int /\ k \in Int
  OBVIOUS
<1>1. Sorted(buf) /\ AllOk(m, buf, sent)
  BY DEF Good
<1>2. \A i \in j..k : i \in 1..Len(buf) /\ buf[i].of = n /\ buf[i].size = z /\ buf[i].at = i - j + 1
  BY <1>0 DEF Lies
<1>3. z \in Nat /\ j \in j..k /\ k \in j..k
  BY <1>0
<1>4. n \in 1..sent
  BY <1>1, <1>2, <1>3 DEF AllOk, ByteOk
<1>5. ASSUME NEW i \in I  PROVE  i \in j..k
  <2>1. i \in 1..Len(buf) /\ buf[i].of = n
    BY <1>0 DEF Mine
  <2>2. buf[i].at \in 1..buf[i].size /\ buf[i].size \in Nat
    BY <1>1, <2>1 DEF AllOk, ByteOk
  <2>3. buf[j].of = n /\ buf[j].at = 1 /\ buf[k].of = n /\ buf[k].at = z /\ buf[k].size = z
    BY <1>0, <1>2, <1>3
  <2>4. ~(i < j)
    <3> SUFFICES ASSUME i < j  PROVE  FALSE
      OBVIOUS
    <3>1. buf[i].at < buf[j].at
      BY <1>1, <2>1, <2>3, SortedOnce
    <3> QED  BY <2>2, <2>3, <3>1
  <2>5. ~(k < i)
    <3> SUFFICES ASSUME k < i  PROVE  FALSE
      OBVIOUS
    <3>1. buf[k].at < buf[i].at /\ buf[i].size = buf[k].size
      BY <1>1, <2>1, <2>3, SortedOnce
    <3> HIDE DEF z
    <3> QED  BY <1>3, <2>2, <2>3, <3>1
  <2> QED  BY <1>0, <2>1, <2>4, <2>5
<1>6. I = j..k
  <2>1. \A i \in j..k : i \in I
    BY <1>0, <1>2 DEF Mine
  <2> HIDE DEF I
  <2> QED  BY <1>5, <2>1
<1>7. Cardinality(I) = z
  <2>1. Cardinality(j..k) = z
    BY <1>0, FS_Interval
  <2> QED  BY <1>6, <2>1
<1>8. I # {} /\ \A i \in I : buf[i].size = z
  BY <1>2, <1>3, <1>6
<1> HIDE DEF z, I
<1> QED  BY <1>3, <1>4, <1>7, <1>8, InsideIs DEF I

\* A frame of which the last byte of a buffer is not the last is not.
LEMMA PartialHas ==
  ASSUME NEW m, NEW S, NEW buf \in Seq(S), sent \in Nat, Good(m, buf), buf # <<>>,
         buf[Len(buf)].at < buf[Len(buf)].size
  PROVE  Partial(buf)
<1> DEFINE L == Len(buf)
           n == buf[L].of
<1>1. L \in 1..Len(buf) /\ L \in DOMAIN buf
  OBVIOUS
<1>2. n \notin Inside(buf)
  <2> SUFFICES ASSUME n \in Inside(buf)  PROVE  FALSE
    OBVIOUS
  <2>1. PICK i \in 1..Len(buf) : buf[i].of = n /\ buf[i].at = buf[i].size
    BY InsideEnds
  <2>2. Sorted(buf) /\ AllOk(m, buf, sent)
    BY DEF Good
  <2>3. buf[i].size = buf[L].size /\ (i < L => buf[i].at < buf[L].at)
    BY <1>1, <2>1, <2>2, SortedOnce
  <2>4. buf[i].at \in Int /\ buf[L].at \in Int /\ buf[L].size \in Int
    BY <1>1, <2>1, <2>2 DEF AllOk, ByteOk
  <2>5. i = L \/ i < L
    OBVIOUS
  <2> QED  BY <2>1, <2>3, <2>4, <2>5
<1> QED  BY <1>1, <1>2 DEF Partial

-----------------------------------------------------------------------------
(* A line on which nothing was damaged.                                    *)

\* Byte c can follow byte b.
Join(b, c) == IF b.at = b.size THEN c.at = 1 ELSE c.of = b.of /\ c.at = b.at + 1 /\ c.size = b.size
Faithful(m, s) ==
  \A l \in 1..Len(s) : \E f \in Frames(m) : \A i \in 1..Len(s) :
     s[i].of = s[l].of => s[i].size = Len(f) /\ s[i].byte = f[s[i].at]
Undamaged(m, s) ==
  /\ \A i \in 1..Len(s) : s[i].ok
  /\ \A i \in 1..Len(s) - 1 : Join(s[i], s[i + 1])
  /\ s # <<>> => s[Len(s)].at = s[Len(s)].size
  /\ Faithful(m, s)

\* The frames of a make have the form of its encoder (FramesAssumption).
LEMMA FrameIs ==
  ASSUME NEW m \in Makes, NEW f \in Frames(m)
  PROVE  /\ f \in Seq(Byte) /\ Len(f) \in Nat /\ Len(f) >= 1
         /\ f[Len(f)] = Terminator(m) /\ \A i \in 1..Len(f) - 1 : f[i] # Terminator(m)
         /\ m = "icom" => /\ Len(f) >= 6 /\ f[1] = "FE" /\ f[2] = "FE"
                          /\ \A i \in 3..Len(f) - 1 : f[i] \notin {"FE", "FD", "FC"}
<1>1. f \in Seq(Byte) /\ WellFormed(m, f)
  <2>1. f \in Seq(STRING) /\ WellFormed(m, f)
    BY FramesAssumption
  <2>2. STRING \subseteq Byte
    BY DEF Byte
  <2>3. Len(f) \in Nat /\ f = [i \in 1..Len(f) |-> f[i]]
    BY <2>1
  <2>4. \A i \in 1..Len(f) : f[i] \in STRING
    BY <2>1
  <2>5. \A i \in 1..Len(f) : f[i] \in Byte
    BY <2>2, <2>4
  <2> QED  BY <2>1, <2>3, <2>5
<1>2. Len(f) \in Nat
  BY <1>1
<1>3. CASE m = "icom"
  <2>1. /\ Len(f) >= 6 /\ f[1] = "FE" /\ f[2] = "FE" /\ f[Len(f)] = "FD"
        /\ \A i \in 3..Len(f) - 1 : f[i] \notin {"FE", "FD", "FC"}
    BY <1>1, <1>3 DEF WellFormed
  <2>2. ASSUME NEW i \in 1..Len(f) - 1  PROVE  f[i] # "FD"
    <3>1. i = 1 \/ i = 2 \/ i \in 3..Len(f) - 1
      BY <1>2
    <3>2. i \in 3..Len(f) - 1 => f[i] # "FD"
      BY <2>1
    <3> QED  BY <2>1, <3>1, <3>2
  <2> QED  BY <1>1, <1>2, <1>3, <2>1, <2>2 DEF Terminator
<1>4. CASE m # "icom"
  <2>1. f # <<>> /\ f[Len(f)] = TERMINATOR /\ \A i \in 1..Len(f) - 1 : f[i] # TERMINATOR
    BY <1>1, <1>4 DEF WellFormed
  <2>2. Len(f) >= 1
    BY <1>1, <1>2, <2>1
  <2> QED  BY <1>1, <1>2, <1>4, <2>1, <2>2 DEF Terminator
<1> QED  BY <1>3, <1>4

\* The bytes behind some are undamaged if all are.
LEMMA UndamagedRest ==
  ASSUME NEW m, NEW S, NEW s \in Seq(S), Undamaged(m, s), NEW q \in 0..Len(s)
  PROVE  Undamaged(m, SubSeq(s, q + 1, Len(s)))
<1> DEFINE t == SubSeq(s, q + 1, Len(s))
<1>1. /\ Len(t) = Len(s) - q /\ Len(s) \in Nat /\ t \in Seq(S) /\ Len(t) \in Nat
      /\ \A i \in 1..Len(t) : t[i] = s[q + i]
  BY SplitLine
<1> HIDE DEF t
<1>2. /\ \A i \in 1..Len(s) - 1 : Join(s[i], s[i + 1])
      /\ s # <<>> => s[Len(s)].at = s[Len(s)].size
      /\ Faithful(m, s)
  BY DEF Undamaged
<1>3. ASSUME NEW i \in 1..Len(t) - 1  PROVE  Join(t[i], t[i + 1])
  <2>1. i \in 1..Len(t) /\ i + 1 \in 1..Len(t) /\ q + i \in 1..Len(s) - 1 /\ q + (i + 1) = q + i + 1
    BY <1>1
  <2>2. t[i] = s[q + i] /\ t[i + 1] = s[q + i + 1]
    BY <1>1, <2>1
  <2> QED  BY <1>2, <2>1, <2>2
<1>4. ASSUME t # <<>>  PROVE  t[Len(t)].at = t[Len(t)].size
  <2>1. Len(t) \in 1..Len(t) /\ q + Len(t) = Len(s) /\ Len(s) > 0
    BY <1>1, <1>4
  <2>2. s # <<>> /\ t[Len(t)] = s[Len(s)]
    BY <1>1, <2>1
  <2> QED  BY <1>2, <2>2
<1>5. Faithful(m, t)
  <2> SUFFICES ASSUME NEW l \in 1..Len(t)
               PROVE  \E f \in Frames(m) : \A i \in 1..Len(t) :
                        t[i].of = t[l].of => t[i].size = Len(f) /\ t[i].byte = f[t[i].at]
    BY DEF Faithful
  <2>1. q + l \in 1..Len(s) /\ t[l] = s[q + l]
    BY <1>1
  <2>2. PICK f \in Frames(m) : \A i \in 1..Len(s) :
          s[i].of = s[q + l].of => s[i].size = Len(f) /\ s[i].byte = f[s[i].at]
    BY <1>2, <2>1 DEF Faithful
  <2>3. \A i \in 1..Len(t) : q + i \in 1..Len(s) /\ t[i] = s[q + i]
    BY <1>1
  <2>4. \A i \in 1..Len(t) : t[i].of = t[l].of => t[i].size = Len(f) /\ t[i].byte = f[t[i].at]
    BY <2>1, <2>2, <2>3
  <2> QED  BY <2>4
<1>a. \A i \in 1..Len(t) : t[i].ok
  <2>1. \A i \in 1..Len(t) : q + i \in 1..Len(s) /\ t[i] = s[q + i]
    BY <1>1
  <2> QED  BY <2>1 DEF Undamaged
<1>6. Undamaged(m, t)
  BY <1>3, <1>4, <1>5, <1>a DEF Undamaged
<1> QED  BY <1>6 DEF t

\* A frame behind undamaged bytes.
LEMMA UndamagedSay ==
  ASSUME NEW m \in Makes, NEW s \in Seq(Tag), NEW k \in Nat, Undamaged(m, s), AllOk(m, s, k),
         NEW frame \in Frames(m)
  PROVE  Undamaged(m, s \o Tagged(frame, k + 1))
<1> DEFINE t == Tagged(frame, k + 1)
           u == s \o t
<1>1. frame \in Seq(Byte) /\ Len(frame) >= 1 /\ k + 1 \in Nat /\ k \in Int
  BY FrameIs
<1>2. /\ t \in Seq(Tag) /\ Len(t) = Len(frame) /\ Len(t) \in Nat
      /\ \A i \in 1..Len(t) : /\ t[i].byte = frame[i] /\ t[i].of = k + 1
                              /\ t[i].at = i /\ t[i].size = Len(t) /\ t[i].ok
  BY <1>1, TaggedIs
<1> HIDE DEF t
<1>3. /\ u \in Seq(Tag) /\ Len(u) = Len(s) + Len(t) /\ Len(s) \in Nat
      /\ \A i \in 1..Len(s) : u[i] = s[i]
      /\ \A i \in 1..Len(t) : u[Len(s) + i] = t[i]
  <2>1. t \in Seq(Tag)
    BY <1>2
  <2> QED  BY <2>1, JoinedIs
<1> HIDE DEF u
<1>4. /\ \A i \in 1..Len(s) - 1 : Join(s[i], s[i + 1])
      /\ s # <<>> => s[Len(s)].at = s[Len(s)].size
      /\ Faithful(m, s)
  BY DEF Undamaged
<1>5. \A i \in 1..Len(u) : \/ i \in 1..Len(s) /\ u[i] = s[i]
                           \/ i > Len(s) /\ i - Len(s) \in 1..Len(t) /\ u[i] = t[i - Len(s)]
  <2> SUFFICES ASSUME NEW i \in 1..Len(u), ~(i \in 1..Len(s))
               PROVE  i > Len(s) /\ i - Len(s) \in 1..Len(t) /\ u[i] = t[i - Len(s)]
    BY <1>3
  <2>1. i > Len(s) /\ i - Len(s) \in 1..Len(t) /\ Len(s) + (i - Len(s)) = i
    BY <1>2, <1>3
  <2> QED  BY <1>3, <2>1
<1>6. ASSUME NEW i \in 1..Len(u) - 1  PROVE  Join(u[i], u[i + 1])
  <2>0. i \in 1..Len(u) /\ i + 1 \in 1..Len(u)
    BY <1>2, <1>3
  <2>1. CASE i < Len(s)
    <3>1. i \in 1..Len(s) - 1 /\ i \in 1..Len(s) /\ i + 1 \in 1..Len(s)
      BY <1>3, <2>1
    <3> QED  BY <1>3, <1>4, <3>1
  <2>2. CASE i = Len(s)
    <3>1. s # <<>> /\ i \in 1..Len(s) /\ 1 \in 1..Len(t) /\ i + 1 = Len(s) + 1
      BY <1>2, <1>3, <2>0, <2>2
    <3>2. u[i] = s[Len(s)] /\ u[i + 1] = t[1]
      BY <1>3, <2>2, <3>1
    <3>3. u[i].at = u[i].size /\ u[i + 1].at = 1
      BY <1>2, <1>4, <3>1, <3>2
    <3> QED  BY <3>3 DEF Join
  <2>3. CASE i > Len(s)
    <3> DEFINE e == i - Len(s)
    <3>1. e \in 1..Len(t) - 1 /\ e \in 1..Len(t) /\ e + 1 \in 1..Len(t) /\ e # Len(t)
          /\ Len(s) + e = i /\ Len(s) + (e + 1) = i + 1
      BY <1>2, <1>3, <2>3
    <3> HIDE DEF e
    <3>2. u[i] = t[e] /\ u[i + 1] = t[e + 1]
      BY <1>3, <3>1
    <3>3. /\ u[i].at = e /\ u[i].size = Len(t) /\ u[i].of = k + 1
          /\ u[i + 1].at = e + 1 /\ u[i + 1].size = Len(t) /\ u[i + 1].of = k + 1
      BY <1>2, <3>1, <3>2
    <3> QED  BY <3>1, <3>3 DEF Join
  <2> QED  BY <1>3, <2>0, <2>1, <2>2, <2>3
<1>7. u[Len(u)].at = u[Len(u)].size
  <2>1. Len(t) \in 1..Len(t) /\ Len(u) = Len(s) + Len(t)
    BY <1>1, <1>2, <1>3
  <2> QED  BY <1>2, <1>3, <2>1
<1>8. Faithful(m, u)
  <2> SUFFICES ASSUME NEW l \in 1..Len(u)
               PROVE  \E f \in Frames(m) : \A i \in 1..Len(u) :
                        u[i].of = u[l].of => u[i].size = Len(f) /\ u[i].byte = f[u[i].at]
    BY DEF Faithful
  <2>1. \A i \in 1..Len(s) : s[i].of \in 1..k /\ s[i].of # k + 1
    BY <1>1 DEF AllOk, ByteOk
  <2>2. CASE l \in 1..Len(s)
    <3>1. PICK f \in Frames(m) : \A i \in 1..Len(s) :
            s[i].of = s[l].of => s[i].size = Len(f) /\ s[i].byte = f[s[i].at]
      BY <1>4, <2>2 DEF Faithful
    <3>2. u[l] = s[l] /\ s[l].of # k + 1
      BY <1>3, <2>1, <2>2
    <3>3. ASSUME NEW i \in 1..Len(u), u[i].of = u[l].of
          PROVE  u[i].size = Len(f) /\ u[i].byte = f[u[i].at]
      <4>1. CASE i \in 1..Len(s) /\ u[i] = s[i]
        BY <3>1, <3>2, <3>3, <4>1
      <4>2. CASE i - Len(s) \in 1..Len(t) /\ u[i] = t[i - Len(s)]
        BY <1>2, <3>2, <3>3, <4>2
      <4> QED  BY <1>5, <4>1, <4>2
    <3> QED  BY <3>3
  <2>3. CASE l - Len(s) \in 1..Len(t) /\ u[l] = t[l - Len(s)]
    <3>1. u[l].of = k + 1
      BY <1>2, <2>3
    <3>2. ASSUME NEW i \in 1..Len(u), u[i].of = u[l].of
          PROVE  u[i].size = Len(frame) /\ u[i].byte = frame[u[i].at]
      <4>1. CASE i \in 1..Len(s) /\ u[i] = s[i]
        BY <2>1, <3>1, <3>2, <4>1
      <4>2. CASE i - Len(s) \in 1..Len(t) /\ u[i] = t[i - Len(s)]
        BY <1>2, <4>2
      <4> QED  BY <1>5, <4>1, <4>2
    <3> QED  BY <3>2
  <2> QED  BY <1>5, <2>2, <2>3
<1>a. \A i \in 1..Len(u) : u[i].ok
  <2>1. (\A i \in 1..Len(s) : s[i].ok) /\ \A i \in 1..Len(t) : t[i].ok
    BY <1>2 DEF Undamaged
  <2> QED  BY <1>5, <2>1
<1>9. Undamaged(m, u)
  BY <1>6, <1>7, <1>8, <1>a DEF Undamaged
<1> QED  BY <1>9 DEF u, t

\* The bytes h to q of s are of the frame that ends at q.
EndOf(s, h, q) ==
  \A l \in h..q : s[l].of = s[q].of /\ s[l].size = s[q].size /\ s[l].at = s[q].size - (q - l)

\* Backwards from the end of a frame there is its beginning, or that of the bytes.
LEMMA TailLies ==
  ASSUME NEW m, NEW s, NEW k \in Nat, Undamaged(m, s), AllOk(m, s, k),
         NEW q \in 1..Len(s), Len(s) \in Nat, s[q].at = s[q].size
  PROVE  \E h \in 1..q : EndOf(s, h, q) /\ (h > 1 => s[h - 1].at = s[h - 1].size)
<1> DEFINE z == s[q].size
           T == {h \in 1..q : EndOf(s, h, q)}
<1>0. z \in Int
  BY DEF AllOk, ByteOk
<1>1. q \in T
  <2> SUFFICES ASSUME NEW l \in q..q
               PROVE  s[l].of = s[q].of /\ s[l].size = z /\ s[l].at = z - (q - l)
    BY DEF EndOf
  <2>1. l = q /\ z - (q - q) = z
    BY <1>0
  <2> HIDE DEF z
  <2> QED  BY <2>1 DEF z
<1>2. T \in SUBSET Nat /\ T # {}
  BY <1>1
<1>3. PICK h \in T : \A i \in T : h <= i
  <2> HIDE DEF T
  <2> QED  BY <1>2, Least
<1>4. h \in 1..q /\ h \in Int /\ q \in Int
      /\ \A l \in h..q : s[l].of = s[q].of /\ s[l].size = z /\ s[l].at = z - (q - l)
  BY <1>3 DEF EndOf
<1>5. ASSUME h > 1, s[h - 1].at # s[h - 1].size  PROVE  FALSE
  <2>1. h - 1 \in 1..Len(s) - 1 /\ h - 1 + 1 = h /\ h - 1 \in 1..Len(s) /\ h \in h..q /\ h - 1 \in 1..q
    BY <1>4, <1>5
  <2>2. Join(s[h - 1], s[h])
    BY <2>1 DEF Undamaged
  <2>3. s[h].of = s[h - 1].of /\ s[h].at = s[h - 1].at + 1 /\ s[h].size = s[h - 1].size
    BY <1>5, <2>2 DEF Join
  <2>4. s[h - 1].at \in Int
    BY <2>1 DEF AllOk, ByteOk
  <2>5. s[h].of = s[q].of /\ s[h].size = z /\ s[h].at = z - (q - h)
    BY <1>4, <2>1
  <2> HIDE DEF z
  <2>6. s[h - 1].at = z - (q - (h - 1)) /\ s[h - 1].of = s[q].of /\ s[h - 1].size = z
    <3>1. s[h - 1].at + 1 = z - (q - h) /\ s[h - 1].of = s[q].of /\ s[h - 1].size = z
      BY <2>3, <2>5
    <3>2. ASSUME NEW x \in Int, x + 1 = z - (q - h)  PROVE  x = z - (q - (h - 1))
      BY <1>0, <1>4, <3>2, SMTT(30)
    <3> QED  BY <2>4, <3>1, <3>2
  <2>7. \A l \in h - 1 .. q : l = h - 1 \/ l \in h..q
    BY <1>4
  <2>8. \A l \in h - 1 .. q : s[l].of = s[q].of /\ s[l].size = z /\ s[l].at = z - (q - l)
    BY <1>4, <2>6, <2>7
  <2>9. h - 1 \in T
    BY <2>1, <2>8 DEF EndOf, z
  <2>10. ~(h <= h - 1)
    BY <1>4
  <2> QED  BY <1>3, <2>9, <2>10
<1> QED  BY <1>3, <1>4, <1>5

\* An undamaged frame of the CI-V decoder is a whole one.
LEMMA CivWhole ==
  ASSUME "icom" \in Makes, NEW s, NEW k \in Nat, Len(s) \in Nat, Undamaged("icom", s), AllOk("icom", s, k),
         NEW p, NEW q, CivCut(s, p, q)
  PROVE  p \in 1..Len(s) /\ q \in 1..Len(s) /\ p < q /\ Lies(s[q].of, s, p, q) /\ FirstPreamble(s, p)
<1>1. /\ p \in 1..Len(s) - 1 /\ s[p].byte = "FE" /\ s[p + 1].byte = "FE"
      /\ q \in p + 2 .. Len(s) /\ s[q].byte = "FD" /\ \A i \in p + 2 .. q - 1 : s[i].byte # "FD"
      /\ FirstPreamble(s, p)
  BY DEF CivCut, FirstPreamble
<1>2. p \in 1..Len(s) /\ q \in 1..Len(s) /\ p < q /\ p \in Int /\ q \in Int
  BY <1>1
<1>3. s[q].at = s[q].size /\ s[q].size \in Int
  BY <1>1, <1>2 DEF AllOk, ByteOk, Terminator, Undamaged
<1>4. PICK h \in 1..q : EndOf(s, h, q) /\ (h > 1 => s[h - 1].at = s[h - 1].size)
  BY <1>2, <1>3, TailLies
<1>5. \A l \in h..q : s[l].of = s[q].of /\ s[l].size = s[q].size /\ s[l].at = s[q].size - (q - l)
  BY <1>4 DEF EndOf
<1>6. h <= p
  <2> SUFFICES ASSUME h > p, h > 1  PROVE  FALSE
    BY <1>1, <1>2
  <2>1. h - 1 \in 1..Len(s) /\ h - 1 >= p /\ h - 1 <= q - 1
    BY <1>2
  <2>2. PICK f \in Frames("icom") : \A i \in 1..Len(s) :
          s[i].of = s[h - 1].of => s[i].size = Len(f) /\ s[i].byte = f[s[i].at]
    BY <2>1 DEF Undamaged, Faithful
  <2>3. s[h - 1].byte = f[Len(f)] /\ f[Len(f)] = "FD"
    BY <1>4, <2>1, <2>2, FrameIs DEF Terminator
  <2>4. h - 1 # p /\ h - 1 # p + 1
    BY <1>1, <2>3
  <2>5. h - 1 \in p + 2 .. q - 1
    BY <1>2, <2>1, <2>4
  <2> QED  BY <1>1, <2>3, <2>5
<1>7. PICK f \in Frames("icom") : \A i \in 1..Len(s) :
        s[i].of = s[q].of => s[i].size = Len(f) /\ s[i].byte = f[s[i].at]
  BY <1>2 DEF Undamaged, Faithful
<1>8. /\ f \in Seq(Byte) /\ Len(f) \in Nat /\ Len(f) >= 6
      /\ \A i \in 3..Len(f) - 1 : f[i] \notin {"FE", "FD", "FC"}
  BY FrameIs
<1>9. p \in h..q /\ p + 1 \in h..q /\ p + 1 \in 1..Len(s) /\ p + 1 < q
  BY <1>1, <1>2, <1>6
<1>10. s[q].size = Len(f)
  BY <1>2, <1>7
<1> DEFINE z == Len(f)
           a == z - (q - p)
<1>11. /\ s[p].of = s[q].of /\ s[p].at = a
       /\ s[p + 1].of = s[q].of /\ s[p + 1].at = z - (q - (p + 1)) /\ z - (q - (p + 1)) = a + 1
  BY <1>2, <1>5, <1>8, <1>9, <1>10
<1>12. f[a] = "FE" /\ f[a + 1] = "FE"
  BY <1>1, <1>2, <1>7, <1>9, <1>11
<1>13. a >= 1 /\ a + 1 < z /\ a \in Int
  <2>1. s[p].at >= 1
    BY <1>2 DEF AllOk, ByteOk
  <2>2. a \in Int
    BY <1>2, <1>8
  <2> QED  BY <1>2, <1>8, <1>9, <1>11, <2>1, <2>2
<1>14. a = 1
  <2> SUFFICES ASSUME a # 1  PROVE  FALSE
    OBVIOUS
  <2>1. a + 1 \in 3..Len(f) - 1
    BY <1>8, <1>13
  <2> QED  BY <1>8, <1>12, <2>1
<1>15. z = q - p + 1
  BY <1>2, <1>8, <1>14
<1>16. ASSUME NEW i \in p..q  PROVE  s[i].of = s[q].of /\ s[i].at = i - p + 1 /\ s[i].size = q - p + 1
  <2>1. i \in h..q /\ i \in Int
    BY <1>2, <1>6
  <2>2. s[i].of = s[q].of /\ s[i].size = z /\ s[i].at = z - (q - i)
    BY <1>5, <1>10, <2>1
  <2>3. z - (q - i) = i - p + 1
    BY <1>2, <1>15, <2>1
  <2> QED  BY <1>15, <2>2, <2>3
<1>17. Lies(s[q].of, s, p, q)
  <2>1. \A i \in p..q : s[i].ok
    BY <1>2 DEF Undamaged
  <2> QED  BY <1>16, <2>1 DEF Lies
<1> QED  BY <1>1, <1>2, <1>17

\* And one of the text decoder is whole, or the end of one.
LEMMA TextWhole ==
  ASSUME NEW m \in Makes, m # "icom", NEW s, NEW k \in Nat, Len(s) \in Nat, Undamaged(m, s), AllOk(m, s, k),
         NEW q, TextCut(s, q)
  PROVE  \/ Lies(s[q].of, s, 1, q)
         \/ \E f \in Frames(m) : \E a \in 2..Len(f) :
              Len(f) - a + 1 = q /\ \A l \in 1..q : s[l].byte = f[a + l - 1]
<1>1. q \in 1..Len(s) /\ s[q].byte = TERMINATOR /\ \A i \in 1..q - 1 : s[i].byte # TERMINATOR
  BY DEF TextCut
<1>2. s[q].at = s[q].size /\ s[q].size \in Int /\ q \in Int
  BY <1>1 DEF AllOk, ByteOk, Terminator, Undamaged
<1>3. PICK h \in 1..q : EndOf(s, h, q) /\ (h > 1 => s[h - 1].at = s[h - 1].size)
  BY <1>1, <1>2, TailLies
<1>4. \A l \in h..q : s[l].of = s[q].of /\ s[l].size = s[q].size /\ s[l].at = s[q].size - (q - l)
  BY <1>3 DEF EndOf
<1>5. h = 1
  <2> SUFFICES ASSUME h > 1  PROVE  FALSE
    OBVIOUS
  <2>1. h - 1 \in 1..Len(s) /\ h - 1 \in 1..q - 1
    BY <1>1, <1>2
  <2>2. PICK f \in Frames(m) : \A i \in 1..Len(s) :
          s[i].of = s[h - 1].of => s[i].size = Len(f) /\ s[i].byte = f[s[i].at]
    BY <2>1 DEF Undamaged, Faithful
  <2>3. s[h - 1].byte = f[Len(f)] /\ f[Len(f)] = TERMINATOR
    BY <1>3, <2>1, <2>2, FrameIs DEF Terminator
  <2> QED  BY <1>1, <2>1, <2>3
<1>6. PICK f \in Frames(m) : \A i \in 1..Len(s) :
        s[i].of = s[q].of => s[i].size = Len(f) /\ s[i].byte = f[s[i].at]
  BY <1>1 DEF Undamaged, Faithful
<1>7. s[q].size = Len(f) /\ Len(f) \in Nat
  BY <1>1, <1>6, FrameIs
<1> DEFINE z == Len(f)
<1>8. \A l \in 1..q : s[l].of = s[q].of /\ s[l].size = z /\ s[l].at = z - (q - l) /\ s[l].byte = f[z - (q - l)]
  <2> SUFFICES ASSUME NEW l \in 1..q
               PROVE  s[l].of = s[q].of /\ s[l].size = z /\ s[l].at = z - (q - l) /\ s[l].byte = f[z - (q - l)]
    OBVIOUS
  <2>1. l \in 1..Len(s) /\ l \in h..q
    BY <1>1, <1>2, <1>5
  <2>2. s[l].of = s[q].of /\ s[l].size = z /\ s[l].at = z - (q - l)
    BY <1>4, <1>7, <2>1
  <2>3. s[l].byte = f[s[l].at]
    BY <1>6, <2>1, <2>2
  <2> QED  BY <2>2, <2>3
<1>9. z >= q
  <2>1. 1 \in 1..q /\ 1 \in 1..Len(s)
    BY <1>1
  <2>2. s[1].at >= 1 /\ s[1].at = z - (q - 1)
    BY <1>8, <2>1 DEF AllOk, ByteOk
  <2> QED  BY <1>2, <1>7, <2>2
<1>10. CASE z = q
  <2>1. ASSUME NEW l \in 1..q
        PROVE  s[l].of = s[q].of /\ s[l].at = l - 1 + 1 /\ s[l].size = q - 1 + 1
    <3>1. s[l].of = s[q].of /\ s[l].size = z /\ s[l].at = z - (q - l)
      BY <1>8
    <3>2. z - (q - l) = l - 1 + 1 /\ z = q - 1 + 1
      BY <1>2, <1>10
    <3> QED  BY <3>1, <3>2
  <2>2. \A l \in 1..q : s[l].ok
    BY <1>1 DEF Undamaged
  <2>3. Lies(s[q].of, s, 1, q)
    BY <2>1, <2>2 DEF Lies
  <2> QED  BY <2>3
<1>11. CASE z # q
  <2> DEFINE a == z - q + 1
  <2>1. a \in 2..Len(f) /\ Len(f) - a + 1 = q
    BY <1>1, <1>2, <1>7, <1>9, <1>11
  <2>2. ASSUME NEW l \in 1..q  PROVE  s[l].byte = f[a + l - 1]
    <3>1. a + l - 1 = z - (q - l)
      BY <1>2, <1>7
    <3> HIDE DEF a, z
    <3>2. s[l].byte = f[z - (q - l)]
      BY <1>8
    <3> QED  BY <3>1, <3>2
  <2> HIDE DEF a
  <2> QED  BY <2>1, <2>2
<1> QED  BY <1>10, <1>11

\* The first terminator of buf is at q; g is the first q bytes of buf.
FirstEnds(buf, q) ==
  q \in 1..Len(buf) /\ buf[q] = TERMINATOR /\ \A i \in 1..q - 1 : buf[i] # TERMINATOR
IsStart(g, buf, q) == Len(g) = q /\ \A i \in 1..q : g[i] = buf[i]

\* The decoder looks no further than the first terminator.
LEMMA DecodeOnly ==
  ASSUME NEW S, NEW buf \in Seq(S), NEW g \in Seq(S), NEW q, FirstEnds(buf, q), IsStart(g, buf, q)
  PROVE  \A ds : decode_response(g, ds) = decode_response(buf, ds)
<1> SUFFICES ASSUME NEW ds  PROVE  decode_response(g, ds) = decode_response(buf, ds)
  OBVIOUS
<1>a. /\ q \in 1..Len(buf) /\ buf[q] = TERMINATOR /\ \A i \in 1..q - 1 : buf[i] # TERMINATOR
      /\ Len(g) = q /\ \A i \in 1..q : g[i] = buf[i]
  BY DEF FirstEnds, IsStart
<1>0. q \in 1..Len(g) /\ q \in Int /\ Len(buf) \in Nat
  BY <1>a
<1>1. ASSUME NEW b \in Seq(S), q \in 1..Len(b), b[q] = TERMINATOR, \A i \in 1..q - 1 : b[i] # TERMINATOR
      PROVE  Has(b, TERMINATOR) /\ First(b, TERMINATOR) = q
  <2>1. DOMAIN b = 1..Len(b) /\ Len(b) \in Nat
    OBVIOUS
  <2>2. Has(b, TERMINATOR)
    BY <1>1, <2>1 DEF Has
  <2> DEFINE f == First(b, TERMINATOR)
  <2>3. f \in 1..Len(b) /\ b[f] = TERMINATOR /\ \A j \in 1..f - 1 : b[j] # TERMINATOR
    BY <2>2, FirstIs
  <2> HIDE DEF f
  <2>4. ~(f < q) /\ ~(q < f)
    BY <1>0, <1>1, <2>1, <2>3
  <2>5. f = q
    BY <1>0, <2>1, <2>3, <2>4
  <2> QED  BY <2>2, <2>5 DEF f
<1>2. Has(buf, TERMINATOR) /\ First(buf, TERMINATOR) = q
  BY <1>1, <1>a
<1>3. g[q] = TERMINATOR /\ \A i \in 1..q - 1 : g[i] # TERMINATOR
  BY <1>0, <1>a
<1>4. Has(g, TERMINATOR) /\ First(g, TERMINATOR) = q
  BY <1>0, <1>1, <1>3
<1>5. SubSeq(g, 1, q - 1) = SubSeq(buf, 1, q - 1)
  <2> DEFINE c == SubSeq(g, 1, q - 1)
             e == SubSeq(buf, 1, q - 1)
  <2>1. q - 1 \in 0..Len(g) /\ q - 1 \in 0..Len(buf)
    BY <1>a, <1>0
  <2>2. c \in Seq(S) /\ Len(c) = q - 1 /\ \A i \in 1..q - 1 : c[i] = g[i]
    BY <2>1, SplitLine
  <2>3. e \in Seq(S) /\ Len(e) = q - 1 /\ \A i \in 1..q - 1 : e[i] = buf[i]
    BY <2>1, SplitLine
  <2> HIDE DEF c, e
  <2>4. ASSUME NEW i \in 1..Len(c)  PROVE  c[i] = e[i]
    <3>1. i \in 1..q - 1 /\ i \in 1..q
      BY <1>0, <2>2
    <3> QED  BY <1>a, <2>2, <2>3, <3>1
  <2>5. c = e
    BY <2>2, <2>3, <2>4, SeqEqual
  <2> QED  BY <2>5 DEF c, e
<1> QED  BY <1>2, <1>4, <1>5 DEF decode_response

\* On a line that is in order an answer is a whole frame.
LEMMA AnswerWhole ==
  ASSUME make \in Makes, NEW buf \in Seq(Tag), NEW rest \in Seq(Tag), sent \in Nat,
         Undamaged(make, buf \o rest), AllOk(make, buf \o rest, sent),
         NEW d \in Decodes(buf), IsAnswer(d)
  PROVE  Whole(SubSeq(buf, 1, d.consumed))
<1> DEFINE u == buf \o rest
           q == d.consumed
<1>1. q \in 1..Len(buf) /\ Cut(make, buf, q)
  BY Decoding
<1>2. u \in Seq(Tag) /\ Len(u) \in Nat /\ Len(buf) \in Nat /\ \A i \in 1..Len(buf) : u[i] = buf[i]
  BY JoinedIs
<1>3. Cut(make, u, q)
  BY <1>1, CutMore
<1>4. SubSeq(u, 1, q) = SubSeq(buf, 1, q)
  <2>1. q \in 0..Len(buf)
    BY <1>1, <1>2
  <2> HIDE DEF q
  <2> QED  BY <2>1, TakeJoined
<1>5. Undamaged(make, u) /\ AllOk(make, u, sent)
  OBVIOUS
<1> HIDE DEF u
<1>6. CASE make = "icom"
  <2>1. d.kind = "Frame"
    BY <1>6 DEF IsAnswer, Civ
  <2>2. buf[q].byte = "FD"
    BY <1>6, <2>1, Decoding, FramedEnds DEF Terminator
  <2>3. PICK p \in 1..Len(u) : CivCut(u, p, q) \/ CivDrop(u, p, q)
    BY <1>3, <1>6 DEF Cut
  <2>4. ~CivDrop(u, p, q)
    <3>1. u[q].byte = "FD"
      BY <1>1, <1>2, <2>2
    <3> QED  BY <3>1 DEF CivDrop
  <2>5. CivCut(u, p, q) /\ Undamaged("icom", u) /\ AllOk("icom", u, sent) /\ "icom" \in Makes
    BY <1>5, <1>6, <2>3, <2>4
  <2>6. p \in 1..Len(u) /\ q \in 1..Len(u) /\ p < q /\ Lies(u[q].of, u, p, q) /\ FirstPreamble(u, p)
    BY <1>2, <2>5, CivWhole
  <2>7. Starts(make, u, p) /\ p <= q
    BY <1>6, <2>6 DEF Starts
  <2>8. Whole(SubSeq(u, 1, q))
    BY <1>2, <2>6, <2>7, WholeIs
  <2> QED  BY <1>4, <2>8
<1>7. CASE make # "icom"
  <2>1. TextCut(u, q)
    BY <1>3, <1>7 DEF Cut
  <2>2. CASE Lies(u[q].of, u, 1, q)
    <3>1. 1 \in 1..Len(u) /\ q \in 1..Len(u) /\ 1 <= q /\ Starts(make, u, 1)
      BY <1>7, <2>1, <1>2 DEF TextCut, Starts
    <3>2. Whole(SubSeq(u, 1, q))
      BY <1>2, <1>7, <2>2, <3>1, WholeIs
    <3> QED  BY <1>4, <3>2
  <2>3. CASE \E f \in Frames(make) : \E a \in 2..Len(f) :
               Len(f) - a + 1 = q /\ \A l \in 1..q : u[l].byte = f[a + l - 1]
    <3>0. PICK f \in Frames(make) : \E a \in 2..Len(f) :
               Len(f) - a + 1 = q /\ \A l \in 1..q : u[l].byte = f[a + l - 1]
      BY <2>3
    <3>1. PICK a \in 2..Len(f) : Len(f) - a + 1 = q /\ \A l \in 1..q : u[l].byte = f[a + l - 1]
      BY <3>0
    <3> DEFINE g == SubSeq(f, a, Len(f))
               b == Bytes(buf)
    <3>2. f \in Seq(Byte) /\ Len(f) \in Nat /\ a \in Int /\ q \in Int
      BY <1>1, FrameIs
    <3>3. g \in Seq(Byte) /\ Len(g) = q /\ \A i \in 1..q : g[i] = f[a + i - 1]
      <4> HIDE DEF q
      <4>1. a - 1 \in 0..Len(f) /\ a - 1 + 1 = a /\ Len(f) - (a - 1) = q
        BY <3>1, <3>2
      <4>2. g \in Seq(Byte) /\ Len(g) = Len(f) - (a - 1) /\ \A i \in 1..Len(g) : g[i] = f[a - 1 + i]
        BY <3>2, <4>1, SplitLine, SMTT(30)
      <4>3. \A i \in 1..q : a - 1 + i = a + i - 1
        BY <3>2
      <4> QED  BY <4>1, <4>2, <4>3
    <3>4. b \in Seq(Byte) /\ Len(b) = Len(buf) /\ \A i \in 1..Len(buf) : b[i] = buf[i].byte
      BY BytesIs
    <3> HIDE DEF g, b, q
    <3>5. /\ q \in 1..Len(b) /\ b[q] = TERMINATOR /\ \A i \in 1..q - 1 : b[i] # TERMINATOR
      <4>1. /\ q \in 1..Len(u) /\ u[q].byte = TERMINATOR
            /\ \A i \in 1..q - 1 : u[i].byte # TERMINATOR
        BY <2>1 DEF TextCut
      <4>2. \A i \in 1..q : i \in 1..Len(buf) /\ b[i] = u[i].byte
        BY <1>1, <1>2, <3>2, <3>4
      <4> QED  BY <1>1, <3>2, <3>4, <4>1, <4>2, SMTT(30)
    <3>6. \A i \in 1..q : g[i] = b[i]
      <4>1. \A i \in 1..q : i \in 1..Len(buf)
        BY <1>1, <1>2, <3>2
      <4> QED  BY <1>2, <3>1, <3>3, <3>4, <4>1
    <3>7. \A ds : decode_response(g, ds) = decode_response(b, ds)
      <4>1. FirstEnds(b, q) /\ IsStart(g, b, q)
        BY <3>3, <3>5, <3>6 DEF FirstEnds, IsStart
      <4>2. b \in Seq(Byte) /\ g \in Seq(Byte)
        BY <3>3, <3>4
      <4> QED  BY <4>1, <4>2, DecodeOnly
    <3>8. d = decode_response(b, suffixes(make))
      BY <1>7 DEF Decodes, decode, Civ, digit_suffix_prefixes, b
    <3>9. d.kind = "Response" /\ d.prefix = extract_command_prefix(Command[make], suffixes(make))
      BY <1>7 DEF IsAnswer, Civ, digit_suffix_prefixes
    <3>10. EndsDiffer(make, f)
      BY <1>7, FramesAssumption
    <3>11. decode_response(g, suffixes(make)).kind = "Response"
             => decode_response(g, suffixes(make)).prefix
                  # extract_command_prefix(Command[make], suffixes(make))
      BY <3>10 DEF EndsDiffer, g
    <3> QED  BY <3>7, <3>8, <3>9, <3>11
  <2>4. \/ Lies(u[q].of, u, 1, q)
        \/ \E f \in Frames(make) : \E a \in 2..Len(f) :
             Len(f) - a + 1 = q /\ \A l \in 1..q : u[l].byte = f[a + l - 1]
    <3> HIDE DEF q
    <3> QED  BY <1>2, <1>5, <1>7, <2>1, TextWhole
  <2> QED  BY <2>2, <2>3, <2>4
<1> QED  BY <1>6, <1>7

-----------------------------------------------------------------------------
(* What the radio says.                                                    *)

\* The bytes are those of one frame, number k + 1, which ends nowhere but at its end.
Fresh(m, t, k) ==
  \A i \in 1..Len(t) : /\ t[i].of = k + 1 /\ t[i].at = i /\ t[i].size = Len(t)
                       /\ t[i].ok
                       /\ t[i].byte = Terminator(m) => i = Len(t)

\* A frame as it is sent is safe.
LEMMA SayIs ==
  ASSUME NEW m \in Makes, NEW frame \in Frames(m), NEW k \in Nat
  PROVE  LET t == Tagged(frame, k + 1)
         IN  t \in Seq(Tag) /\ Fresh(m, t, k) /\ SafeAt(m, k + 1, t, 1, Len(t))
<1> DEFINE t == Tagged(frame, k + 1)
<1>1. /\ frame \in Seq(Byte) /\ Len(frame) \in Nat /\ Len(frame) >= 1
      /\ frame[Len(frame)] = Terminator(m) /\ \A i \in 1..Len(frame) - 1 : frame[i] # Terminator(m)
      /\ m = "icom" => /\ Len(frame) >= 6 /\ frame[1] = "FE" /\ frame[2] = "FE"
                       /\ \A i \in 3..Len(frame) - 1 : frame[i] \notin {"FE", "FD", "FC"}
  BY FrameIs
<1>2. /\ t \in Seq(Tag) /\ Len(t) = Len(frame)
      /\ \A i \in 1..Len(frame) : /\ t[i].byte = frame[i] /\ t[i].of = k + 1
                                  /\ t[i].at = i /\ t[i].size = Len(frame) /\ t[i].ok
  BY <1>1, TaggedIs
<1> HIDE DEF t
<1>3. Fresh(m, t, k)
  BY <1>1, <1>2 DEF Fresh
<1>4. Lies(k + 1, t, 1, Len(t))
  BY <1>1, <1>2 DEF Lies
<1>5. Clean(m, t, 1, Len(t))
  <2>1. CASE m = "icom"
    <3>1. /\ 1 + 5 <= Len(t) /\ t[1].byte = "FE" /\ t[1 + 1].byte = "FE" /\ t[Len(t)].byte = "FD"
      BY <1>1, <1>2, <2>1 DEF Terminator
    <3>2. \A i \in 1 + 2 .. Len(t) - 1 : t[i].byte = frame[i] /\ i \in 3..Len(frame) - 1
      BY <1>1, <1>2
    <3> QED  BY <1>1, <2>1, <3>1, <3>2 DEF Clean
  <2>2. CASE m # "icom"
    BY <1>1, <1>2, <2>2 DEF Clean, Terminator
  <2> QED  BY <2>1, <2>2
<1>6. SafeAt(m, k + 1, t, 1, Len(t))
  BY <1>1, <1>2, <1>4, <1>5 DEF SafeAt
<1> QED  BY <1>2, <1>3, <1>6 DEF t

\* A command garbled on the bus still ends once, at its end.
LEMMA GarbledIs ==
  ASSUME NEW m \in Makes, m = "icom", NEW i \in DOMAIN Command[m], NEW k \in Nat
  PROVE  LET t == Tagged([Command[m] EXCEPT ![i] = "FC"], k + 1)
         IN  t \in Seq(Tag) /\ Fresh(m, t, k)
<1> DEFINE frame == Command[m]
           garbled == [frame EXCEPT ![i] = "FC"]
           t == Tagged(garbled, k + 1)
<1>1. frame \in Frames(m)
  BY DEF Frames
<1>2. /\ frame \in Seq(Byte) /\ Len(frame) \in Nat /\ Len(frame) >= 1
      /\ \A j \in 1..Len(frame) - 1 : frame[j] # Terminator(m)
  BY <1>1, FrameIs
<1>3. /\ garbled \in Seq(Byte) /\ Len(garbled) = Len(frame)
      /\ \A j \in 1..Len(frame) : garbled[j] = IF j = i THEN "FC" ELSE frame[j]
  <2>1. DOMAIN frame = 1..Len(frame) /\ \A j \in 1..Len(frame) : frame[j] \in Byte
    BY <1>2
  <2>2. garbled = [j \in 1..Len(frame) |-> IF j = i THEN "FC" ELSE frame[j]]
    BY <2>1
  <2> HIDE DEF garbled
  <2>3. "FC" \in Byte
    BY DEF Byte
  <2>4. \A j \in 1..Len(frame) : (IF j = i THEN "FC" ELSE frame[j]) \in Byte
    BY <2>1, <2>3
  <2> QED  BY <1>2, <2>2, <2>4
<1>4. \A j \in 1..Len(frame) - 1 : garbled[j] # Terminator(m)
  BY <1>2, <1>3 DEF Terminator
<1> HIDE DEF garbled
<1>5. /\ t \in Seq(Tag) /\ Len(t) = Len(garbled)
      /\ \A j \in 1..Len(garbled) : /\ t[j].byte = garbled[j] /\ t[j].of = k + 1
                                    /\ t[j].at = j /\ t[j].size = Len(garbled) /\ t[j].ok
  BY <1>3, TaggedIs
<1> HIDE DEF t
<1>6. Fresh(m, t, k)
  BY <1>2, <1>3, <1>4, <1>5 DEF Fresh
<1> QED  BY <1>5, <1>6 DEF t, garbled

\* A new frame behind sound bytes.
LEMMA FreshSound ==
  ASSUME NEW m, NEW S, NEW s \in Seq(S), NEW t \in Seq(S),
         NEW k \in Nat, NEW r, NEW w, NEW F, Sound(m, s, k, r, w, F), Fresh(m, t, k)
  PROVE  Sound(m, s \o t, k + 1, r, w, F)
BY SoundSay DEF Fresh

\* A byte lost from the second of two sequences.
LEMMA RemoveLater ==
  ASSUME NEW S, NEW s \in Seq(S), NEW t \in Seq(S), NEW p \in 1..Len(t)
  PROVE  /\ RemoveAt(s \o t, Len(s) + p) = s \o RemoveAt(t, p)
         /\ Len(s) + p \in 1..Len(s \o t) /\ RemoveAt(t, p) \in Seq(S) /\ s \o t \in Seq(S)
<1> DEFINE u == s \o t
           v == RemoveAt(t, p)
           q == Len(s) + p
<1>1. u \in Seq(S) /\ Len(u) = Len(s) + Len(t) /\ Len(s) \in Nat /\ Len(t) \in Nat
      /\ (\A i \in 1..Len(s) : u[i] = s[i]) /\ \A i \in 1..Len(t) : u[Len(s) + i] = t[i]
  BY JoinedIs
<1>2. /\ v \in Seq(S) /\ Len(v) = Len(t) - 1
      /\ \A i \in 1..p - 1 : v[i] = t[i]
      /\ \A i \in p..Len(t) - 1 : v[i] = t[i + 1]
  BY RemoveAtIs
<1>3. q \in 1..Len(u)
  BY <1>1
<1> HIDE DEF u, v
<1>4. /\ RemoveAt(u, q) \in Seq(S) /\ Len(RemoveAt(u, q)) = Len(u) - 1
      /\ \A i \in 1..q - 1 : RemoveAt(u, q)[i] = u[i]
      /\ \A i \in q..Len(u) - 1 : RemoveAt(u, q)[i] = u[i + 1]
  BY <1>1, <1>3, RemoveAtIs
<1> DEFINE a == RemoveAt(u, q)
           b == s \o v
<1>5. b \in Seq(S) /\ Len(b) = Len(s) + Len(v)
      /\ (\A i \in 1..Len(s) : b[i] = s[i]) /\ \A i \in 1..Len(v) : b[Len(s) + i] = v[i]
  <2>1. s \in Seq(S) /\ v \in Seq(S)
    BY <1>2
  <2> HIDE DEF a
  <2> QED  BY <2>1, JoinedIs
<1> HIDE DEF a, b
<1>6. Len(a) = Len(b)
  BY <1>1, <1>2, <1>4, <1>5 DEF a
<1>7. \A i \in 1..Len(a) : a[i] = b[i]
  <2> SUFFICES ASSUME NEW i \in 1..Len(a) PROVE a[i] = b[i]
    OBVIOUS
  <2>1. i \in Int /\ Len(a) = Len(s) + Len(t) - 1
    BY <1>1, <1>4 DEF a
  <2>2. CASE i <= Len(s)
    <3>1. i \in 1..Len(s) /\ i \in 1..q - 1
      BY <1>1, <2>1, <2>2
    <3> QED  BY <1>1, <1>4, <1>5, <3>1 DEF a
  <2>3. CASE i > Len(s) /\ i < q
    <3>1. i - Len(s) \in 1..p - 1 /\ i - Len(s) \in 1..Len(t) /\ i - Len(s) \in 1..Len(v) /\ i \in 1..q - 1
           /\ i = Len(s) + (i - Len(s))
      BY <1>1, <1>2, <2>1, <2>3
    <3>2. a[i] = u[i] /\ u[i] = t[i - Len(s)] /\ b[i] = v[i - Len(s)] /\ v[i - Len(s)] = t[i - Len(s)]
      BY <1>1, <1>2, <1>4, <1>5, <3>1 DEF a
    <3> QED  BY <3>2
  <2>4. CASE i >= q
    <3>1. i - Len(s) \in p..Len(t) - 1 /\ i - Len(s) + 1 \in 1..Len(t) /\ i - Len(s) \in 1..Len(v)
           /\ i \in q..Len(u) - 1 /\ i = Len(s) + (i - Len(s)) /\ i + 1 = Len(s) + (i - Len(s) + 1)
      BY <1>1, <1>2, <2>1, <2>4
    <3>2. a[i] = u[i + 1] /\ u[i + 1] = t[i - Len(s) + 1] /\ b[i] = v[i - Len(s)]
           /\ v[i - Len(s)] = t[i - Len(s) + 1]
      BY <1>1, <1>2, <1>4, <1>5, <3>1, SMTT(30) DEF a
    <3> QED  BY <3>2
  <2> QED  BY <1>1, <2>1, <2>2, <2>3, <2>4
<1>8. a = b
  <2>1. a \in Seq(S) /\ b \in Seq(S)
    BY <1>4, <1>5 DEF a
  <2> QED  BY <2>1, <1>6, <1>7
<1> QED  BY <1>1, <1>2, <1>3, <1>8 DEF a, b, u, v

-----------------------------------------------------------------------------
(* Decoding and returning.                                                 *)

Regroups(a, b, c, d) ==
  /\ (a \o b) \o (c \o d) = (a \o (b \o c)) \o d
  /\ a \o (c \o d) = (a \o c) \o d

\* Grouping four sequences otherwise.
LEMMA FourJoin ==
  ASSUME NEW S, NEW a \in Seq(S), NEW b \in Seq(S), NEW c \in Seq(S), NEW d \in Seq(S)
  PROVE  Regroups(a, b, c, d)
<1>1. c \o d \in Seq(S) /\ b \o c \in Seq(S)
  BY JoinedIs
<1>2. Associates(a, b, c \o d)
  BY <1>1, ThreeJoin
<1>3. Associates(b, c, d)
  BY ThreeJoin
<1>4. Associates(a, b \o c, d)
  BY <1>1, ThreeJoin
<1>5. Associates(a, c, d)
  BY ThreeJoin
<1> QED  BY <1>2, <1>3, <1>4, <1>5 DEF Regroups, Associates

Pieces(S, a, buf, rest, q) ==
  LET b == SubSeq(buf, 1, q)
      left == SubSeq(buf, q + 1, Len(buf))
  IN  /\ b \in Seq(S) /\ left \in Seq(S) /\ left \o rest \in Seq(S)
      /\ Len(b) = q /\ \A i \in 1..q : b[i] = buf[i]
      /\ (a \o b) \o (left \o rest) = (a \o buf) \o rest
      /\ a \o (left \o rest) = (a \o left) \o rest

\* A buffer cut in two between what is before and what is behind it.
LEMMA PiecesJoin ==
  ASSUME NEW S, NEW a \in Seq(S), NEW buf \in Seq(S), NEW rest \in Seq(S), NEW q \in 0..Len(buf)
  PROVE  Pieces(S, a, buf, rest, q)
<1> DEFINE b == SubSeq(buf, 1, q)
           left == SubSeq(buf, q + 1, Len(buf))
<1>1. b \in Seq(S) /\ left \in Seq(S) /\ b \o left = buf
  <2>1. Parted(S, a, buf, b, left)
    BY ReceiveJoins
  <2> HIDE DEF b, left
  <2> QED  BY <2>1 DEF Parted
<1>2. Len(b) = q /\ \A i \in 1..q : b[i] = buf[i]
  OBVIOUS
<1> HIDE DEF b, left
<1>3. b \in Seq(S) /\ left \in Seq(S)
  BY <1>1
<1>4. left \o rest \in Seq(S)
  BY <1>3, JoinedIs
<1>5. Regroups(a, b, left, rest)
  BY <1>3, FourJoin
<1>6. /\ (a \o b) \o (left \o rest) = (a \o (b \o left)) \o rest
      /\ a \o (left \o rest) = (a \o left) \o rest
  BY <1>5 DEF Regroups
<1>7. (a \o b) \o (left \o rest) = (a \o buf) \o rest
  BY <1>1, <1>6
<1> QED  BY <1>2, <1>3, <1>4, <1>6, <1>7 DEF b, left, Pieces

\* What is in a sound line is sound.
LEMMA SoundMiddle ==
  ASSUME NEW m, NEW S, NEW a \in Seq(S), NEW b \in Seq(S), NEW c \in Seq(S),
         NEW k, NEW r, NEW w, NEW F, Sound(m, (a \o b) \o c, k, r, w, F)
  PROVE  Sorted(b) /\ AllOk(m, b, k)
<1> DEFINE s == (a \o b) \o c
           t == a \o c
<1>1. Sorted(s) /\ \A i \in 1..Len(s) : ByteOk(m, s[i], k)
  BY DEF Sound
<1>2. /\ \A i \in 1..Len(t) : \E j \in 1..Len(s) : t[i] = s[j]
      /\ \A i \in 1..Len(b) : \E j \in 1..Len(s) : b[i] = s[j]
      /\ Sorted(s) => Sorted(t)
      /\ Sorted(s) => \A i \in 1..Len(t), j \in 1..Len(b) : Before(t[i], b[j]) \/ Before(b[j], t[i])
  BY MiddleOut
<1>3. Sorted(b)
  BY <1>1, MiddleSorted
<1> HIDE DEF s, t
<1>4. \A i \in 1..Len(b) : ByteOk(m, b[i], k)
  BY <1>1, <1>2
<1> QED  BY <1>3, <1>4 DEF AllOk

\* Decoding, right or wrong, uses up the end of a frame.
LEMMA DecodeSound ==
  ASSUME sent \in Nat, NEW a \in Seq(Tag), NEW buf \in Seq(Tag), NEW rest \in Seq(Tag),
         Sound(make, (a \o buf) \o rest, sent, read \cup forgotten, wrong, fakes),
         NEW d \in Decodes(buf), Decoded(d, SubSeq(buf, 1, d.consumed))
  PROVE  Sound(make, (a \o SubSeq(buf, d.consumed + 1, Len(buf))) \o rest, sent,
               read' \cup forgotten, wrong', fakes)
<1> DEFINE q == d.consumed
           b == SubSeq(buf, 1, q)
           left == SubSeq(buf, q + 1, Len(buf))
           X == IF Whole(b) THEN {Number(b)} ELSE {}
<1>1. q \in 1..Len(buf) /\ (d.kind \in {"Response", "Frame"} => Framed(make, buf, q))
  BY Decoding
<1>2. q \in 0..Len(buf)
  BY <1>1
<1>3. /\ read' \cup forgotten = (read \cup forgotten) \cup X
      /\ wrong' = IF d.kind \in {"Response", "Frame"} /\ ~Whole(b) THEN wrong + 1 ELSE wrong
  BY DEF Decoded
<1> HIDE DEF q
<1>4. /\ b \in Seq(Tag) /\ left \in Seq(Tag) /\ left \o rest \in Seq(Tag)
      /\ Len(b) = q /\ \A i \in 1..q : b[i] = buf[i]
      /\ (a \o b) \o (left \o rest) = (a \o buf) \o rest
      /\ a \o (left \o rest) = (a \o left) \o rest
  <2>1. Pieces(Tag, a, buf, rest, q)
    BY <1>2, PiecesJoin
  <2> QED  BY <2>1 DEF Pieces
<1> HIDE DEF b, left
<1>5. Sound(make, (a \o b) \o (left \o rest), sent, read \cup forgotten, wrong, fakes)
  BY <1>4
<1>6. AllOk(make, b, sent)
  BY <1>4, <1>5, SoundMiddle
<1>7. q \in 1..Len(b) /\ ByteOk(make, b[q], sent) /\ b[q] = buf[q]
  BY <1>1, <1>4, <1>6 DEF AllOk
<1>8. Whole(b) => b[q].at = b[q].size /\ Number(b) = b[q].of
  BY <1>4 DEF Whole, Number
<1>9. X \in SUBSET (1..sent) /\ \A n \in X : \E i \in 1..Len(b) : b[i].of = n /\ b[i].at = b[i].size
  BY <1>7, <1>8 DEF ByteOk
<1>10. wrong' \in {wrong, wrong + 1}
  BY <1>3
<1>11. wrong' = wrong + 1 => Stray(make, b, X)
  <2> SUFFICES ASSUME wrong' = wrong + 1
               PROVE  \E i \in 1..Len(b) : (b[i].at = b[i].size /\ b[i].of \notin X) \/ Fake(make, b[i])
    BY DEF Stray
  <2>0. wrong \in Nat
    BY DEF Sound
  <2>1. d.kind \in {"Response", "Frame"} /\ ~Whole(b)
    BY <1>3, <2>0
  <2>2. b[q].byte = Terminator(make)
    BY <1>1, <1>7, <2>1, FramedEnds
  <2>3. b[q].at = b[q].size \/ Fake(make, b[q])
    BY <1>7, <2>2 DEF ByteOk, Fake
  <2> QED  BY <1>7, <2>1, <2>3
<1> HIDE DEF X
<1>12. Sound(make, a \o (left \o rest), sent, (read \cup forgotten) \cup X, wrong', fakes)
  <2> DEFINE c == left \o rest
             r == read \cup forgotten
  <2>1. b \in Seq(Tag) /\ c \in Seq(Tag) /\ Sound(make, (a \o b) \o c, sent, r, wrong, fakes)
    BY <1>4, <1>5
  <2> HIDE DEF c, r
  <2>2. Ended(b, X) /\ X \subseteq 1..sent
    BY <1>9 DEF Ended
  <2>3. wrong' = wrong \/ (wrong' = wrong + 1 /\ Stray(make, b, X))
    BY <1>10, <1>11
  <2>5. Sound(make, a \o c, sent, r \cup X, wrong', fakes)
    BY <2>1, <2>2, <2>3, SoundOut
  <2> QED  BY <2>5 DEF c, r
<1> QED  BY <1>3, <1>4, <1>12 DEF left, q

\* Decoding adds nothing to what can go wrong.
LEMMA DecodeWeighs ==
  ASSUME sent \in Nat, NEW buf \in Seq(Tag), NEW rest \in Seq(Tag),
         NEW d \in Decodes(buf), Decoded(d, SubSeq(buf, 1, d.consumed))
  PROVE  Weight(make, SubSeq(buf, d.consumed + 1, Len(buf)) \o rest, sent, read' \cup forgotten)
           <= Weight(make, buf \o rest, sent, read \cup forgotten)
<1> DEFINE q == d.consumed
           b == SubSeq(buf, 1, q)
           left == SubSeq(buf, q + 1, Len(buf))
           s == buf \o rest
           r == read \cup forgotten
           r2 == read' \cup forgotten
<1>1. Cut(make, buf, q)
  BY Decoding
<1>2. r \subseteq r2 /\ (Whole(b) => Number(b) \in r2)
  BY DEF Decoded
<1> HIDE DEF q
<1>3. Cut(make, s, q) /\ q \in 1..Len(buf)
  BY <1>1, CutMore
<1>4. q \in 0..Len(buf)
  BY <1>3
<1>5. SubSeq(s, 1, q) = b /\ SubSeq(s, q + 1, Len(s)) = left \o rest /\ s \in Seq(Tag)
  BY <1>4, TakeJoined
<1> HIDE DEF b, left, s, r, r2
<1>6. ASSUME NEW n, NEW j, SafeAt(make, n, s, j, q), Starts(make, s, j)
      PROVE  n \in r2
  <2>1. /\ j \in 1..Len(s) /\ q \in 1..Len(s) /\ j <= q /\ Lies(n, s, j, q)
        /\ make = "icom" => j + 5 <= q
    BY <1>6 DEF SafeAt, Clean
  <2>2. j < q \/ make # "icom"
    BY <1>5, <2>1
  <2>3. Whole(SubSeq(s, 1, q)) /\ Number(SubSeq(s, 1, q)) = n
    BY <1>5, <1>6, <2>1, <2>2, WholeIs
  <2> QED  BY <1>2, <1>5, <2>3
<1>7. Weight(make, SubSeq(s, q + 1, Len(s)), sent, r2) <= Weight(make, s, sent, r)
  BY <1>2, <1>3, <1>5, <1>6, CutWeighs
<1> QED  BY <1>5, <1>7 DEF left, s, r, r2, q

\* Returning forgets frames that were not settled.
LEMMA ReturnSound ==
  ASSUME sent \in Nat, NEW a \in Seq(Tag), NEW left \in Seq(Tag), NEW rest \in Seq(Tag), NEW r, NEW w, NEW F,
         Sound(make, (a \o left) \o rest, sent, r, w, F)
  PROVE  Sound(make, a \o rest, sent, r \cup Inside(left), w, F)
<1>1. Good(make, left)
  BY SoundMiddle DEF Good
<1>2. Inside(left) \subseteq 1..sent
  BY DEF Inside
<1>3. Ended(left, Inside(left))
  BY <1>1, InsideEnds DEF Ended
<1> QED  BY <1>2, <1>3, SoundOut

\* Returning adds the frame it tears, and the one an open idle_buf would.
LEMMA ReturnLeaves ==
  ASSUME sent \in Nat, NEW idle \in Seq(Tag), NEW left \in Seq(Tag), NEW rest \in Seq(Tag), NEW r,
         Good(make, left)
  PROVE  Weight(make, idle \o rest, sent, r \cup Inside(left))
           <= Weight(make, left \o rest, sent, r) + One(Open(make, idle)) + One(Partial(left))
<1> DEFINE s == left \o rest
           r2 == r \cup Inside(left)
<1>1. /\ s \in Seq(Tag) /\ Len(s) = Len(left) + Len(rest) /\ Len(left) \in Nat /\ Len(rest) \in Nat
      /\ \A i \in 1..Len(left) : s[i] = left[i]
  BY JoinedIs
<1> HIDE DEF s
<1>2. ASSUME NEW n, NEW j, NEW k, SafeAt(make, n, s, j, k), k <= Len(left)
      PROVE  n \in r2
  <2>1. j \in 1..Len(s) /\ k \in 1..Len(s) /\ j <= k /\ Lies(n, s, j, k)
    BY <1>2 DEF SafeAt
  <2>2. j \in 1..Len(left) /\ k \in 1..Len(left) /\ \A i \in j..k : s[i] = left[i]
    BY <1>1, <1>2, <2>1
  <2>3. Lies(n, left, j, k)
    BY <2>1, <2>2 DEF Lies
  <2>4. n \in Inside(left)
    BY <2>1, <2>2, <2>3, InsideHas
  <2> QED  BY <2>4
<1>3. ASSUME NEW n, NEW j, NEW k, SafeAt(make, n, s, j, k), j <= Len(left), Len(left) < k
      PROVE  Partial(left)
  <2>1. j \in 1..Len(s) /\ k \in 1..Len(s) /\ Lies(n, s, j, k)
    BY <1>3 DEF SafeAt
  <2>2. Len(left) \in j..k /\ Len(left) \in 1..Len(left) /\ left # <<>>
    BY <1>1, <1>3, <2>1
  <2>3. left[Len(left)].at = Len(left) - j + 1 /\ left[Len(left)].size = k - j + 1
    BY <1>1, <2>1, <2>2 DEF Lies
  <2>4. left[Len(left)].at < left[Len(left)].size
    BY <1>1, <1>3, <2>1, <2>3
  <2> QED  BY <2>2, <2>4, PartialHas
<1> HIDE DEF r2
<1>4. r \subseteq r2
  BY DEF r2
<1>5. CASE Partial(left)
  <2>1. Weight(make, idle \o rest, sent, r2)
          <= Weight(make, s, sent, r) + One(Open(make, idle)) + One(TRUE)
    BY <1>2, <1>4, ReturnWeighs DEF s
  <2> QED  BY <1>5, <2>1 DEF r2, s, One
<1>6. CASE ~Partial(left)
  <2>1. Weight(make, idle \o rest, sent, r2)
          <= Weight(make, s, sent, r) + One(Open(make, idle)) + One(FALSE)
    BY <1>2, <1>3, <1>4, <1>6, ReturnWeighs DEF s
  <2> QED  BY <1>6, <2>1 DEF r2, s, One
<1> QED  BY <1>5, <1>6

-----------------------------------------------------------------------------
(* The inductive invariant.                                                *)

Busy == phase \in {"query", "set"}
\* What is on the computer's side and on its way to it; and of that, what is still read.
Line == (idle_buf \o response_buf) \o flow
Live == IF Busy THEN response_buf \o flow ELSE idle_buf \o flow
Settled == read \cup forgotten

Typed ==
  /\ make \in Makes /\ sent \in Nat /\ cuts \in Nat /\ damages \in Nat /\ IsFiniteSet(fakes)
  /\ idle_buf \in Seq(Tag) /\ response_buf \in Seq(Tag) /\ flow \in Seq(Tag)
  /\ phase \in {"idle", "query", "set", "ended", "closed"}
  /\ ~Busy => response_buf = <<>>
  /\ answers \subseteq BOOLEAN
  /\ ~port.stuck => lines = wanted
Consistent == Sound(make, Line, sent, Settled, wrong, fakes)
Allowed(c, d, F) == 2 * (c + d) - Cardinality(F)
Owing ==
  Weight(make, Live, sent, Settled) + One(Busy /\ Open(make, idle_buf)) <= Allowed(cuts, damages, fakes)
Intact == damages = 0 => Undamaged(make, response_buf \o flow) /\ FALSE \notin answers
IInv == Typed /\ Consistent /\ Owing /\ Intact

\* What is allowed grows by two with each tear and each damage.
LEMMA AllowedIs ==
  ASSUME NEW c \in Nat, NEW d \in Nat, NEW F, IsFiniteSet(F)
  PROVE  /\ Allowed(c, d, F) \in Int
         /\ Allowed(c + 1, d, F) = Allowed(c, d, F) + 2
         /\ Allowed(c, d + 1, F) = Allowed(c, d, F) + 2
<1>1. Cardinality(F) \in Nat
  BY FS_CardinalityType
<1> QED  BY <1>1 DEF Allowed

\* The empty sequence.
LEMMA NoneJoin ==
  ASSUME NEW S, NEW s \in Seq(S)
  PROVE  s \o <<>> = s /\ <<>> \o s = s /\ <<>> \in Seq(S)
BY ConcatEmptySeq

\* Without an exchange there is one buffer.
LEMMA QuietLine ==
  ASSUME idle_buf \in Seq(Tag), flow \in Seq(Tag), ~Busy, response_buf = <<>>
  PROVE  /\ Line = idle_buf \o flow /\ Live = idle_buf \o flow
         /\ (<<>> \o idle_buf) \o flow = idle_buf \o flow
         /\ response_buf \o flow = flow /\ <<>> \in Seq(Tag)
<1>1. idle_buf \o <<>> = idle_buf /\ <<>> \o idle_buf = idle_buf /\ <<>> \o flow = flow /\ <<>> \in Seq(Tag)
  BY NoneJoin
<1> QED  BY <1>1 DEF Line, Live

\* The same after a step.
LEMMA QuietLineNext ==
  ASSUME idle_buf' \in Seq(Tag), flow' \in Seq(Tag), ~Busy', response_buf' = <<>>
  PROVE  /\ Line' = idle_buf' \o flow' /\ Live' = idle_buf' \o flow'
         /\ response_buf' \o flow' = flow'
<1>1. idle_buf' \o <<>> = idle_buf' /\ <<>> \o idle_buf' = idle_buf' /\ <<>> \o flow' = flow' /\ <<>> \in Seq(Tag)
  BY NoneJoin
<1> QED  BY <1>1 DEF Line, Live

\* A step that moves bytes from flow into the buffer that is read.
LEMMA MovedKeeps ==
  ASSUME IInv, Line' = Line, Live' = Live, Busy' = Busy, (Busy => idle_buf' = idle_buf),
         UNCHANGED <<make, sent, read, forgotten, wrong, cuts, damages, fakes>>
  PROVE  Consistent' /\ Owing'
<1>1. Settled' = Settled
  BY DEF Settled
<1>2. Consistent'
  BY <1>1 DEF IInv, Consistent
<1>3. (Busy /\ Open(make, idle_buf))' = (Busy /\ Open(make, idle_buf))
  OBVIOUS
<1> QED  BY <1>1, <1>2, <1>3 DEF IInv, Owing

\* At first there is nothing on the line.
LEMMA InitKeeps ==
  ASSUME Init
  PROVE  IInv
<1>1. /\ make \in Makes /\ port \in Ports[make] /\ lines \in open_with_config(port) /\ wanted = {}
      /\ flow = <<>> /\ idle_buf = <<>> /\ response_buf = <<>> /\ sent = 0 /\ phase = "idle"
      /\ read = {} /\ wrong = 0 /\ answers = {} /\ forgotten = {} /\ cuts = 0 /\ damages = 0
      /\ fakes = {}
  BY DEF Init
<1>2. <<>> \in Seq(Tag)
  BY NoneJoin
<1>3. ~Busy
  BY <1>1 DEF Busy
<1>4. Typed
  <2>1. IsFiniteSet({})
    BY FS_EmptySet
  <2> QED  BY <1>1, <1>2, <1>3, <2>1 DEF Typed, open_with_config
<1>5. Line = <<>> /\ Live = <<>> /\ response_buf \o flow = <<>>
  BY <1>1, <1>2, <1>3, QuietLine, NoneJoin
<1>6. Settled = {} /\ sent \in Nat
  BY <1>1 DEF Settled
<1>7. Consistent
  <2>1. Cardinality(Gone(<<>>, sent, {})) \in Nat
    BY <1>6, GoneFinite
  <2>2. IsFiniteSet({}) /\ Cardinality(Used(<<>>, {})) \in Nat
    BY FS_EmptySet, UsedFinite
  <2> QED  BY <1>1, <1>5, <1>6, <2>1, <2>2 DEF Consistent, Sound, Sorted
<1>8. Owing
  <2>1. Spoiled(make, <<>>, sent, {}) = {}
    BY <1>1 DEF Spoiled
  <2>2. Cardinality(Spoiled(make, <<>>, sent, {})) = 0
    BY <2>1, FS_EmptySet
  <2>3. ~Open(make, <<>>)
    BY DEF Open
  <2>4. Weight(make, Live, sent, Settled) = 0
    BY <1>5, <1>6, <2>2, <2>3 DEF Weight, One
  <2>5. One(Busy /\ Open(make, idle_buf)) = 0
    BY <1>3 DEF One
  <2>6. Allowed(cuts, damages, fakes) = 0
    BY <1>1, FS_EmptySet DEF Allowed
  <2> QED  BY <2>4, <2>5, <2>6 DEF Owing
<1>9. Intact
  BY <1>1, <1>5 DEF Intact, Undamaged, Faithful
<1> QED  BY <1>4, <1>7, <1>8, <1>9 DEF IInv

\* Reading while the task idles: bytes go over to idle_buf.
LEMMA IdleReadKeeps ==
  ASSUME IInv, IdleRead
  PROVE  IInv'
<1>1. /\ idle_buf \in Seq(Tag) /\ response_buf \in Seq(Tag) /\ flow \in Seq(Tag) /\ Typed
      /\ phase = "idle"
      /\ UNCHANGED <<portVars, response_buf, sent, owes, exchanges, pastVars, lossVars>>
  BY DEF IInv, Typed, IdleRead
<1>2. /\ UNCHANGED <<make, port, lines, wanted, response_buf, sent, read, wrong, answers, forgotten, cuts,
                     damages, fakes>>
  BY <1>1 DEF portVars, pastVars, lossVars
<1>3. ~Busy /\ response_buf = <<>>
  BY <1>1 DEF Typed, Busy
<1>4. /\ Line = idle_buf \o flow /\ Live = idle_buf \o flow /\ response_buf \o flow = flow
  BY <1>1, <1>3, QuietLine
<1>5. /\ idle_buf' \in Seq(Tag) /\ flow' \in Seq(Tag) /\ phase' \in {"idle", "ended"}
      /\ idle_buf' \o flow' = idle_buf \o flow
      /\ \E n \in 0..Len(flow) : flow' = SubSeq(flow, n + 1, Len(flow))
  <2>1. CASE \E n \in 1..Len(flow) :
               /\ Receives(n)
               /\ idle_buf' = idle_buf \o SubSeq(flow, 1, n)
               /\ UNCHANGED <<phase, told>>
    <3>1. PICK n \in 1..Len(flow) :
            /\ flow' = SubSeq(flow, n + 1, Len(flow))
            /\ idle_buf' = idle_buf \o SubSeq(flow, 1, n)
            /\ phase' = phase
      BY <2>1 DEF Receives
    <3>2. n \in 0..Len(flow)
      OBVIOUS
    <3>3. idle_buf \in Seq(Tag) /\ flow \in Seq(Tag)
      BY <1>1
    <3> DEFINE c == SubSeq(flow, 1, n)
               e == SubSeq(flow, n + 1, Len(flow))
    <3>4. Parted(Tag, idle_buf, flow, c, e)
      BY <3>2, <3>3, ReceiveJoins
    <3>5. flow' = e /\ idle_buf' = idle_buf \o c
      BY <3>1
    <3> HIDE DEF c, e
    <3>6. idle_buf' \in Seq(Tag) /\ flow' \in Seq(Tag) /\ idle_buf' \o flow' = idle_buf \o flow
      BY <3>4, <3>5 DEF Parted
    <3> QED  BY <1>1, <3>1, <3>2, <3>6
  <2>2. CASE ConnectionLost /\ phase' = "ended" /\ told' = TRUE /\ UNCHANGED <<flow, idle_buf>>
    <3>1. Len(flow) \in Nat /\ SubSeq(flow, 1, Len(flow)) = flow
      BY <1>1
    <3>2. 0 \in 0..Len(flow) /\ flow' = SubSeq(flow, 0 + 1, Len(flow))
      BY <2>2, <3>1
    <3> QED  BY <1>1, <2>2, <3>2
  <2> QED  BY <2>1, <2>2 DEF IdleRead
<1>6. ~Busy' /\ response_buf' = <<>>
  BY <1>2, <1>3, <1>5 DEF Busy
<1>7. /\ Line' = idle_buf' \o flow' /\ Live' = idle_buf' \o flow' /\ response_buf' \o flow' = flow'
  BY <1>5, <1>6, QuietLineNext
<1>8. Line' = Line /\ Live' = Live /\ Busy' = Busy
  <2>1. Line' = Line /\ Live' = Live
    BY <1>4, <1>5, <1>7
  <2>2. Busy' = Busy
    BY <1>1, <1>5 DEF Busy
  <2> QED  BY <2>1, <2>2
<1>9. Consistent' /\ Owing'
  BY <1>2, <1>3, <1>8, MovedKeeps
<1>10. Typed'
  BY <1>1, <1>2, <1>5, <1>6 DEF Typed
<1>11. Intact'
  <2>1. PICK n \in 0..Len(flow) : flow' = SubSeq(flow, n + 1, Len(flow))
    BY <1>5
  <2>2. Undamaged(make, flow) => Undamaged(make, flow')
    BY <1>1, <2>1, UndamagedRest
  <2> QED  BY <1>2, <1>4, <1>7, <2>2 DEF IInv, Intact
<1> QED  BY <1>9, <1>10, <1>11 DEF IInv

\* A frame decoded while the task idles.
LEMMA IdleFrameKeeps ==
  ASSUME IInv, IdleFrame
  PROVE  IInv'
<1>1. /\ idle_buf \in Seq(Tag) /\ response_buf \in Seq(Tag) /\ flow \in Seq(Tag) /\ Typed
      /\ sent \in Nat /\ phase = "idle"
      /\ UNCHANGED <<portVars, flow, response_buf, sent, phase, owes, exchanges,
                     forgotten, cuts, lossVars, told>>
  BY DEF IInv, Typed, IdleFrame
<1>2. UNCHANGED <<make, port, lines, wanted, flow, response_buf, sent, phase, forgotten, cuts, damages, fakes>>
  BY <1>1 DEF portVars, lossVars
<1>3. ~Busy /\ response_buf = <<>>
  BY <1>1 DEF Typed, Busy
<1>4. /\ Line = idle_buf \o flow /\ Live = idle_buf \o flow /\ response_buf \o flow = flow
      /\ (<<>> \o idle_buf) \o flow = idle_buf \o flow /\ <<>> \in Seq(Tag)
  BY <1>1, <1>3, QuietLine
<1>5. PICK d \in Decodes(idle_buf) :
        /\ Decoded(d, SubSeq(idle_buf, 1, d.consumed))
        /\ idle_buf' = SubSeq(idle_buf, d.consumed + 1, Len(idle_buf))
  BY DEF IdleFrame
<1>6. d.consumed \in 0..Len(idle_buf)
  BY <1>1, Decoding
<1>7. idle_buf' \in Seq(Tag)
  <2>1. Parted(Tag, idle_buf, idle_buf, SubSeq(idle_buf, 1, d.consumed), idle_buf')
    BY <1>1, <1>5, <1>6, ReceiveJoins
  <2> QED  BY <2>1 DEF Parted
<1>8. ~Busy' /\ response_buf' = <<>>
  BY <1>2, <1>3 DEF Busy
<1>9. /\ Line' = idle_buf' \o flow' /\ Live' = idle_buf' \o flow' /\ response_buf' \o flow' = flow'
  BY <1>1, <1>2, <1>7, <1>8, QuietLineNext
<1>10. <<>> \o idle_buf' = idle_buf'
  BY <1>7, NoneJoin
<1>11. Consistent'
  <2>1. Sound(make, (<<>> \o idle_buf) \o flow, sent, read \cup forgotten, wrong, fakes)
    BY <1>4 DEF IInv, Consistent, Settled
  <2>2. Sound(make, (<<>> \o SubSeq(idle_buf, d.consumed + 1, Len(idle_buf))) \o flow, sent,
              read' \cup forgotten, wrong', fakes)
    BY <1>1, <1>4, <1>5, <2>1, DecodeSound
  <2>3. Sound(make, idle_buf' \o flow, sent, read' \cup forgotten, wrong', fakes)
    BY <1>5, <1>10, <2>2
  <2> QED  BY <1>2, <1>9, <2>3 DEF Consistent, Settled
<1>12. Owing'
  <2>1. Weight(make, idle_buf' \o flow, sent, read' \cup forgotten)
          <= Weight(make, idle_buf \o flow, sent, read \cup forgotten)
    BY <1>1, <1>5, DecodeWeighs
  <2>2. /\ Weight(make, idle_buf' \o flow, sent, read' \cup forgotten) \in Nat
        /\ Weight(make, idle_buf \o flow, sent, read \cup forgotten) \in Nat
    BY <1>1, WeightNat
  <2>3. Weight(make, idle_buf \o flow, sent, read \cup forgotten) + 0 <= Allowed(cuts, damages, fakes)
    BY <1>3, <1>4 DEF IInv, Owing, Settled, One
  <2>4. Allowed(cuts, damages, fakes) \in Int
    BY <1>1, AllowedIs DEF Typed
  <2>5. Weight(make, idle_buf' \o flow, sent, read' \cup forgotten) + 0 <= Allowed(cuts, damages, fakes)
    BY <2>1, <2>2, <2>3, <2>4
  <2>6. /\ Weight(make, Live, sent, Settled)' = Weight(make, idle_buf' \o flow, sent, read' \cup forgotten)
        /\ One(Busy /\ Open(make, idle_buf))' = 0
    BY <1>2, <1>8, <1>9 DEF Settled, One
  <2> QED  BY <1>2, <2>5, <2>6 DEF Owing
<1>13. answers' = answers
  <2>1. ~IsAnswer(d)
    BY <1>1 DEF IsAnswer
  <2> QED  BY <1>5, <2>1 DEF Decoded
<1>14. Typed'
  BY <1>1, <1>2, <1>7, <1>8, <1>13 DEF Typed
<1>15. Intact'
  BY <1>2, <1>13 DEF IInv, Intact
<1> QED  BY <1>11, <1>12, <1>14, <1>15 DEF IInv

\* Reading in an exchange: bytes go over to its buffer.
LEMMA ExchangeReadKeeps ==
  ASSUME IInv, ExchangeRead
  PROVE  IInv'
<1>1. /\ idle_buf \in Seq(Tag) /\ response_buf \in Seq(Tag) /\ flow \in Seq(Tag) /\ Typed
      /\ phase \in {"query", "set"}
      /\ UNCHANGED <<portVars, idle_buf, sent, phase, owes, exchanges, pastVars, lossVars, told>>
  BY DEF IInv, Typed, ExchangeRead
<1>2. /\ UNCHANGED <<make, port, lines, wanted, idle_buf, sent, phase, read, wrong, answers, forgotten, cuts,
                     damages, fakes>>
  BY <1>1 DEF portVars, pastVars, lossVars
<1>3. PICK n \in 1..Len(flow) : /\ flow' = SubSeq(flow, n + 1, Len(flow))
                                /\ response_buf' = response_buf \o SubSeq(flow, 1, n)
  BY DEF ExchangeRead, Receives
<1>4. n \in 0..Len(flow)
  OBVIOUS
<1> DEFINE c == SubSeq(flow, 1, n)
           e == SubSeq(flow, n + 1, Len(flow))
<1>5. c \in Seq(Tag) /\ e \in Seq(Tag) /\ c \o e = flow /\ (response_buf \o c) \o e = response_buf \o flow
  <2>1. Parted(Tag, response_buf, flow, c, e)
    BY <1>1, <1>4, ReceiveJoins
  <2> HIDE DEF c, e
  <2> QED  BY <2>1 DEF Parted
<1> HIDE DEF c, e
<1>6. response_buf' = response_buf \o c /\ flow' = e
  BY <1>3 DEF c, e
<1>7. response_buf' \in Seq(Tag) /\ flow' \in Seq(Tag)
  <2>1. response_buf \in Seq(Tag) /\ c \in Seq(Tag)
    BY <1>1, <1>5
  <2> QED  BY <1>5, <1>6, <2>1, JoinedIs
<1>8. Busy /\ Busy'
  BY <1>1, <1>2 DEF Busy
<1>9. Line' = Line
  <2>1. idle_buf \in Seq(Tag) /\ response_buf \in Seq(Tag) /\ c \in Seq(Tag) /\ e \in Seq(Tag)
    BY <1>1, <1>5
  <2>2. Regroups(idle_buf, response_buf, c, e)
    BY <2>1, FourJoin
  <2>3. (idle_buf \o response_buf) \o (c \o e) = (idle_buf \o (response_buf \o c)) \o e
    BY <2>2 DEF Regroups
  <2> QED  BY <1>2, <1>5, <1>6, <2>3 DEF Line
<1>10. Live' = Live /\ response_buf' \o flow' = response_buf \o flow
  BY <1>5, <1>6, <1>8 DEF Live
<1>11. Consistent' /\ Owing'
  BY <1>2, <1>8, <1>9, <1>10, MovedKeeps
<1>12. Typed'
  BY <1>1, <1>2, <1>7, <1>8 DEF Typed
<1>13. Intact'
  BY <1>2, <1>10 DEF IInv, Intact
<1> QED  BY <1>11, <1>12, <1>13 DEF IInv

\* Nothing is left of an exchange when it has returned.
LEMMA ReturnKeeps ==
  ASSUME sent \in Nat, idle_buf \in Seq(Tag), flow \in Seq(Tag), cuts \in Nat, damages \in Nat, IsFiniteSet(fakes),
         NEW left \in Seq(Tag), NEW r, NEW w,
         Sound(make, (idle_buf \o left) \o flow, sent, r, w, fakes),
         Weight(make, left \o flow, sent, r) + One(Open(make, idle_buf)) <= Allowed(cuts, damages, fakes),
         Return(left), UNCHANGED <<make, idle_buf, flow, sent, damages, fakes>>,
         read' \cup forgotten = r, wrong' = w
  PROVE  /\ Consistent' /\ Owing' /\ cuts' \in Nat /\ ~Busy' /\ response_buf' = <<>>
         /\ response_buf' \o flow' = flow /\ phase' = "idle"
<1>1. /\ phase' = "idle" /\ response_buf' = <<>> /\ forgotten' = forgotten \cup Inside(left)
      /\ cuts' = IF Partial(left) THEN cuts + 1 ELSE cuts
  BY DEF Return
<1>2. ~Busy' /\ idle_buf' \in Seq(Tag) /\ flow' \in Seq(Tag) /\ cuts' \in Nat
  BY <1>1 DEF Busy
<1>3. Line' = idle_buf \o flow /\ Live' = idle_buf \o flow /\ response_buf' \o flow' = flow
  <2>1. Line' = idle_buf' \o flow' /\ Live' = idle_buf' \o flow' /\ response_buf' \o flow' = flow'
    BY <1>1, <1>2, QuietLineNext
  <2> QED  BY <2>1
<1>4. Settled' = r \cup Inside(left)
  BY <1>1 DEF Settled
<1>5. Consistent'
  <2>1. Sound(make, idle_buf \o flow, sent, r \cup Inside(left), w, fakes)
    BY ReturnSound
  <2> QED  BY <1>3, <1>4, <2>1 DEF Consistent
<1>6. Owing'
  <2>1. Good(make, left)
    BY SoundMiddle DEF Good
  <2> DEFINE W == Weight(make, idle_buf \o flow, sent, r \cup Inside(left))
             V == Weight(make, left \o flow, sent, r)
             o == One(Open(make, idle_buf))
             p == One(Partial(left))
  <2>2. W <= V + o + p
    BY <2>1, ReturnLeaves
  <2>3. W \in Nat /\ V \in Nat
    BY WeightNat
  <2>4. V + o <= Allowed(cuts, damages, fakes)
    OBVIOUS
  <2>5. Weight(make, Live, sent, Settled)' = W /\ One(Busy /\ Open(make, idle_buf))' = 0
    BY <1>2, <1>3, <1>4 DEF One
  <2>6. o \in Nat /\ p \in Nat
    BY DEF One
  <2> DEFINE x == Allowed(cuts, damages, fakes)
             y == Allowed(cuts', damages, fakes)
  <2>7. x \in Int /\ y \in Int /\ x + p <= y
    <3>1. x \in Int /\ Allowed(cuts + 1, damages, fakes) = x + 2
      BY AllowedIs
    <3>2. cuts' = cuts => y = x
      OBVIOUS
    <3>3. cuts' = cuts + 1 => y = x + 2
      BY <3>1
    <3> HIDE DEF x, y
    <3> QED  BY <1>1, <3>1, <3>2, <3>3 DEF One
  <2> HIDE DEF W, V, o, p, x, y
  <2>8. V + o <= x
    BY <2>4 DEF x
  <2>9. W + 0 <= y
    BY <2>2, <2>3, <2>6, <2>7, <2>8
  <2> QED  BY <2>5, <2>9 DEF Owing, y
<1> QED  BY <1>1, <1>2, <1>3, <1>5, <1>6

\* What comes behind what was taken is undamaged if all was.
LEMMA FlowUndamaged ==
  ASSUME NEW m, NEW S, NEW s \in Seq(S), NEW t \in Seq(S), Undamaged(m, s \o t)
  PROVE  Undamaged(m, t)
<1>1. Len(s) \in 0..Len(s) /\ Len(s) \in Nat
  OBVIOUS
<1>2. /\ SubSeq(s \o t, Len(s) + 1, Len(s \o t)) = SubSeq(s, Len(s) + 1, Len(s)) \o t
      /\ s \o t \in Seq(S) /\ Len(s) \in 0..Len(s \o t)
  BY <1>1, TakeJoined
<1>3. SubSeq(s, Len(s) + 1, Len(s)) = <<>>
  OBVIOUS
<1>4. <<>> \o t = t
  BY NoneJoin
<1> DEFINE u == s \o t
           q == Len(s)
<1>5. u \in Seq(S) /\ Undamaged(m, u) /\ q \in 0..Len(u)
  BY <1>2
<1> HIDE DEF u, q
<1>6. Undamaged(m, SubSeq(u, q + 1, Len(u)))
  BY <1>5, UndamagedRest
<1> QED  BY <1>2, <1>3, <1>4, <1>6 DEF u, q

\* An exchange that runs out of time, or of the line, returns.
LEMMA ExchangeEndsKeeps ==
  ASSUME IInv, ExchangeEnds
  PROVE  IInv'
<1>1. /\ idle_buf \in Seq(Tag) /\ response_buf \in Seq(Tag) /\ flow \in Seq(Tag) /\ Typed
      /\ sent \in Nat /\ cuts \in Nat /\ damages \in Nat /\ IsFiniteSet(fakes)
  BY DEF IInv, Typed
<1>2. /\ phase \in {"query", "set"} /\ Return(response_buf)
      /\ UNCHANGED <<portVars, flow, idle_buf, sent, owes, exchanges, read, wrong, answers, lossVars, told>>
  BY DEF ExchangeEnds
<1>3. UNCHANGED <<make, port, lines, wanted, flow, idle_buf, sent, read, wrong, answers, damages, fakes>>
  BY <1>2 DEF portVars, lossVars
<1>4. Busy
  BY <1>2 DEF Busy
<1>5. Sound(make, (idle_buf \o response_buf) \o flow, sent, Settled, wrong, fakes)
  BY DEF IInv, Consistent, Line
<1>6. Weight(make, response_buf \o flow, sent, Settled) + One(Open(make, idle_buf)) <= Allowed(cuts, damages, fakes)
  BY <1>4 DEF IInv, Owing, Live, One
<1>7. read' \cup forgotten = Settled /\ wrong' = wrong
  BY <1>3 DEF Settled
<1>8. /\ Consistent' /\ Owing' /\ cuts' \in Nat /\ ~Busy' /\ response_buf' = <<>>
      /\ response_buf' \o flow' = flow /\ phase' = "idle"
  BY <1>1, <1>2, <1>3, <1>5, <1>6, <1>7, ReturnKeeps
<1>9. Typed'
  <2>1. response_buf' \in Seq(Tag)
    BY <1>8, NoneJoin
  <2> QED  BY <1>1, <1>3, <1>8, <2>1 DEF Typed
<1>10. Intact'
  <2>1. Undamaged(make, response_buf \o flow) => Undamaged(make, flow)
    BY <1>1, FlowUndamaged
  <2> QED  BY <1>3, <1>8, <2>1 DEF IInv, Intact
<1> QED  BY <1>8, <1>9, <1>10 DEF IInv

\* What an exchange will read is sound.
LEMMA AllOkSaid ==
  ASSUME Typed, Consistent
  PROVE  AllOk(make, response_buf \o flow, sent)
<1>1. idle_buf \in Seq(Tag) /\ response_buf \in Seq(Tag) /\ flow \in Seq(Tag)
  BY DEF Typed
<1>2. Sound(make, (idle_buf \o response_buf) \o flow, sent, Settled, wrong, fakes)
  BY DEF Consistent, Line
<1> DEFINE u == response_buf \o flow
<1>3. u \in Seq(Tag)
  BY <1>1, JoinedIs
<1>4. idle_buf \o u \in Seq(Tag)
  BY <1>1, <1>3, JoinedIs
<1>5. (idle_buf \o response_buf) \o flow = idle_buf \o u
  BY <1>1, ConcatAssociative
<1>6. Sound(make, (idle_buf \o u) \o <<>>, sent, Settled, wrong, fakes) /\ <<>> \in Seq(Tag)
  BY <1>2, <1>4, <1>5, NoneJoin
<1> HIDE DEF u
<1>7. AllOk(make, u, sent)
  BY <1>1, <1>3, <1>6, SoundMiddle
<1> QED  BY <1>7 DEF u

\* A frame decoded in an exchange, which may return with it.
LEMMA ExchangeFrameKeeps ==
  ASSUME IInv, ExchangeFrame
  PROVE  IInv'
<1>1. /\ idle_buf \in Seq(Tag) /\ response_buf \in Seq(Tag) /\ flow \in Seq(Tag) /\ Typed
      /\ sent \in Nat /\ cuts \in Nat /\ damages \in Nat /\ make \in Makes /\ IsFiniteSet(fakes)
  BY DEF IInv, Typed
<1>2. /\ phase \in {"query", "set"}
      /\ UNCHANGED <<portVars, flow, idle_buf, sent, owes, exchanges, lossVars, told>>
  BY DEF ExchangeFrame
<1>3. UNCHANGED <<make, port, lines, wanted, flow, idle_buf, sent, damages, fakes>>
  BY <1>2 DEF portVars, lossVars
<1>4. PICK d \in Decodes(response_buf) :
        LET left == SubSeq(response_buf, d.consumed + 1, Len(response_buf))
        IN /\ Decoded(d, SubSeq(response_buf, 1, d.consumed))
           /\ IF IsAnswer(d) \/ Refuses(d) THEN Return(left)
              ELSE response_buf' = left /\ UNCHANGED <<phase, forgotten, cuts>>
  BY DEF ExchangeFrame
<1> DEFINE q == d.consumed
           left == SubSeq(response_buf, q + 1, Len(response_buf))
           r2 == read' \cup forgotten
<1>5. /\ Decoded(d, SubSeq(response_buf, 1, q))
      /\ IF IsAnswer(d) \/ Refuses(d) THEN Return(left)
         ELSE response_buf' = left /\ UNCHANGED <<phase, forgotten, cuts>>
  BY <1>4
<1>6. q \in 0..Len(response_buf)
  BY <1>1, Decoding
<1>7. left \in Seq(Tag)
  <2>1. Parted(Tag, response_buf, response_buf, SubSeq(response_buf, 1, q), left)
    BY <1>1, <1>6, ReceiveJoins
  <2> QED  BY <2>1 DEF Parted
<1>8. Busy
  BY <1>2 DEF Busy
<1>9. Sound(make, (idle_buf \o left) \o flow, sent, r2, wrong', fakes)
  <2>1. Sound(make, (idle_buf \o response_buf) \o flow, sent, read \cup forgotten, wrong, fakes)
    BY DEF IInv, Consistent, Line, Settled
  <2> QED  BY <1>1, <1>5, <2>1, DecodeSound
<1>10. Weight(make, left \o flow, sent, r2) + One(Open(make, idle_buf)) <= Allowed(cuts, damages, fakes)
  <2> DEFINE W == Weight(make, left \o flow, sent, r2)
             V == Weight(make, response_buf \o flow, sent, read \cup forgotten)
             o == One(Open(make, idle_buf))
             x == Allowed(cuts, damages, fakes)
  <2>1. W <= V
    BY <1>1, <1>5, DecodeWeighs
  <2>2. W \in Nat /\ V \in Nat
    BY <1>1, WeightNat
  <2>3. V + o <= x
    BY <1>8 DEF IInv, Owing, Live, One, Settled
  <2>4. o \in Nat /\ x \in Int
    BY <1>1, AllowedIs DEF One
  <2> HIDE DEF W, V, o, x
  <2>5. W + o <= x
    BY <2>1, <2>2, <2>3, <2>4
  <2> QED  BY <2>5 DEF W, o, x
<1>11. answers' \subseteq BOOLEAN
  <2>1. answers \subseteq BOOLEAN /\ Whole(SubSeq(response_buf, 1, q)) \in BOOLEAN
    BY <1>1 DEF Typed, Whole
  <2> QED  BY <1>5, <2>1 DEF Decoded
<1>12. damages = 0 => FALSE \notin answers'
  <2> SUFFICES ASSUME damages = 0  PROVE  FALSE \notin answers'
    OBVIOUS
  <2>1. Undamaged(make, response_buf \o flow) /\ FALSE \notin answers
    BY DEF IInv, Intact
  <2>2. AllOk(make, response_buf \o flow, sent)
    BY AllOkSaid DEF IInv
  <2>3. IsAnswer(d) => Whole(SubSeq(response_buf, 1, q))
    BY <1>1, <2>1, <2>2, AnswerWhole
  <2> QED  BY <1>5, <2>1, <2>3 DEF Decoded
<1>13. Undamaged(make, response_buf \o flow) => Undamaged(make, left \o flow)
  <2> SUFFICES ASSUME Undamaged(make, response_buf \o flow)  PROVE  Undamaged(make, left \o flow)
    OBVIOUS
  <2> DEFINE u == response_buf \o flow
  <2>1. SubSeq(u, q + 1, Len(u)) = left \o flow /\ u \in Seq(Tag) /\ q \in 0..Len(u)
    BY <1>1, <1>6, TakeJoined
  <2>2. Undamaged(make, u)
    OBVIOUS
  <2> HIDE DEF u, left, q
  <2>3. Undamaged(make, SubSeq(u, q + 1, Len(u)))
    BY <2>1, <2>2, UndamagedRest
  <2> QED  BY <2>1, <2>3
<1> HIDE DEF left, q
<1>14. CASE IsAnswer(d) \/ Refuses(d)
  <2>1. Return(left)
    BY <1>5, <1>14
  <2>2. /\ Consistent' /\ Owing' /\ cuts' \in Nat /\ ~Busy' /\ response_buf' = <<>>
        /\ response_buf' \o flow' = flow /\ phase' = "idle"
    BY <1>1, <1>3, <1>7, <1>9, <1>10, <2>1, ReturnKeeps
  <2>3. Typed'
    <3>1. response_buf' \in Seq(Tag)
      BY <2>2, NoneJoin
    <3> QED  BY <1>1, <1>3, <1>11, <2>2, <3>1 DEF Typed
  <2>4. Intact'
    <3>1. Undamaged(make, response_buf \o flow) => Undamaged(make, flow)
      BY <1>1, FlowUndamaged
    <3> QED  BY <1>3, <1>12, <2>2, <3>1 DEF IInv, Intact
  <2> QED  BY <2>2, <2>3, <2>4 DEF IInv
<1>15. CASE ~(IsAnswer(d) \/ Refuses(d))
  <2>1. response_buf' = left /\ UNCHANGED <<phase, forgotten, cuts>>
    BY <1>5, <1>15
  <2>2. Busy'
    BY <1>2, <2>1 DEF Busy
  <2>3. Consistent'
    BY <1>3, <1>9, <2>1 DEF Consistent, Line, Settled
  <2>4. Owing'
    <3>1. Live' = left \o flow /\ Settled' = r2
      BY <1>3, <2>1, <2>2 DEF Live, Settled
    <3>2. One(Busy /\ Open(make, idle_buf))' = One(Open(make, idle_buf))
      BY <1>3, <2>2 DEF One
    <3> QED  BY <1>3, <1>10, <2>1, <3>1, <3>2 DEF Owing
  <2>5. Typed'
    BY <1>1, <1>3, <1>7, <1>11, <2>1, <2>2 DEF Typed
  <2>6. Intact'
    BY <1>3, <1>12, <1>13, <2>1 DEF IInv, Intact
  <2> QED  BY <2>3, <2>4, <2>5, <2>6 DEF IInv
<1> QED  BY <1>14, <1>15

\* A frame that comes as it was sent, or one that does not.
LEMMA SaidBehind ==
  ASSUME NEW m, NEW S, NEW a \in Seq(S), NEW b \in Seq(S), NEW c \in Seq(S), NEW t \in Seq(S),
         NEW k \in Nat, NEW r, NEW w, NEW F, Sound(m, (a \o b) \o c, k, r, w, F), Fresh(m, t, k)
  PROVE  /\ Sound(m, (a \o b) \o (c \o t), k + 1, r, w, F)
         /\ Weight(m, b \o (c \o t), k + 1, r) <= Weight(m, b \o c, k, r) + 2
         /\ SafeAt(m, k + 1, t, 1, Len(t)) => Weight(m, b \o (c \o t), k + 1, r) <= Weight(m, b \o c, k, r)
<1>1. a \o b \in Seq(S)
  BY JoinedIs
<1> DEFINE u == a \o b
           v == u \o c
           x == b \o c
<1>2. u \in Seq(S) /\ v \in Seq(S) /\ x \in Seq(S)
  BY <1>1, JoinedIs
<1>3. v \o t = u \o (c \o t) /\ x \o t = b \o (c \o t)
  <2>0. u \in Seq(S)
    BY <1>1
  <2> HIDE DEF u, v, x
  <2>1. Associates(u, c, t) /\ Associates(b, c, t)
    BY <2>0, ThreeJoin
  <2> QED  BY <2>1 DEF v, x, Associates
<1>4. Sound(m, v, k, r, w, F)
  OBVIOUS
<1> HIDE DEF v, x
<1>5. Sound(m, v \o t, k + 1, r, w, F)
  BY <1>2, <1>4, FreshSound
<1>6. /\ Weight(m, x \o t, k + 1, r) <= Weight(m, x, k, r) + 2
      /\ SafeAt(m, k + 1, t, 1, Len(t)) => Weight(m, x \o t, k + 1, r) <= Weight(m, x, k, r)
  BY <1>2, SayWeighs
<1> QED  BY <1>3, <1>5, <1>6 DEF x

\* The radio sends a frame.
LEMMA RadioSays ==
  ASSUME IInv, NEW frame \in Frames(make), Say(frame),
         UNCHANGED <<make, port, lines, wanted, idle_buf, response_buf, phase, read, wrong, answers,
                     forgotten, cuts, damages, fakes>>
  PROVE  IInv'
<1>1. /\ idle_buf \in Seq(Tag) /\ response_buf \in Seq(Tag) /\ flow \in Seq(Tag) /\ Typed
      /\ sent \in Nat /\ cuts \in Nat /\ damages \in Nat /\ make \in Makes /\ IsFiniteSet(fakes)
  BY DEF IInv, Typed
<1> DEFINE t == Tagged(frame, sent + 1)
<1>2. sent' = sent + 1 /\ flow' = flow \o t
  BY DEF Say
<1>3. t \in Seq(Tag) /\ Fresh(make, t, sent) /\ SafeAt(make, sent + 1, t, 1, Len(t))
  BY <1>1, SayIs
<1>4. Undamaged(make, response_buf \o flow) => Undamaged(make, response_buf' \o flow')
  <2> SUFFICES ASSUME Undamaged(make, response_buf \o flow)
               PROVE  Undamaged(make, response_buf' \o flow')
    OBVIOUS
  <2> DEFINE u == response_buf \o flow
  <2>1. u \in Seq(Tag) /\ AllOk(make, u, sent) /\ Undamaged(make, u)
    BY <1>1, JoinedIs, AllOkSaid DEF IInv
  <2> HIDE DEF u, t
  <2>2. Undamaged(make, u \o Tagged(frame, sent + 1))
    BY <1>1, <2>1, UndamagedSay
  <2>3. Associates(response_buf, flow, t)
    BY <1>1, <1>3, ThreeJoin
  <2>4. u \o t = response_buf \o (flow \o t)
    BY <2>3 DEF u, Associates
  <2> QED  BY <1>2, <2>2, <2>4 DEF t
<1> HIDE DEF t
<1>5. flow' \in Seq(Tag) /\ sent' \in Nat /\ Busy' = Busy
  <2>1. flow \o t \in Seq(Tag)
    BY <1>1, <1>3, JoinedIs
  <2> QED  BY <1>1, <1>2, <2>1 DEF Busy
<1>6. Typed'
  BY <1>1, <1>5 DEF Typed
<1>7. Consistent'
  <2>1. Sound(make, (idle_buf \o response_buf) \o flow, sent, Settled, wrong, fakes)
    BY DEF IInv, Consistent, Line
  <2>2. Sound(make, (idle_buf \o response_buf) \o (flow \o t), sent + 1, Settled, wrong, fakes)
    BY <1>1, <1>3, <2>1, SaidBehind
  <2> QED  BY <1>2, <2>2 DEF Consistent, Line, Settled
<1>8. Owing'
  <2> DEFINE W == Weight(make, Live, sent, Settled)
             V == Weight(make, Live', sent + 1, Settled)
             o == One(Busy /\ Open(make, idle_buf))
  <2>1. V <= W
    <3>1. CASE Busy
      <4>1. Sound(make, (idle_buf \o response_buf) \o flow, sent, Settled, wrong, fakes)
        BY DEF IInv, Consistent, Line
      <4>2. Weight(make, response_buf \o (flow \o t), sent + 1, Settled)
              <= Weight(make, response_buf \o flow, sent, Settled)
        BY <1>1, <1>3, <4>1, SaidBehind
      <4>3. Live' = response_buf \o (flow \o t) /\ Live = response_buf \o flow
        BY <1>2, <1>5, <3>1 DEF Live
      <4> QED  BY <4>2, <4>3
    <3>2. CASE ~Busy
      <4>1. (<<>> \o idle_buf) \o flow = Line /\ <<>> \in Seq(Tag)
        BY <1>1, <3>2, QuietLine DEF Typed
      <4>2. Sound(make, (<<>> \o idle_buf) \o flow, sent, Settled, wrong, fakes)
        BY <4>1 DEF IInv, Consistent
      <4>3. Weight(make, idle_buf \o (flow \o t), sent + 1, Settled)
              <= Weight(make, idle_buf \o flow, sent, Settled)
        BY <1>1, <1>3, <4>1, <4>2, SaidBehind
      <4>4. Live' = idle_buf \o (flow \o t) /\ Live = idle_buf \o flow
        BY <1>2, <1>5, <3>2 DEF Live
      <4> QED  BY <4>3, <4>4
    <3> QED  BY <3>1, <3>2
  <2>2. W \in Nat /\ V \in Nat /\ o \in Nat /\ Allowed(cuts, damages, fakes) \in Int
    <3>1. sent + 1 \in Nat
      BY <1>1
    <3> QED  BY <1>1, <3>1, WeightNat, AllowedIs DEF One
  <2>3. W + o <= Allowed(cuts, damages, fakes)
    BY DEF IInv, Owing
  <2>4. Weight(make, Live, sent, Settled)' = V /\ o' = o
    BY <1>2, <1>5 DEF Settled
  <2> HIDE DEF W, V, o
  <2>5. V + o <= Allowed(cuts, damages, fakes)
    BY <2>1, <2>2, <2>3
  <2> QED  BY <2>4, <2>5 DEF Owing, o
<1>9. Intact'
  BY <1>4 DEF IInv, Intact
<1> QED  BY <1>6, <1>7, <1>8, <1>9 DEF IInv

\* A byte is lost.
LEMMA LoseKeeps ==
  ASSUME IInv, Lose
  PROVE  IInv'
<1>1. /\ idle_buf \in Seq(Tag) /\ response_buf \in Seq(Tag) /\ flow \in Seq(Tag) /\ Typed
      /\ sent \in Nat /\ cuts \in Nat /\ damages \in Nat /\ make \in Makes /\ IsFiniteSet(fakes)
  BY DEF IInv, Typed
<1>2. /\ damages' = damages + 1
      /\ UNCHANGED <<make, port, lines, wanted, sent, idle_buf, response_buf, phase, read, wrong, answers,
                     forgotten, cuts, fakes>>
  BY DEF Lose, portVars, pastVars
<1>3. PICK i \in 1..Len(flow) : flow' = RemoveAt(flow, i)
  BY <1>1 DEF Lose
<1>4. flow' \in Seq(Tag) /\ damages' \in Nat /\ Busy' = Busy
  <2>1. RemoveAt(flow, i) \in Seq(Tag)
    BY <1>1, RemoveAtIs
  <2> QED  BY <1>1, <1>2, <1>3, <2>1 DEF Busy
<1>5. Typed'
  BY <1>1, <1>2, <1>4 DEF Typed
<1>6. Consistent'
  <2> DEFINE u == idle_buf \o response_buf
             p == Len(u) + i
  <2>1. u \in Seq(Tag)
    BY <1>1, JoinedIs
  <2> HIDE DEF u
  <2>2. RemoveAt(u \o flow, p) = u \o RemoveAt(flow, i) /\ p \in 1..Len(u \o flow) /\ u \o flow \in Seq(Tag)
    BY <1>1, <2>1, RemoveLater
  <2>3. Sound(make, u \o flow, sent, Settled, wrong, fakes)
    BY DEF IInv, Consistent, Line, u
  <2> DEFINE v == u \o flow
  <2> HIDE DEF p, v
  <2>4. Sound(make, RemoveAt(v, p), sent, Settled, wrong, fakes)
    BY <1>1, <2>2, <2>3, SoundLose DEF v
  <2>5. Line' = RemoveAt(v, p)
    BY <1>2, <1>3, <2>2 DEF Line, u, v
  <2> QED  BY <1>2, <2>4, <2>5 DEF Consistent, Settled
<1>7. Owing'
  <2>1. PICK b \in Seq(Tag) : Live = b \o flow /\ Live' = b \o flow'
    <3>1. CASE Busy
      BY <1>1, <1>2, <1>4, <3>1 DEF Live
    <3>2. CASE ~Busy
      BY <1>1, <1>2, <1>4, <3>2 DEF Live
    <3> QED  BY <3>1, <3>2
  <2> DEFINE v == b \o flow
             p == Len(b) + i
             W == Weight(make, v, sent, Settled)
             V == Weight(make, RemoveAt(v, p), sent, Settled)
             o == One(Busy /\ Open(make, idle_buf))
  <2>2. RemoveAt(v, p) = b \o RemoveAt(flow, i) /\ p \in 1..Len(v) /\ v \in Seq(Tag)
    BY <1>1, RemoveLater
  <2>3. W + o <= Allowed(cuts, damages, fakes)
    BY <2>1 DEF IInv, Owing
  <2>4. Weight(make, Live, sent, Settled)' = V /\ o' = o
    BY <1>2, <1>3, <1>4, <2>1, <2>2 DEF Settled
  <2> HIDE DEF v, p
  <2>5. V <= W + 2
    BY <1>1, <2>2, LoseWeighs
  <2>6. /\ W \in Nat /\ V \in Nat /\ o \in Nat /\ Allowed(cuts, damages, fakes) \in Int
        /\ Allowed(cuts, damages + 1, fakes) = Allowed(cuts, damages, fakes) + 2
    BY <1>1, WeightNat, AllowedIs DEF One
  <2> HIDE DEF W, V, o
  <2>7. V + o <= Allowed(cuts, damages + 1, fakes)
    BY <2>3, <2>5, <2>6
  <2> QED  BY <1>2, <2>4, <2>7 DEF Owing, o
<1>8. Intact'
  <2>1. damages' # 0
    BY <1>1, <1>2
  <2> QED  BY <2>1 DEF Intact
<1> QED  BY <1>5, <1>6, <1>7, <1>8 DEF IInv

\* Behind others it is the same byte.
LEMMA ChangedLater ==
  ASSUME NEW S, NEW u \in Seq(S), NEW s \in Seq(S), NEW t \in Seq(S), NEW i \in 1..Len(s), Changed(s, t, i)
  PROVE  /\ Changed(u \o s, u \o t, Len(u) + i) /\ Len(u) + i \in 1..Len(u \o s)
         /\ (u \o t)[Len(u) + i] = t[i] /\ (u \o s)[Len(u) + i] = s[i]
         /\ u \o s \in Seq(S) /\ u \o t \in Seq(S)
<1> DEFINE v == u \o s
           x == u \o t
           p == Len(u) + i
<1>1. /\ v \in Seq(S) /\ Len(v) = Len(u) + Len(s) /\ Len(u) \in Nat /\ Len(s) \in Nat
      /\ \A l \in 1..Len(u) : v[l] = u[l]
      /\ \A l \in 1..Len(s) : v[Len(u) + l] = s[l]
  BY JoinedIs
<1>2. /\ x \in Seq(S) /\ Len(x) = Len(u) + Len(t) /\ Len(t) = Len(s)
      /\ \A l \in 1..Len(u) : x[l] = u[l]
      /\ \A l \in 1..Len(t) : x[Len(u) + l] = t[l]
  <2>1. Len(t) = Len(s)
    BY DEF Changed
  <2>2. /\ x \in Seq(S) /\ Len(x) = Len(u) + Len(t)
        /\ \A l \in 1..Len(u) : x[l] = u[l]
        /\ \A l \in 1..Len(t) : x[Len(u) + l] = t[l]
    BY JoinedIs
  <2> QED  BY <2>1, <2>2
<1> HIDE DEF v, x
<1>3. p \in 1..Len(v) /\ v[p] = s[i] /\ x[p] = t[i]
  BY <1>1, <1>2
<1>4. ASSUME NEW l \in 1..Len(v), l # p  PROVE  x[l] = v[l]
  <2>1. CASE l \in 1..Len(u)
    BY <1>1, <1>2, <2>1
  <2>2. CASE l \notin 1..Len(u)
    <3>1. l - Len(u) \in 1..Len(s) /\ Len(u) + (l - Len(u)) = l /\ l - Len(u) # i
      BY <1>1, <1>4, <2>2
    <3>2. x[l] = t[l - Len(u)] /\ v[l] = s[l - Len(u)]
      BY <1>1, <1>2, <3>1
    <3> QED  BY <3>1, <3>2 DEF Changed
  <2> QED  BY <2>1, <2>2
<1>5. t[i].of = s[i].of /\ t[i].at = s[i].at /\ t[i].size = s[i].size /\ t[i].ok = FALSE
  BY DEF Changed
<1>6. Len(x) = Len(v)
  BY <1>1, <1>2
<1> HIDE DEF p
<1>7. Changed(v, x, p)
  BY <1>3, <1>4, <1>5, <1>6 DEF Changed
<1> QED  BY <1>1, <1>2, <1>3, <1>7 DEF v, x, p

\* A byte is garbled.
LEMMA GarbleKeeps ==
  ASSUME IInv, Garble
  PROVE  IInv'
<1>1. /\ idle_buf \in Seq(Tag) /\ response_buf \in Seq(Tag) /\ flow \in Seq(Tag) /\ Typed
      /\ sent \in Nat /\ cuts \in Nat /\ damages \in Nat /\ make \in Makes /\ IsFiniteSet(fakes)
  BY DEF IInv, Typed
<1>2. /\ damages' = damages + 1
      /\ UNCHANGED <<make, port, lines, wanted, sent, idle_buf, response_buf, phase, read, wrong, answers,
                     forgotten, cuts>>
  BY DEF Garble, portVars, pastVars
<1>3. PICK i \in DOMAIN flow : \E byte \in Noise[make] \ {flow[i].byte} :
        /\ flow' = [flow EXCEPT ![i] = [@ EXCEPT !.byte = byte, !.ok = FALSE]]
        /\ fakes' = IF byte = Terminator(make) THEN fakes \cup {<<flow[i].of, flow[i].at>>} ELSE fakes
  BY DEF Garble
<1>4. PICK byte \in Noise[make] \ {flow[i].byte} :
        /\ flow' = [flow EXCEPT ![i] = [@ EXCEPT !.byte = byte, !.ok = FALSE]]
        /\ fakes' = IF byte = Terminator(make) THEN fakes \cup {<<flow[i].of, flow[i].at>>} ELSE fakes
  BY <1>3
<1>a. i \in 1..Len(flow)
  BY <1>1
<1>5. byte \in Byte
  BY <1>1, WireAssumption DEF Byte
<1>6. flow[i] \in Tag
  BY <1>1, <1>a
<1> DEFINE b == [flow[i] EXCEPT !.byte = byte, !.ok = FALSE]
<1>7. /\ b \in Tag /\ b.byte = byte /\ b.of = flow[i].of /\ b.at = flow[i].at
      /\ b.size = flow[i].size /\ b.ok = FALSE
  BY <1>5, <1>6 DEF Tag
<1>8. flow' = [flow EXCEPT ![i] = b]
  BY <1>4
<1> HIDE DEF b
<1>9. flow' \in Seq(Tag) /\ Len(flow') = Len(flow) /\ flow'[i] = b /\ \A l \in 1..Len(flow) : l # i => flow'[l] = flow[l]
  <2>1. [flow EXCEPT ![i] = b] \in Seq(Tag) /\ Len([flow EXCEPT ![i] = b]) = Len(flow)
    BY <1>1, <1>a, <1>7, ExceptSeq
  <2> QED  BY <1>1, <1>a, <1>8, <2>1
<1>10. Changed(flow, flow', i)
  BY <1>7, <1>9, <1>a DEF Changed
<1>11. fakes' = IF flow'[i].byte = Terminator(make) THEN fakes \cup {Place(flow[i])} ELSE fakes
  BY <1>4, <1>7, <1>9 DEF Place
<1>12. IsFiniteSet(fakes') /\ damages' \in Nat /\ Busy' = Busy
  <2>1. IsFiniteSet(fakes \cup {Place(flow[i])})
    BY <1>1, FS_AddElement
  <2> QED  BY <1>1, <1>2, <1>11, <2>1 DEF Busy
<1>13. Typed'
  BY <1>1, <1>2, <1>9, <1>12 DEF Typed
<1>14. Consistent'
  <2>1. PICK c \in Seq(Tag) : Line = c \o flow /\ Line' = c \o flow'
    <3>1. idle_buf \o response_buf \in Seq(Tag)
      BY <1>1, JoinedIs
    <3> QED  BY <1>2, <3>1 DEF Line
  <2> DEFINE v == c \o flow
             x == c \o flow'
             p == Len(c) + i
  <2>2. /\ Changed(v, x, p) /\ p \in 1..Len(v) /\ x[p] = flow'[i] /\ v[p] = flow[i]
        /\ v \in Seq(Tag) /\ x \in Seq(Tag)
    BY <1>1, <1>9, <1>10, <1>a, ChangedLater
  <2>3. Sound(make, v, sent, Settled, wrong, fakes)
    BY <2>1 DEF IInv, Consistent
  <2>4. Line' = x
    BY <2>1
  <2> HIDE DEF p, v, x
  <2>5. fakes' = IF x[p].byte = Terminator(make) THEN fakes \cup {Place(v[p])} ELSE fakes
    BY <1>11, <2>2
  <2>6. Sound(make, x, sent, Settled, wrong, fakes')
    BY <1>1, <2>2, <2>3, <2>5, SoundGarble
  <2> QED  BY <1>2, <2>4, <2>6 DEF Consistent, Settled
<1>15. Owing'
  <2>1. PICK d \in Seq(Tag) : Live = d \o flow /\ Live' = d \o flow'
    <3>1. CASE Busy
      BY <1>1, <1>2, <1>12, <3>1 DEF Live
    <3>2. CASE ~Busy
      BY <1>1, <1>2, <1>12, <3>2 DEF Live
    <3> QED  BY <3>1, <3>2
  <2> DEFINE v == d \o flow
             x == d \o flow'
             p == Len(d) + i
             W == Weight(make, v, sent, Settled)
             V == Weight(make, x, sent, Settled)
             o == One(Busy /\ Open(make, idle_buf))
             e == One(x[p].byte = Terminator(make))
             f == Cardinality(fakes)
             g == Cardinality(fakes')
  <2>2. /\ Changed(v, x, p) /\ p \in 1..Len(v) /\ x[p] = flow'[i] /\ v[p] = flow[i]
        /\ v \in Seq(Tag) /\ x \in Seq(Tag)
    BY <1>1, <1>9, <1>10, <1>a, ChangedLater
  <2>3. W + o <= 2 * (cuts + damages) - f
    BY <2>1 DEF IInv, Owing, Allowed
  <2>4. Weight(make, Live, sent, Settled)' = V /\ o' = o
    BY <1>2, <1>12, <2>1 DEF Settled
  <2> HIDE DEF v, x, p
  <2>5. V + e <= W + 2
    BY <1>1, <2>2, GarbleWeighs
  <2>6. f \in Nat /\ g \in Nat /\ g <= f + e
    <3>1. CASE x[p].byte = Terminator(make)
      <4>1. fakes' = fakes \cup {Place(flow[i])} /\ e = 1
        BY <1>11, <2>2, <3>1 DEF One
      <4>2. /\ Cardinality(fakes) \in Nat
            /\ Cardinality(fakes \cup {Place(flow[i])}) \in {Cardinality(fakes), Cardinality(fakes) + 1}
        BY <1>1, FS_AddElement, FS_CardinalityType
      <4> QED  BY <4>1, <4>2
    <3>2. CASE x[p].byte # Terminator(make)
      <4>1. fakes' = fakes /\ e = 0
        BY <1>11, <2>2, <3>2 DEF One
      <4>2. Cardinality(fakes) \in Nat
        BY <1>1, FS_CardinalityType
      <4> QED  BY <4>1, <4>2
    <3> QED  BY <3>1, <3>2
  <2>7. W \in Nat /\ V \in Nat /\ o \in Nat /\ e \in Nat
    BY <1>1, WeightNat DEF One
  <2> HIDE DEF W, V, o, e, f, g
  <2>8. V + o <= 2 * (cuts + (damages + 1)) - g
    BY <1>1, <2>3, <2>5, <2>6, <2>7
  <2> QED  BY <1>2, <2>4, <2>8 DEF Owing, Allowed, o, g
<1>16. Intact'
  <2>1. damages' # 0
    BY <1>1, <1>2
  <2> QED  BY <2>1 DEF Intact
<1> QED  BY <1>13, <1>14, <1>15, <1>16 DEF IInv

\* A safe frame that ends in the first of two sequences is safe there.
LEMMA SafeAtFirst ==
  ASSUME NEW m, NEW n, NEW S, NEW s \in Seq(S), NEW t \in Seq(S), NEW j, NEW k,
         SafeAt(m, n, s \o t, j, k), k <= Len(s)
  PROVE  SafeAt(m, n, s, j, k)
<1> DEFINE u == s \o t
<1>1. Len(u) = Len(s) + Len(t) /\ Len(s) \in Nat /\ Len(t) \in Nat /\ \A i \in 1..Len(s) : u[i] = s[i]
  BY JoinedIs
<1> HIDE DEF u
<1>2. /\ j \in 1..Len(u) /\ k \in 1..Len(u) /\ j <= k /\ Lies(n, u, j, k) /\ Clean(m, u, j, k)
      /\ j > 1 => u[j - 1].byte = Terminator(m)
  BY DEF SafeAt, u
<1>3. j \in 1..Len(s) /\ k \in 1..Len(s) /\ \A i \in j..k : u[i] = s[i] /\ i \in 1..Len(s)
  BY <1>1, <1>2
<1>4. j > 1 => s[j - 1].byte = Terminator(m)
  <2>1. j > 1 => j - 1 \in 1..Len(s)
    BY <1>3
  <2> QED  BY <1>1, <1>2, <2>1
<1>5. Lies(n, s, j, k)
  BY <1>2, <1>3 DEF Lies
<1>6. Clean(m, s, j, k)
  <2>1. CASE m = "icom"
    <3>1. /\ j + 5 <= k /\ u[j].byte = "FE" /\ u[j + 1].byte = "FE" /\ u[k].byte = "FD"
          /\ \A i \in j + 2 .. k - 1 : u[i].byte \notin {"FE", "FD", "FC"}
      BY <1>2, <2>1 DEF Clean
    <3>2. j \in j..k /\ j + 1 \in j..k /\ k \in j..k /\ \A i \in j + 2 .. k - 1 : i \in j..k
      BY <1>3, <3>1
    <3> QED  BY <1>3, <2>1, <3>1, <3>2 DEF Clean
  <2>2. CASE m # "icom"
    <3>1. u[k].byte = TERMINATOR /\ \A i \in j..k - 1 : u[i].byte # TERMINATOR
      BY <1>2, <2>2 DEF Clean
    <3>2. k \in j..k /\ \A i \in j..k - 1 : i \in j..k
      BY <1>2, <1>3
    <3> QED  BY <1>3, <2>2, <3>1, <3>2 DEF Clean
  <2> QED  BY <2>1, <2>2
<1> QED  BY <1>2, <1>3, <1>4, <1>5, <1>6 DEF SafeAt

\* The exchange begins with an empty buffer: only a frame that is half in the other
\* can be spoiled by it, and the one behind it.
LEMMA BeginLeaves ==
  ASSUME IInv, phase = "idle", ~Ready(idle_buf)
  PROVE  /\ Sound(make, (idle_buf \o <<>>) \o flow, sent, Settled, wrong, fakes)
         /\ Weight(make, <<>> \o flow, sent, Settled) + One(Open(make, idle_buf))
              <= Allowed(IF idle_buf # <<>> THEN cuts + 1 ELSE cuts, damages, fakes)
<1>1. /\ idle_buf \in Seq(Tag) /\ flow \in Seq(Tag) /\ Typed
      /\ sent \in Nat /\ cuts \in Nat /\ damages \in Nat /\ make \in Makes /\ IsFiniteSet(fakes)
  BY DEF IInv, Typed
<1>2. ~Busy /\ response_buf = <<>>
  BY <1>1 DEF Busy, Typed
<1>3. Line = idle_buf \o flow /\ Live = idle_buf \o flow /\ idle_buf \o <<>> = idle_buf /\ <<>> \in Seq(Tag)
  BY <1>1, <1>2, QuietLine, NoneJoin
<1>4. Sound(make, (idle_buf \o <<>>) \o flow, sent, Settled, wrong, fakes)
  BY <1>3 DEF IInv, Consistent
<1> DEFINE s == idle_buf \o flow
           W == Weight(make, s, sent, Settled)
           V == Weight(make, <<>> \o flow, sent, Settled)
           o == One(Open(make, idle_buf))
<1>5. ASSUME NEW n, NEW j, NEW k, SafeAt(make, n, s, j, k), k <= Len(idle_buf)
      PROVE  n \in Settled
  <2>1. SafeAt(make, n, idle_buf, j, k)
    BY <1>1, <1>5, SafeAtFirst
  <2> QED  BY <1>1, <2>1, SafeReady
<1>6. ASSUME NEW n, NEW j, NEW k, SafeAt(make, n, s, j, k), j <= Len(idle_buf)
      PROVE  idle_buf # <<>>
  <2>1. j \in 1..Len(s)
    BY <1>6 DEF SafeAt
  <2> QED  BY <1>1, <1>6, <2>1
<1>7. Settled \subseteq Settled /\ ~Open(make, <<>>)
  BY DEF Open
<1>8. W + 0 <= Allowed(cuts, damages, fakes)
  BY <1>2, <1>3 DEF IInv, Owing, One
<1>9. /\ W \in Nat /\ V \in Nat /\ Allowed(cuts, damages, fakes) \in Int
      /\ Allowed(cuts + 1, damages, fakes) = Allowed(cuts, damages, fakes) + 2
  BY <1>1, WeightNat, AllowedIs
<1>10. CASE idle_buf # <<>>
  <2> DEFINE e == One(Open(make, <<>>))
             f == One(TRUE)
  <2>1. V <= W + e + f
    BY <1>1, <1>3, <1>5, <1>7, ReturnWeighs
  <2>2. e = 0 /\ f = 1 /\ o \in {0, 1}
    BY <1>7 DEF One
  <2> HIDE DEF W, V, o, e, f
  <2>3. V + o <= Allowed(cuts + 1, damages, fakes)
    BY <1>8, <1>9, <2>1, <2>2
  <2> QED  BY <1>4, <1>10, <2>3 DEF V, o
<1>11. CASE idle_buf = <<>>
  <2> DEFINE e == One(Open(make, <<>>))
             f == One(FALSE)
  <2>1. V <= W + e + f
    BY <1>1, <1>3, <1>5, <1>6, <1>7, <1>11, ReturnWeighs
  <2>2. e = 0 /\ f = 0 /\ o = 0
    BY <1>7, <1>11 DEF One
  <2> HIDE DEF W, V, o, e, f
  <2>3. V + o <= Allowed(cuts, damages, fakes)
    BY <1>8, <1>9, <2>1, <2>2
  <2> QED  BY <1>4, <1>11, <2>3 DEF V, o
<1> QED  BY <1>10, <1>11

\* A command is written; on CI-V it comes back, whole or garbled.
LEMMA BeginKeeps ==
  ASSUME IInv, NEW kind \in {"query", "set"}, Begin(kind)
  PROVE  IInv'
<1>1. /\ idle_buf \in Seq(Tag) /\ flow \in Seq(Tag) /\ Typed
      /\ sent \in Nat /\ cuts \in Nat /\ damages \in Nat /\ make \in Makes /\ IsFiniteSet(fakes)
  BY DEF IInv, Typed
<1>2. /\ phase = "idle" /\ ~Ready(idle_buf) /\ phase' = kind /\ response_buf' = <<>>
      /\ cuts' = IF idle_buf # <<>> THEN cuts + 1 ELSE cuts
      /\ UNCHANGED <<make, port, lines, wanted, idle_buf, read, wrong, answers, forgotten, fakes>>
      /\ IF ~Civ
         THEN owes' = (owes \/ kind = "query") /\ UNCHANGED <<flow, sent, damages>>
         ELSE \/ Say(Command[make]) /\ owes' = TRUE /\ UNCHANGED damages
              \/ /\ damages < MaxDamages /\ damages' = damages + 1
                 /\ \E i \in DOMAIN Command[make] : Say([Command[make] EXCEPT ![i] = "FC"])
                 /\ UNCHANGED owes
  BY DEF Begin, portVars
<1>3. Busy' /\ ~Busy /\ cuts' \in Nat /\ <<>> \in Seq(Tag) /\ Settled' = Settled /\ response_buf = <<>>
  BY <1>1, <1>2, NoneJoin DEF Busy, Settled, Typed
<1>4. /\ Sound(make, (idle_buf \o <<>>) \o flow, sent, Settled, wrong, fakes)
      /\ Weight(make, <<>> \o flow, sent, Settled) + One(Open(make, idle_buf)) <= Allowed(cuts', damages, fakes)
  BY <1>2, BeginLeaves
<1>5. response_buf \o flow = flow /\ <<>> \o flow = flow
  BY <1>1, <1>3, NoneJoin
<1>6. /\ Line' = (idle_buf \o <<>>) \o flow' /\ Live' = <<>> \o flow'
      /\ One(Busy /\ Open(make, idle_buf))' = One(Open(make, idle_buf))
  BY <1>2, <1>3 DEF Line, Live, One
<1> DEFINE V == Weight(make, <<>> \o flow, sent, Settled)
           o == One(Open(make, idle_buf))
<1>7. V \in Nat /\ o \in Nat
  BY <1>1, WeightNat DEF One
<1>8. CASE ~Civ
  <2>1. UNCHANGED <<flow, sent, damages>>
    BY <1>2, <1>8
  <2>2. Typed'
    BY <1>1, <1>2, <1>3, <2>1 DEF Typed
  <2>3. Consistent'
    BY <1>2, <1>3, <1>4, <1>6, <2>1 DEF Consistent
  <2>4. Owing'
    BY <1>2, <1>3, <1>4, <1>6, <2>1 DEF Owing
  <2>5. Intact'
    BY <1>2, <1>3, <2>1 DEF IInv, Intact
  <2> QED  BY <2>2, <2>3, <2>4, <2>5 DEF IInv
<1>9. CASE Civ /\ Say(Command[make]) /\ UNCHANGED damages
  <2> DEFINE frame == Command[make]
             t == Tagged(frame, sent + 1)
  <2>1. sent' = sent + 1 /\ flow' = flow \o t /\ damages' = damages
    BY <1>9 DEF Say
  <2>2. frame \in Frames(make)
    BY <1>9 DEF Civ, Frames
  <2>3. t \in Seq(Tag) /\ Fresh(make, t, sent) /\ SafeAt(make, sent + 1, t, 1, Len(t))
    BY <1>1, <2>2, SayIs
  <2>4. Undamaged(make, flow) => Undamaged(make, flow')
    <3> SUFFICES ASSUME Undamaged(make, flow)  PROVE  Undamaged(make, flow')
      OBVIOUS
    <3>1. AllOk(make, flow, sent)
      BY <1>5, AllOkSaid DEF IInv
    <3> QED  BY <1>1, <2>1, <2>2, <3>1, UndamagedSay
  <2> HIDE DEF t, frame
  <2>5. flow' \in Seq(Tag) /\ sent' \in Nat
    <3>1. flow \o t \in Seq(Tag)
      BY <1>1, <2>3, JoinedIs
    <3> QED  BY <1>1, <2>1, <3>1
  <2>6. /\ Sound(make, (idle_buf \o <<>>) \o (flow \o t), sent + 1, Settled, wrong, fakes)
        /\ Weight(make, <<>> \o (flow \o t), sent + 1, Settled) <= V
    BY <1>1, <1>3, <1>4, <2>3, SaidBehind
  <2>7. Typed'
    BY <1>1, <1>2, <1>3, <2>1, <2>5 DEF Typed
  <2>8. Consistent'
    BY <1>2, <1>3, <1>6, <2>1, <2>6 DEF Consistent
  <2>9. Owing'
    <3> DEFINE W == Weight(make, <<>> \o (flow \o t), sent + 1, Settled)
               x == Allowed(cuts', damages, fakes)
    <3>1. W <= V /\ V + o <= x
      BY <1>4, <2>6
    <3>2. W \in Nat /\ x \in Int
      <4>1. sent + 1 \in Nat
        BY <1>1
      <4> QED  BY <1>1, <1>3, <4>1, WeightNat, AllowedIs
    <3>3. Weight(make, Live, sent, Settled)' = W /\ Allowed(cuts, damages, fakes)' = x
      BY <1>2, <1>3, <1>6, <2>1
    <3> HIDE DEF W, V, o, x
    <3>4. W + o <= x
      BY <1>7, <3>1, <3>2
    <3> QED  BY <1>6, <3>3, <3>4 DEF Owing, o
  <2>10. Intact'
    <3>1. response_buf' \o flow' = flow'
      BY <1>2, <2>5, NoneJoin
    <3> QED  BY <1>2, <1>5, <2>1, <2>4, <3>1 DEF IInv, Intact
  <2> QED  BY <2>7, <2>8, <2>9, <2>10 DEF IInv
<1>10. ASSUME Civ, damages' = damages + 1, NEW i \in DOMAIN Command[make],
              Say([Command[make] EXCEPT ![i] = "FC"])
       PROVE  IInv'
  <2> DEFINE t == Tagged([Command[make] EXCEPT ![i] = "FC"], sent + 1)
  <2>1. sent' = sent + 1 /\ flow' = flow \o t /\ damages' = damages + 1
    BY <1>10 DEF Say
  <2>2. t \in Seq(Tag) /\ Fresh(make, t, sent)
    <3>1. make = "icom"
      BY <1>10 DEF Civ
    <3> QED  BY <1>1, <3>1, GarbledIs
  <2> HIDE DEF t
  <2>5. flow' \in Seq(Tag) /\ sent' \in Nat /\ damages' \in Nat
    <3>1. flow \o t \in Seq(Tag)
      BY <1>1, <2>2, JoinedIs
    <3> QED  BY <1>1, <2>1, <3>1
  <2>6. /\ Sound(make, (idle_buf \o <<>>) \o (flow \o t), sent + 1, Settled, wrong, fakes)
        /\ Weight(make, <<>> \o (flow \o t), sent + 1, Settled) <= V + 2
    BY <1>1, <1>3, <1>4, <2>2, SaidBehind
  <2>7. Typed'
    BY <1>1, <1>2, <1>3, <2>1, <2>5 DEF Typed
  <2>8. Consistent'
    BY <1>2, <1>3, <1>6, <2>1, <2>6 DEF Consistent
  <2>9. Owing'
    <3> DEFINE W == Weight(make, <<>> \o (flow \o t), sent + 1, Settled)
               x == Allowed(cuts', damages, fakes)
               y == Allowed(cuts', damages + 1, fakes)
    <3>1. W <= V + 2 /\ V + o <= x
      BY <1>4, <2>6
    <3>2. W \in Nat /\ x \in Int /\ y = x + 2
      <4>1. sent + 1 \in Nat
        BY <1>1
      <4> QED  BY <1>1, <1>3, <4>1, WeightNat, AllowedIs
    <3>3. Weight(make, Live, sent, Settled)' = W /\ Allowed(cuts, damages, fakes)' = y
      BY <1>2, <1>3, <1>6, <2>1
    <3> HIDE DEF W, V, o, x, y
    <3>4. W + o <= y
      BY <1>7, <3>1, <3>2
    <3> QED  BY <1>6, <3>3, <3>4 DEF Owing, o
  <2>10. Intact'
    <3>1. damages' # 0
      BY <1>1, <2>1
    <3> QED  BY <3>1 DEF Intact
  <2> QED  BY <2>7, <2>8, <2>9, <2>10 DEF IInv
<1> QED  BY <1>2, <1>8, <1>9, <1>10

\* Steps that leave the bytes and what became of them alone.
LEMMA OthersKeep ==
  ASSUME IInv, phase' \in {"idle", "query", "set", "ended", "closed"}, Busy' = Busy,
         ~port.stuck => lines' = wanted',
         UNCHANGED <<make, port, bufVars, sent, read, wrong, answers, forgotten, cuts, damages, fakes>>
  PROVE  IInv'
<1>1. UNCHANGED <<make, port, flow, idle_buf, response_buf, sent, read, wrong, answers, forgotten, cuts,
                  damages, fakes>>
  BY DEF bufVars
<1>2. Line' = Line /\ Live' = Live /\ Settled' = Settled
  BY <1>1 DEF Line, Live, Settled
<1>3. Consistent' /\ Owing'
  BY <1>1, <1>2, MovedKeeps
<1>4. Typed'
  BY <1>1 DEF IInv, Typed
<1>5. Intact'
  BY <1>1 DEF IInv, Intact
<1> QED  BY <1>3, <1>4, <1>5 DEF IInv

\* Every step keeps the invariant.
LEMMA StepKeeps ==
  ASSUME IInv, [Next]_vars
  PROVE  IInv'
<1>0. make \in Makes /\ phase \in {"idle", "query", "set", "ended", "closed"} /\ (~port.stuck => lines = wanted)
  BY DEF IInv, Typed
<1>1. CASE Broadcast
  <2>1. PICK frame \in Unsolicited[make] : Say(frame)
    BY <1>1 DEF Broadcast
  <2>2. frame \in Frames(make)
    BY DEF Frames
  <2> QED  BY <1>1, <2>1, <2>2, RadioSays DEF Broadcast, portVars, pastVars, lossVars
<1>2. CASE Respond
  <2>1. PICK frame \in Answers[make] : Say(frame)
    BY <1>2 DEF Respond
  <2>2. frame \in Frames(make)
    BY DEF Frames
  <2> QED  BY <1>2, <2>1, <2>2, RadioSays DEF Respond, portVars, pastVars, lossVars
<1>3. CASE Lose
  BY <1>3, LoseKeeps
<1>a. CASE Garble
  BY <1>a, GarbleKeeps
<1>4. CASE GoDown
  <2>1. UNCHANGED <<make, port, lines, wanted, bufVars, sent, phase, pastVars, lossVars>>
    BY <1>4 DEF GoDown
  <2>2. Busy' = Busy /\ phase' \in {"idle", "query", "set", "ended", "closed"}
    BY <1>0, <2>1 DEF Busy
  <2> QED  BY <1>0, <2>1, <2>2, OthersKeep DEF pastVars, lossVars
<1>5. CASE Close
  <2>1. /\ phase = "idle" /\ phase' = "closed"
        /\ UNCHANGED <<make, port, lines, wanted, bufVars, sent, pastVars, lossVars>>
    BY <1>5 DEF Close
  <2>2. Busy' = Busy
    BY <2>1 DEF Busy
  <2> QED  BY <1>0, <2>1, <2>2, OthersKeep DEF pastVars, lossVars
<1>6. CASE Task
  BY <1>6, IdleReadKeeps, IdleFrameKeeps, ExchangeReadKeeps, ExchangeFrameKeeps, ExchangeEndsKeeps DEF Task
<1>7. ASSUME NEW kind \in {"query", "set"}, Begin(kind)  PROVE  IInv'
  BY <1>7, BeginKeeps
<1>8. ASSUME NEW l \in Lines, NEW on \in BOOLEAN, SetLine(l, on)  PROVE  IInv'
  <2>1. /\ lines' = wanted'
        /\ UNCHANGED <<make, port, bufVars, sent, phase, pastVars, lossVars>>
    BY <1>8 DEF SetLine
  <2>2. Busy' = Busy /\ phase' \in {"idle", "query", "set", "ended", "closed"}
    BY <1>0, <2>1 DEF Busy
  <2> QED  BY <2>1, <2>2, OthersKeep DEF pastVars, lossVars
<1>9. CASE UNCHANGED vars
  <2>1. UNCHANGED <<make, port, lines, wanted, bufVars, sent, phase, pastVars, lossVars>>
    BY <1>9 DEF vars, portVars
  <2>2. Busy' = Busy /\ phase' \in {"idle", "query", "set", "ended", "closed"}
    BY <1>0, <2>1 DEF Busy
  <2> QED  BY <1>0, <2>1, <2>2, OthersKeep DEF pastVars, lossVars
<1> QED  BY <1>1, <1>2, <1>3, <1>a, <1>4, <1>5, <1>6, <1>7, <1>8, <1>9 DEF Next

\* The invariant holds in every state the line can reach.
THEOREM Inductive == Spec => []IInv
<1>1. Init => IInv
  BY InitKeeps
<1>2. IInv /\ [Next]_vars => IInv'
  BY StepKeeps
<1> QED  BY <1>1, <1>2, PTL DEF Spec

\* The invariant has the types.
LEMMA InvTypes ==
  ASSUME IInv
  PROVE  TypeOK
<1>1. Settled \subseteq 1..sent
  BY DEF IInv, Consistent, Sound
<1>2. read \subseteq 1..sent /\ forgotten \subseteq 1..sent
  BY <1>1 DEF Settled
<1> QED  BY <1>2 DEF IInv, Typed, TypeOK

\* What is spoiled: the frames that have passed unread, and those whose end has.
LEMMA SpoiledHas ==
  ASSUME Typed
  PROVE  /\ Missing \subseteq Spoiled(make, Live, sent, Settled)
         /\ Gone(Line, sent, Settled) \subseteq Spoiled(make, Live, sent, Settled)
<1>1. /\ idle_buf \in Seq(Tag) /\ response_buf \in Seq(Tag) /\ flow \in Seq(Tag)
  BY DEF Typed
<1>2. PICK b \in Seq(Tag) : b \in {idle_buf, response_buf} /\ Live = b \o flow
  BY <1>1 DEF Live
<1> DEFINE s == b \o flow
<1>3. /\ s \in Seq(Tag) /\ Len(s) = Len(b) + Len(flow) /\ Len(b) \in Nat /\ Len(flow) \in Nat
      /\ \A i \in 1..Len(b) : s[i] = b[i]
      /\ \A i \in 1..Len(flow) : s[Len(b) + i] = flow[i]
  BY <1>1, JoinedIs
<1> HIDE DEF s
<1>4. ASSUME NEW k \in 1..Len(s)
      PROVE  \/ \E i \in DOMAIN b : b[i] = s[k]
             \/ \E i \in DOMAIN flow : flow[i] = s[k]
  <2>1. CASE k <= Len(b)
    <3>1. k \in 1..Len(b)
      BY <1>3, <2>1
    <3> QED  BY <1>3, <3>1
  <2>2. CASE k > Len(b)
    <3>1. k - Len(b) \in 1..Len(flow) /\ Len(b) + (k - Len(b)) = k
      BY <1>3, <2>2
    <3>2. s[k] = flow[k - Len(b)]
      BY <1>3, <3>1
    <3> QED  BY <1>1, <3>1, <3>2
  <2> QED  BY <1>3, <2>1, <2>2
\* A frame that is safe has its last byte in s.
<1>5. ASSUME NEW n, Safe(make, n, s)
      PROVE  \E k \in 1..Len(s) : s[k].of = n /\ s[k].at = s[k].size
  <2>1. PICK j \in 1..Len(s) : \E k \in 1..Len(s) : SafeAt(make, n, s, j, k)
    BY <1>5 DEF Safe
  <2>2. PICK k \in 1..Len(s) : SafeAt(make, n, s, j, k)
    BY <2>1
  <2>3. j <= k /\ Lies(n, s, j, k)
    BY <2>2 DEF SafeAt
  <2>4. k \in j..k
    BY <2>3
  <2> QED  BY <2>3, <2>4 DEF Lies
<1>6. ASSUME NEW n \in Missing  PROVE  n \in Spoiled(make, s, sent, Settled)
  <2>1. /\ n \in 1..sent /\ n \notin Settled
        /\ \A c \in {flow, idle_buf, response_buf} : \A i \in DOMAIN c : c[i].of # n
    BY DEF Missing, Passed, Settled
  <2>2. (\A i \in DOMAIN b : b[i].of # n) /\ \A i \in DOMAIN flow : flow[i].of # n
    BY <1>2, <2>1
  <2>3. \A k \in 1..Len(s) : s[k].of # n
    BY <1>4, <2>2
  <2> QED  BY <1>5, <2>1, <2>3 DEF Spoiled
<1>7. ASSUME NEW n \in Gone(Line, sent, Settled)  PROVE  n \in Spoiled(make, s, sent, Settled)
  <2>1. n \in 1..sent /\ n \notin Settled /\ \A i \in 1..Len(Line) : ~(Line[i].of = n /\ Line[i].at = Line[i].size)
    BY DEF Gone
  <2>2. \A i \in 1..Len(s) : \E j \in 1..Len(Line) : s[i] = Line[j]
    <3> SUFFICES ASSUME NEW i \in 1..Len(s)  PROVE  \E j \in 1..Len(Line) : s[i] = Line[j]
      OBVIOUS
    <3>1. \A c \in {idle_buf, response_buf, flow} : \A l \in DOMAIN c : \E j \in 1..Len(Line) : c[l] = Line[j]
      <4> DEFINE u == idle_buf \o response_buf
                 v == u \o flow
      <4>1. /\ u \in Seq(Tag) /\ Len(u) = Len(idle_buf) + Len(response_buf)
            /\ Len(idle_buf) \in Nat /\ Len(response_buf) \in Nat
            /\ \A l \in 1..Len(idle_buf) : u[l] = idle_buf[l]
            /\ \A l \in 1..Len(response_buf) : u[Len(idle_buf) + l] = response_buf[l]
        BY <1>1, JoinedIs
      <4> HIDE DEF u
      <4>2. /\ Len(v) = Len(u) + Len(flow) /\ Len(flow) \in Nat
            /\ \A l \in 1..Len(u) : v[l] = u[l]
            /\ \A l \in 1..Len(flow) : v[Len(u) + l] = flow[l]
        <5>1. u \in Seq(Tag) /\ flow \in Seq(Tag)
          BY <1>1, <4>1
        <5> QED  BY <5>1, JoinedIs
      <4>3. Line = v
        BY DEF Line, u
      <4> HIDE DEF v
      <4>4. \A l \in 1..Len(idle_buf) : l \in 1..Len(v) /\ idle_buf[l] = v[l]
        BY <4>1, <4>2
      <4>5. \A l \in 1..Len(response_buf) : Len(idle_buf) + l \in 1..Len(v) /\ response_buf[l] = v[Len(idle_buf) + l]
        BY <4>1, <4>2
      <4>6. \A l \in 1..Len(flow) : Len(u) + l \in 1..Len(v) /\ flow[l] = v[Len(u) + l]
        BY <4>1, <4>2
      <4>7. DOMAIN idle_buf = 1..Len(idle_buf) /\ DOMAIN response_buf = 1..Len(response_buf) /\ DOMAIN flow = 1..Len(flow)
        BY <1>1
      <4> QED  BY <4>3, <4>4, <4>5, <4>6, <4>7
    <3>2. \A l \in DOMAIN b : \E j \in 1..Len(Line) : b[l] = Line[j]
      <4>1. b \in {idle_buf, response_buf, flow}
        BY <1>2
      <4>2. \A c \in {idle_buf, response_buf, flow} : \A l \in DOMAIN c : \E j \in 1..Len(Line) : c[l] = Line[j]
        BY <3>1
      <4> QED  BY <4>1, <4>2
    <3>3. \A l \in DOMAIN flow : \E j \in 1..Len(Line) : flow[l] = Line[j]
      BY <3>1
    <3>4. (\E l \in DOMAIN b : b[l] = s[i]) \/ \E l \in DOMAIN flow : flow[l] = s[i]
      BY <1>4
    <3>5. CASE \E l \in DOMAIN b : b[l] = s[i]
      BY <3>2, <3>5
    <3>6. CASE \E l \in DOMAIN flow : flow[l] = s[i]
      BY <3>3, <3>6
    <3> QED  BY <3>4, <3>5, <3>6
  <2>3. ~Safe(make, n, s)
    BY <1>5, <2>1, <2>2
  <2> QED  BY <2>1, <2>3 DEF Spoiled
<1> QED  BY <1>2, <1>6, <1>7 DEF s

\* The invariant bounds what was decoded wrong and what is missing.
LEMMA InvResyncs ==
  ASSUME IInv
  PROVE  Resync
<1>1. /\ Typed /\ Consistent /\ Owing /\ Intact /\ sent \in Nat /\ cuts \in Nat /\ damages \in Nat
      /\ IsFiniteSet(fakes)
      /\ make \in Makes /\ idle_buf \in Seq(Tag) /\ response_buf \in Seq(Tag)
  BY DEF IInv, Typed
<1> DEFINE A == Spoiled(make, Live, sent, Settled)
           G == Gone(Line, sent, Settled)
           W == Weight(make, Live, sent, Settled)
           o == One(Busy /\ Open(make, idle_buf))
           x == 2 * (cuts + damages)
           f == Cardinality(fakes)
           g == Cardinality(Used(Line, fakes))
<1>2. Missing \subseteq A /\ G \subseteq A
  BY <1>1, SpoiledHas
<1>3. IsFiniteSet(A)
  BY <1>1, SpoiledFinite
<1>4. W \in Nat /\ Cardinality(A) \in Nat /\ Cardinality(A) <= W
  BY <1>1, WeightNat
<1>5. W + o <= x - f /\ o \in Nat /\ x \in Nat
  BY <1>1 DEF Owing, Allowed, One
<1>a. f \in Nat /\ g \in Nat /\ g <= f
  BY <1>1, UsedFinite
<1>6. wrong \in Nat /\ wrong <= Cardinality(G) + g
  BY <1>1 DEF Consistent, Sound
<1>7. IsFiniteSet(G) /\ IsFiniteSet(Missing) /\ Cardinality(G) <= Cardinality(A) /\ Cardinality(Missing) <= Cardinality(A)
  <2> HIDE DEF A, G
  <2> QED  BY <1>2, <1>3, FS_Subset
<1>8. Cardinality(G) \in Nat /\ Cardinality(Missing) \in Nat
  <2> HIDE DEF A, G
  <2> QED  BY <1>7, FS_CardinalityType
<1>9. wrong <= x /\ Cardinality(Missing) <= x
  <2> HIDE DEF A, G, W, o, x, f, g
  <2> QED  BY <1>4, <1>5, <1>6, <1>7, <1>8, <1>a
<1>10. wrong <= 2 * (cuts + damages) /\ Cardinality(Missing) <= 2 * (cuts + damages)
  BY <1>9
<1>11. damages = 0 => FALSE \notin answers
  BY <1>1 DEF Intact
<1>12. ASSUME NEW buf \in {Bytes(idle_buf), Bytes(response_buf)}
       PROVE  /\ make = "kenwood"  => kenwood_decode_response(buf) = decode(buf)
              /\ make = "elecraft" => elecraft_decode_response(buf) = decode(buf)
              /\ make = "yaesu"    => yaesu_decode_response(buf) = decode(buf)
  <2>1. buf \in Seq(Byte)
    BY <1>1, BytesIs
  <2>2. /\ kenwood_decode_response(buf) = decode_response(buf, {})
        /\ elecraft_decode_response(buf) = decode_response(buf, {})
        /\ yaesu_decode_response(buf) = decode_response(buf, DIGIT_SUFFIX_PREFIXES)
    BY <2>1, CopiesAgree
  <2>3. make \in {"kenwood", "elecraft"} => decode(buf) = decode_response(buf, {})
    BY DEF decode, Civ, digit_suffix_prefixes, suffixes
  <2>4. make = "yaesu" => decode(buf) = decode_response(buf, DIGIT_SUFFIX_PREFIXES)
    BY DEF decode, Civ, digit_suffix_prefixes, suffixes
  <2> QED  BY <2>2, <2>3, <2>4
<1> QED  BY <1>10, <1>11, <1>12 DEF Resync

\* The variables have their types, and no control line of a port that obeys is ever
\* asserted unasked (SerialTransport::open_with_config, set_dtr, set_rts).
THEOREM TypeCorrect == Spec => []TypeOK
<1>1. IInv => TypeOK
  BY InvTypes
<1> QED  BY <1>1, Inductive, PTL

\* Each tear and each byte lost or garbled costs at most two frames, on any line, with frames
\* of any number and length, and no torn frame is ever an answer (the buffers of io_loop
\* and of the exchanges, decode_response, decode_frame).
THEOREM Resyncs == Spec => []Resync
<1>1. IInv => Resync
  BY InvResyncs
<1> QED  BY <1>1, Inductive, PTL
=============================================================================
