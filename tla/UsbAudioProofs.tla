---------------------------- MODULE UsbAudioProofs ----------------------------
(***************************************************************************)
(* Proofs about the audio of the transceivers with a USB codec: types, and *)
(* that what goes through a handle keeps its order, comes out at most once *)
(* and is lost only at a full channel, at the end of its stream or at a    *)
(* request that is shorter than the buffer, for any number of streams and  *)
(* channels of any capacity.                                               *)
(***************************************************************************)
EXTENDS UsbAudio, SequenceTheorems, TLAPS

-----------------------------------------------------------------------------
(* Queues: what appending and taking the first do to a sequence.           *)

\* Appending a line leaves the others.
LEMMA AppendLine ==
  ASSUME NEW S, NEW q \in Seq(S), NEW x \in S
  PROVE  /\ Append(q, x) \in Seq(S) /\ Len(q) \in Nat
         /\ Len(Append(q, x)) = Len(q) + 1
         /\ Append(q, x)[Len(q) + 1] = x
         /\ \A i \in 1..Len(q) : Append(q, x)[i] = q[i]
         /\ \A i \in 1..Len(Append(q, x)) : i \in 1..Len(q) \/ i = Len(q) + 1
OBVIOUS

\* Taking the first line leaves the others, one place further ahead.
LEMMA TailLine ==
  ASSUME NEW S, NEW q \in Seq(S), q # <<>>
  PROVE  /\ Head(q) = q[1] /\ 1 \in 1..Len(q) /\ Len(q) \in Nat
         /\ Tail(q) \in Seq(S) /\ Len(Tail(q)) = Len(q) - 1
         /\ \A i \in 1..Len(Tail(q)) : Tail(q)[i] = q[i + 1] /\ i + 1 \in 1..Len(q) /\ i + 1 # 1
         /\ \A i \in 1..Len(q) : i = 1 \/ (i - 1 \in 1..Len(Tail(q)) /\ Tail(q)[i - 1] = q[i])
BY HeadTailProperties

-----------------------------------------------------------------------------
(* A channel: what came out, t, what is in it, q, how many buffers were     *)
(* made for it, m, and the format of its handle, f.                        *)

\* The numbers of what came out, t, and of what is in the channel, q.
Nrs(t, q) == t \o [i \in DOMAIN q |-> q[i].nr]

\* The numbers rise, and none is above m.
Counted(n, m) == Rising(n) /\ \A i \in 1..Len(n) : n[i] \in 1..m

\* The buffers have the format of the handle.
Sound(q, f) ==
  \A i \in 1..Len(q) :
    /\ q[i].nr \in Nat /\ q[i].samples \in Seq(Int)
    /\ q[i].channels = f.channels /\ q[i].sample_rate = f.sample_rate

\* A channel that is in order.
Line(t, q, m, f) ==
  /\ t \in Seq(Nat) /\ (\E S : q \in Seq(S)) /\ Len(q) <= Capacity /\ m \in 0..MaxBuffers
  /\ Sound(q, f)
  /\ Counted(Nrs(t, q), m)

\* The numbers, one by one.
LEMMA NrsIs ==
  ASSUME NEW t \in Seq(Nat), NEW S, NEW q \in Seq(S), \A i \in 1..Len(q) : q[i].nr \in Nat
  PROVE  /\ Nrs(t, q) \in Seq(Nat)
         /\ Len(Nrs(t, q)) = Len(t) + Len(q) /\ Len(t) \in Nat /\ Len(q) \in Nat
         /\ \A i \in 1..Len(t) : Nrs(t, q)[i] = t[i]
         /\ \A i \in 1..Len(q) : Nrs(t, q)[Len(t) + i] = q[i].nr
<1> DEFINE p == [i \in DOMAIN q |-> q[i].nr]
<1>1. DOMAIN q = 1..Len(q) /\ Len(q) \in Nat /\ Len(t) \in Nat
  OBVIOUS
<1>2. p \in Seq(Nat) /\ Len(p) = Len(q) /\ \A i \in 1..Len(q) : p[i] = q[i].nr
  BY <1>1
<1> HIDE DEF p
<1>3. /\ t \o p \in Seq(Nat) /\ Len(t \o p) = Len(t) + Len(p)
      /\ \A i \in 1 .. Len(t) + Len(p) : (t \o p)[i] = IF i <= Len(t) THEN t[i] ELSE p[i - Len(t)]
  BY <1>2, ConcatProperties
<1>4. \A i \in 1..Len(t) : i \in 1 .. Len(t) + Len(p) /\ i <= Len(t)
  BY <1>1, <1>2
<1>5. \A i \in 1..Len(q) : Len(t) + i \in 1 .. Len(t) + Len(p) /\ ~(Len(t) + i <= Len(t)) /\ Len(t) + i - Len(t) = i
  BY <1>1, <1>2
<1>6. \A i \in 1..Len(t) : (t \o p)[i] = t[i]
  BY <1>3, <1>4
<1>7. \A i \in 1..Len(q) : (t \o p)[Len(t) + i] = p[i]
  BY <1>3, <1>5
<1> QED  BY <1>1, <1>2, <1>3, <1>6, <1>7 DEF Nrs, p

\* A buffer that comes out leaves the numbers as they are.
LEMMA NrsOut ==
  ASSUME NEW t \in Seq(Nat), NEW S, NEW q \in Seq(S), q # <<>>,
         \A i \in 1..Len(q) : q[i].nr \in Nat
  PROVE  Nrs(Append(t, Head(q).nr), Tail(q)) = Nrs(t, q)
<1> DEFINE u == Append(t, Head(q).nr)
           s == Tail(q)
           n == Nrs(t, q)
           o == Nrs(u, s)
<1>1. /\ Head(q) = q[1] /\ 1 \in 1..Len(q) /\ Len(q) \in Nat
      /\ s \in Seq(S) /\ Len(s) = Len(q) - 1
      /\ \A i \in 1..Len(s) : s[i] = q[i + 1] /\ i + 1 \in 1..Len(q)
  BY TailLine
<1>2. Head(q).nr \in Nat
  BY <1>1
<1>3. /\ u \in Seq(Nat) /\ Len(t) \in Nat /\ Len(u) = Len(t) + 1 /\ u[Len(t) + 1] = Head(q).nr
      /\ \A i \in 1..Len(t) : u[i] = t[i]
  BY <1>2, AppendLine
<1> HIDE DEF u, s
<1>4. /\ n \in Seq(Nat) /\ Len(n) = Len(t) + Len(q)
      /\ \A i \in 1..Len(t) : n[i] = t[i]
      /\ \A i \in 1..Len(q) : n[Len(t) + i] = q[i].nr
  BY NrsIs, ZenonT(30)
<1>5. /\ o \in Seq(Nat) /\ Len(o) = Len(u) + Len(s)
      /\ \A i \in 1..Len(u) : o[i] = u[i]
      /\ \A i \in 1..Len(s) : o[Len(u) + i] = s[i].nr
  <2>1. \A i \in 1..Len(s) : s[i].nr \in Nat
    BY <1>1
  <2>2. u \in Seq(Nat) /\ s \in Seq(S)
    BY <1>1, <1>3
  <2> QED  BY <2>1, <2>2, NrsIs, SMTT(30)
<1> HIDE DEF n, o
<1>6. Len(o) = Len(n)
  BY <1>1, <1>3, <1>4, <1>5
<1>7. ASSUME NEW i \in 1..Len(n)  PROVE o[i] = n[i]
  <2>1. CASE i \in 1..Len(t)
    BY <1>3, <1>4, <1>5, <2>1
  <2>2. CASE i = Len(t) + 1
    <3>1. i \in 1..Len(u) /\ 1 \in 1..Len(q)
      BY <1>1, <1>3, <2>2
    <3> QED  BY <1>1, <1>3, <1>4, <1>5, <2>2, <3>1
  <2>3. CASE i > Len(t) + 1
    <3> DEFINE k == i - (Len(t) + 1)
    <3>1. k \in 1..Len(s) /\ i = Len(u) + k /\ i = Len(t) + (k + 1)
      BY <1>1, <1>3, <1>4, <2>3
    <3>2. o[i] = s[k].nr
      BY <1>5, <3>1
    <3>3. n[i] = q[k + 1].nr
      BY <1>1, <1>4, <3>1
    <3> QED  BY <1>1, <3>1, <3>2, <3>3
  <2> QED  BY <1>3, <1>4, <2>1, <2>2, <2>3
<1> QED  BY <1>4, <1>5, <1>6, <1>7, SeqEqual DEF n, o, u, s

\* One that goes in is behind the others.
LEMMA NrsIn ==
  ASSUME NEW t \in Seq(Nat), NEW S, NEW q \in Seq(S), NEW b \in S,
         \A i \in 1..Len(q) : q[i].nr \in Nat, b.nr \in Nat
  PROVE  LET n == Nrs(t, q)
             o == Nrs(t, Append(q, b))
         IN  /\ Len(o) = Len(n) + 1 /\ Len(n) \in Nat /\ o[Len(n) + 1] = b.nr
             /\ \A i \in 1..Len(n) : o[i] = n[i]
<1> DEFINE p == Append(q, b)
           n == Nrs(t, q)
           o == Nrs(t, p)
<1>1. /\ p \in Seq(S) /\ Len(q) \in Nat /\ Len(p) = Len(q) + 1 /\ p[Len(q) + 1] = b
      /\ \A i \in 1..Len(q) : p[i] = q[i]
      /\ \A i \in 1..Len(p) : i \in 1..Len(q) \/ i = Len(q) + 1
  BY AppendLine
<1> HIDE DEF p
<1>2. \A i \in 1..Len(p) : p[i].nr \in Nat
  BY <1>1
<1>3. /\ n \in Seq(Nat) /\ Len(n) = Len(t) + Len(q) /\ Len(t) \in Nat
      /\ \A i \in 1..Len(t) : n[i] = t[i]
      /\ \A i \in 1..Len(q) : n[Len(t) + i] = q[i].nr
  BY NrsIs
<1>4. /\ Len(o) = Len(t) + Len(p)
      /\ \A i \in 1..Len(t) : o[i] = t[i]
      /\ \A i \in 1..Len(p) : o[Len(t) + i] = p[i].nr
  <2>1. p \in Seq(S)
    BY <1>1
  <2> QED  BY <1>2, <2>1, NrsIs
<1> HIDE DEF n, o
<1>5. Len(o) = Len(n) + 1 /\ Len(n) \in Nat
  BY <1>1, <1>3, <1>4
<1>6. o[Len(n) + 1] = b.nr
  <2>1. Len(n) + 1 = Len(t) + Len(p) /\ Len(p) \in 1..Len(p)
    BY <1>1, <1>3
  <2> QED  BY <1>1, <1>4, <2>1
<1>7. ASSUME NEW i \in 1..Len(n)  PROVE o[i] = n[i]
  <2>1. CASE i \in 1..Len(t)
    BY <1>3, <1>4, <2>1
  <2>2. CASE i > Len(t)
    <3>1. i - Len(t) \in 1..Len(q) /\ i - Len(t) \in 1..Len(p) /\ i = Len(t) + (i - Len(t))
      BY <1>1, <1>3, <2>2
    <3>2. o[i] = p[i - Len(t)].nr /\ n[i] = q[i - Len(t)].nr
      BY <1>3, <1>4, <3>1
    <3> QED  BY <1>1, <3>1, <3>2
  <2> QED  BY <1>3, <2>1, <2>2
<1> QED  BY <1>5, <1>6, <1>7 DEF n, o, p

\* Sending: the next number is behind the others.
LEMMA LineIn ==
  ASSUME NEW t, NEW q, NEW m, NEW f, Line(t, q, m, f), Len(q) < Capacity, m < MaxBuffers,
         NEW samples \in Seq(Int)
  PROVE  LET p == Append(q, AudioBuffer(m + 1, samples, f))
         IN  Line(t, p, m + 1, f) /\ Len(Nrs(t, p)) = Len(Nrs(t, q)) + 1 /\ Len(Nrs(t, q)) \in Nat
<1> USE UsbAudioAssumption
<1> DEFINE b == AudioBuffer(m + 1, samples, f)
           p == Append(q, b)
           n == Nrs(t, q)
           o == Nrs(t, p)
<1>1. PICK S0 : q \in Seq(S0)
  BY DEF Line
<1>2. t \in Seq(Nat) /\ m \in 0..MaxBuffers /\ m \in Nat /\ m + 1 \in Nat /\ m + 1 \in 0..MaxBuffers
  BY DEF Line
<1>3. /\ b.nr = m + 1 /\ b.samples = samples
      /\ b.channels = f.channels /\ b.sample_rate = f.sample_rate
  BY DEF AudioBuffer
<1> HIDE DEF b
<1> DEFINE S == S0 \cup {b}
<1>4. q \in Seq(S) /\ b \in S
  BY <1>1
<1> HIDE DEF S
<1>5. /\ p \in Seq(S) /\ Len(q) \in Nat /\ Len(p) = Len(q) + 1 /\ p[Len(q) + 1] = b
      /\ \A i \in 1..Len(q) : p[i] = q[i]
      /\ \A i \in 1..Len(p) : i \in 1..Len(q) \/ i = Len(q) + 1
  BY <1>4, AppendLine
<1>6. /\ Len(o) = Len(n) + 1 /\ Len(n) \in Nat /\ o[Len(n) + 1] = m + 1
      /\ \A i \in 1..Len(n) : o[i] = n[i]
  <2>1. \A i \in 1..Len(q) : q[i].nr \in Nat
    BY DEF Line, Sound
  <2>2. b.nr \in Nat
    BY <1>2, <1>3
  <2>3. t \in Seq(Nat)
    BY <1>2
  <2> QED  BY <1>3, <1>4, <2>1, <2>2, <2>3, NrsIn
<1> HIDE DEF p, n, o
<1>7. Sound(p, f)
  <2>1. ASSUME NEW i \in 1..Len(p)
        PROVE  /\ p[i].nr \in Nat /\ p[i].samples \in Seq(Int)
               /\ p[i].channels = f.channels /\ p[i].sample_rate = f.sample_rate
    <3>1. CASE i \in 1..Len(q)
      BY <1>5, <3>1 DEF Line, Sound
    <3>2. CASE i = Len(q) + 1
      BY <1>2, <1>3, <1>5, <3>2
    <3> QED  BY <1>5, <3>1, <3>2
  <2> QED  BY <2>1 DEF Sound
<1>8. Counted(o, m + 1)
  <2>1. Rising(n) /\ \A i \in 1..Len(n) : n[i] \in 1..m
    BY DEF Line, Counted, n
  <2>2. ASSUME NEW i \in 1..Len(o)  PROVE o[i] \in 1..m + 1
    <3>1. CASE i \in 1..Len(n)
      <4>1. o[i] = n[i] /\ n[i] \in 1..m
        BY <1>6, <2>1, <3>1
      <4>2. \A k \in 1..m : k \in 1..m + 1
        BY <1>2
      <4> QED  BY <4>1, <4>2
    <3>2. CASE i = Len(n) + 1
      BY <1>2, <1>6, <3>2
    <3> QED  BY <1>6, <3>1, <3>2
  <2>3. ASSUME NEW i \in 1..Len(o) - 1  PROVE o[i] < o[i + 1]
    <3>1. i \in 1..Len(n) /\ o[i] = n[i] /\ n[i] \in 1..m
      BY <1>6, <2>1
    <3>2. CASE i = Len(n)
      BY <1>2, <1>6, <3>1, <3>2
    <3>3. CASE i # Len(n)
      <4>1. i \in 1..Len(n) - 1 /\ i + 1 \in 1..Len(n)
        BY <1>6, <3>1, <3>3
      <4>2. n[i] < n[i + 1]
        BY <2>1, <4>1 DEF Rising
      <4> QED  BY <1>6, <3>1, <4>1, <4>2
    <3> QED  BY <3>2, <3>3
  <2> QED  BY <2>2, <2>3 DEF Counted, Rising
<1>9. Len(p) <= Capacity
  BY <1>5
<1>10. \E T : p \in Seq(T)
  BY <1>5
<1>11. Line(t, p, m + 1, f)
  BY <1>2, <1>7, <1>8, <1>9, <1>10 DEF Line, o
<1> QED  BY <1>6, <1>11 DEF n, o, p, b

\* Receiving: the numbers stay what they were.
LEMMA LineOut ==
  ASSUME NEW t, NEW q, NEW m, NEW f, Line(t, q, m, f), q # <<>>
  PROVE  /\ Line(Append(t, Head(q).nr), Tail(q), m, f)
         /\ Nrs(Append(t, Head(q).nr), Tail(q)) = Nrs(t, q)
         /\ Head(q).samples \in Seq(Int)
<1> USE UsbAudioAssumption
<1> DEFINE u == Append(t, Head(q).nr)
           s == Tail(q)
<1>1. PICK S : q \in Seq(S)
  BY DEF Line
<1>2. /\ Head(q) = q[1] /\ 1 \in 1..Len(q) /\ Len(q) \in Nat
      /\ s \in Seq(S) /\ Len(s) = Len(q) - 1
      /\ \A i \in 1..Len(s) : s[i] = q[i + 1] /\ i + 1 \in 1..Len(q)
  BY <1>1, TailLine
<1>3. /\ \A i \in 1..Len(q) : q[i].nr \in Nat
      /\ Head(q).nr \in Nat /\ Head(q).samples \in Seq(Int)
  BY <1>2 DEF Line, Sound
<1>4. t \in Seq(Nat) /\ u \in Seq(Nat)
  BY <1>3 DEF Line
<1>5. Nrs(u, s) = Nrs(t, q)
  BY <1>1, <1>3, <1>4, NrsOut
<1> HIDE DEF u, s
<1>6. Sound(s, f)
  BY <1>2 DEF Line, Sound
<1>7. Line(u, s, m, f)
  BY <1>2, <1>4, <1>5, <1>6 DEF Line
<1> QED  BY <1>3, <1>5, <1>7 DEF u, s

\* What is in the channel may be lost, and so may be what does not get into it.
LEMMA LineCut ==
  ASSUME NEW t, NEW q, NEW m, NEW f, Line(t, q, m, f)
  PROVE  Line(t, <<>>, m, f)
<1> USE UsbAudioAssumption
<1> DEFINE e == <<>>
           n == Nrs(t, q)
           o == Nrs(t, e)
<1>1. PICK S : q \in Seq(S)
  BY DEF Line
<1>2. t \in Seq(Nat) /\ e \in Seq(S) /\ Len(e) = 0 /\ \A i \in 1..Len(q) : q[i].nr \in Nat
  BY DEF Line, Sound
<1>3. \A i \in 1..Len(e) : e[i].nr \in Nat
  BY <1>2
<1>4. /\ Len(n) = Len(t) + Len(q) /\ Len(t) \in Nat /\ Len(q) \in Nat
      /\ \A i \in 1..Len(t) : n[i] = t[i]
  BY <1>1, <1>2, NrsIs
<1> HIDE DEF e
<1>5. Len(o) = Len(t) + Len(e) /\ \A i \in 1..Len(t) : o[i] = t[i]
  BY <1>2, <1>3, NrsIs, ZenonT(30)
<1>6. Counted(n, m)
  BY DEF Line
<1> HIDE DEF n, o
<1>7. Len(o) \in Nat /\ Len(n) \in Nat /\ Len(o) <= Len(n) /\ \A i \in 1..Len(o) : o[i] = n[i]
  BY <1>2, <1>4, <1>5
<1>8. Counted(o, m)
  <2>1. ASSUME NEW i \in 1..Len(o)  PROVE o[i] \in 1..m
    BY <1>6, <1>7 DEF Counted
  <2>2. ASSUME NEW i \in 1..Len(o) - 1  PROVE o[i] < o[i + 1]
    <3>1. i \in 1..Len(o) /\ i + 1 \in 1..Len(o) /\ i \in 1..Len(n) - 1
      BY <1>7
    <3> QED  BY <1>6, <1>7, <3>1 DEF Counted, Rising
  <2> QED  BY <2>1, <2>2 DEF Counted, Rising
<1>9. Sound(e, f) /\ Len(e) <= Capacity /\ \E T : e \in Seq(T)
  BY <1>2 DEF Sound
<1>10. Line(t, e, m, f)
  BY <1>8, <1>9 DEF Line, o
<1> QED  BY <1>10 DEF e

\* A capture may find the channel full.
LEMMA LineLost ==
  ASSUME NEW t, NEW q, NEW m, NEW f, Line(t, q, m, f), m < MaxBuffers
  PROVE  Line(t, q, m + 1, f)
<1>1. m \in 0..MaxBuffers /\ MaxBuffers \in Nat
  BY UsbAudioAssumption DEF Line
<1>2. m + 1 \in 0..MaxBuffers /\ \A k \in 1..m : k \in 1..m + 1
  BY <1>1
<1> QED  BY <1>2 DEF Line, Counted

\* A channel that is new.
LEMMA LineNew ==
  ASSUME NEW f
  PROVE  Line(<<>>, <<>>, 0, f) /\ Len(Nrs(<<>>, <<>>)) = 0
<1> USE UsbAudioAssumption
<1> DEFINE e == <<>>
<1>1. e \in Seq(Nat) /\ Len(e) = 0
  OBVIOUS
<1>2. \A i \in 1..Len(e) : e[i].nr \in Nat
  BY <1>1
<1> HIDE DEF e
<1>3. Len(Nrs(e, e)) = Len(e) + Len(e)
  BY <1>1, <1>2, NrsIs
<1>4. Len(Nrs(e, e)) = 0
  BY <1>1, <1>3
<1>5. Counted(Nrs(e, e), 0)
  BY <1>4 DEF Counted, Rising
<1>6. Sound(e, f) /\ Len(e) <= Capacity /\ (\E T : e \in Seq(T)) /\ 0 \in 0..MaxBuffers
  BY <1>1 DEF Sound
<1> QED  BY <1>1, <1>4, <1>5, <1>6 DEF Line, e

\* Of each buffer of z[nr] samples all come out, a, unless some are lost at c.
Whole(t, q, m, z, a, c, lost) ==
  /\ z \in Seq(Nat) /\ Len(z) = m /\ a \in Seq(Nat) /\ Len(a) = Len(t)
  /\ \A i \in 1..Len(q) : Len(q[i].samples) = z[q[i].nr]
  /\ c \notin lost => \A i \in 1..Len(t) : a[i] = z[t[i]]

\* Every number has been given.
LEMMA Given ==
  ASSUME NEW t, NEW q, NEW m, NEW f, Line(t, q, m, f)
  PROVE  /\ m \in Nat /\ t \in Seq(Nat) /\ Len(t) \in Nat /\ Len(q) \in Nat
         /\ \A i \in 1..Len(t) : t[i] \in 1..m
         /\ \A i \in 1..Len(q) : q[i].nr \in 1..m /\ q[i].samples \in Seq(Int)
<1> USE UsbAudioAssumption
<1> DEFINE n == Nrs(t, q)
<1>1. PICK S : q \in Seq(S)
  BY DEF Line
<1>2. t \in Seq(Nat) /\ m \in Nat /\ \A i \in 1..Len(q) : q[i].nr \in Nat /\ q[i].samples \in Seq(Int)
  BY DEF Line, Sound
<1>3. /\ Len(n) = Len(t) + Len(q) /\ Len(t) \in Nat /\ Len(q) \in Nat
      /\ \A i \in 1..Len(t) : n[i] = t[i]
      /\ \A i \in 1..Len(q) : n[Len(t) + i] = q[i].nr
  BY <1>1, <1>2, NrsIs
<1>4. \A i \in 1..Len(n) : n[i] \in 1..m
  BY DEF Line, Counted
<1> HIDE DEF n
<1>5. ASSUME NEW i \in 1..Len(t)  PROVE t[i] \in 1..m
  <2>1. i \in 1..Len(n)
    BY <1>3
  <2> QED  BY <1>3, <1>4, <2>1
<1>6. ASSUME NEW i \in 1..Len(q)  PROVE q[i].nr \in 1..m
  <2>1. Len(t) + i \in 1..Len(n)
    BY <1>3
  <2> QED  BY <1>3, <1>4, <2>1
<1> QED  BY <1>2, <1>3, <1>5, <1>6

\* One more size, of a buffer that does not get in,
LEMMA WholeLost ==
  ASSUME NEW t, NEW q, NEW m, NEW f, Line(t, q, m, f), NEW z, NEW a, NEW c, NEW lost,
         Whole(t, q, m, z, a, c, lost), NEW n \in Nat
  PROVE  /\ Whole(t, q, m + 1, Append(z, n), a, c, lost)
         /\ Append(z, n)[m + 1] = n
<1>1. z \in Seq(Nat) /\ Len(z) = m /\ m \in Nat
  BY Given DEF Whole
<1>2. /\ Append(z, n) \in Seq(Nat) /\ Len(Append(z, n)) = m + 1 /\ Append(z, n)[m + 1] = n
      /\ \A i \in 1..m : Append(z, n)[i] = z[i]
  BY <1>1, AppendLine
<1>3. /\ \A i \in 1..Len(t) : t[i] \in 1..m
      /\ \A i \in 1..Len(q) : q[i].nr \in 1..m
  BY Given
<1> QED  BY <1>2, <1>3 DEF Whole

\* or of one that does.
LEMMA WholeIn ==
  ASSUME NEW t, NEW q, NEW m, NEW f, Line(t, q, m, f), NEW z, NEW a, NEW c, NEW lost,
         Whole(t, q, m, z, a, c, lost), NEW samples \in Seq(Int)
  PROVE  Whole(t, Append(q, AudioBuffer(m + 1, samples, f)), m + 1, Append(z, Len(samples)), a, c, lost)
<1> DEFINE b == AudioBuffer(m + 1, samples, f)
           p == Append(q, b)
           y == Append(z, Len(samples))
<1>1. b.nr = m + 1 /\ b.samples = samples
  BY DEF AudioBuffer
<1> HIDE DEF b
<1>2. PICK S : q \in Seq(S)
  BY DEF Line
<1>3. q \in Seq(S \cup {b}) /\ b \in S \cup {b} /\ Len(samples) \in Nat
  BY <1>2
<1>4. /\ Len(q) \in Nat /\ p[Len(q) + 1] = b
      /\ \A i \in 1..Len(q) : p[i] = q[i]
      /\ \A i \in 1..Len(p) : i \in 1..Len(q) \/ i = Len(q) + 1
  BY <1>3, AppendLine
<1> HIDE DEF p
<1>5. Whole(t, q, m + 1, y, a, c, lost) /\ y[m + 1] = Len(samples)
  BY <1>3, WholeLost
<1> HIDE DEF y
<1>6. ASSUME NEW i \in 1..Len(p)  PROVE Len(p[i].samples) = y[p[i].nr]
  <2>1. CASE i \in 1..Len(q)
    BY <1>4, <1>5, <2>1 DEF Whole
  <2>2. CASE i = Len(q) + 1
    BY <1>1, <1>4, <1>5, <2>2
  <2> QED  BY <1>4, <2>1, <2>2
<1>7. Whole(t, p, m + 1, y, a, c, lost)
  BY <1>5, <1>6 DEF Whole
<1> QED  BY <1>7 DEF b, p, y

\* The first comes out, whole or with some of its samples lost.
LEMMA WholeOut ==
  ASSUME NEW t, NEW q, NEW m, NEW f, Line(t, q, m, f), q # <<>>, NEW z, NEW a, NEW c, NEW lost,
         Whole(t, q, m, z, a, c, lost), NEW n \in Nat, NEW more, lost \subseteq more,
         c \notin more => n = Len(Head(q).samples)
  PROVE  Whole(Append(t, Head(q).nr), Tail(q), m, z, Append(a, n), c, more)
<1> DEFINE u == Append(t, Head(q).nr)
           s == Tail(q)
           e == Append(a, n)
<1>1. PICK S : q \in Seq(S)
  BY DEF Line
<1>2. /\ Head(q) = q[1] /\ 1 \in 1..Len(q)
      /\ \A i \in 1..Len(s) : s[i] = q[i + 1] /\ i + 1 \in 1..Len(q)
  BY <1>1, TailLine
<1>3. t \in Seq(Nat) /\ Head(q).nr \in Nat /\ a \in Seq(Nat) /\ Len(a) = Len(t)
  BY <1>2, Given DEF Whole
<1>4. /\ Len(t) \in Nat /\ Len(u) = Len(t) + 1 /\ u[Len(t) + 1] = Head(q).nr
      /\ \A i \in 1..Len(t) : u[i] = t[i]
      /\ \A i \in 1..Len(u) : i \in 1..Len(t) \/ i = Len(t) + 1
  BY <1>3, AppendLine
<1>5. /\ e \in Seq(Nat) /\ Len(e) = Len(t) + 1 /\ e[Len(t) + 1] = n
      /\ \A i \in 1..Len(t) : e[i] = a[i]
  BY <1>3, AppendLine
<1> HIDE DEF u, s, e
<1>6. \A i \in 1..Len(s) : Len(s[i].samples) = z[s[i].nr]
  BY <1>2 DEF Whole
<1>7. ASSUME c \notin more, NEW i \in 1..Len(u)  PROVE e[i] = z[u[i]]
  <2>1. CASE i \in 1..Len(t)
    BY <1>4, <1>5, <1>7, <2>1 DEF Whole
  <2>2. CASE i = Len(t) + 1
    BY <1>2, <1>4, <1>5, <1>7, <2>2 DEF Whole
  <2> QED  BY <1>4, <2>1, <2>2
<1>8. Whole(u, s, m, z, e, c, more)
  BY <1>4, <1>5, <1>6, <1>7 DEF Whole
<1> QED  BY <1>8 DEF u, s, e

\* What is in the channel is lost; and a channel that is new.
LEMMA WholeCut ==
  ASSUME NEW t, NEW q, NEW m, NEW z, NEW a, NEW c, NEW lost, Whole(t, q, m, z, a, c, lost)
  PROVE  Whole(t, <<>>, m, z, a, c, lost)
BY DEF Whole

LEMMA WholeNew ==
  ASSUME NEW c, NEW lost
  PROVE  Whole(<<>>, <<>>, 0, <<>>, <<>>, c, lost)
BY DEF Whole

-----------------------------------------------------------------------------
(* The invariant.                                                          *)

\* The kinds of values, and the functions.
Shapes ==
  /\ way \in [Starts -> {"input", "output"}]
  /\ user \in [Starts -> UserStates]
  /\ config = [c \in Starts |-> config[c]] /\ queue = [c \in Starts |-> queue[c]]
  /\ made = [c \in Starts |-> made[c]] /\ taken = [c \in Starts |-> taken[c]]
  /\ sizes = [c \in Starts |-> sizes[c]] /\ came = [c \in Starts |-> came[c]]
  /\ backend = [input |-> backend.input, output |-> backend.output]
  /\ backend.input \in Starts => way[backend.input] = "input"
  /\ backend.output \in Starts => way[backend.output] = "output"

\* What the device was given fits it.
Fits ==
  /\ Len(speaker.out) = speaker.want
  /\ (host # <<>> /\ name # NoName /\ Found(host, name, "output") # <<>>
        /\ find_device(host, name, "output").output = "I16") =>
       \A i \in DOMAIN speaker.out : speaker.out[i] \in -2 * I16_MAX .. 2 * I16_MAX

\* The numbers that have come out and will.
Through(c) == Nrs(taken[c], queue[c])

\* A start that has not made a stream has a channel nobody has used.
Unused(c) ==
  user[c] \in {"idle", "unsupported", "failed"} =>
    /\ queue[c] = <<>> /\ taken[c] = <<>> /\ made[c] = 0 /\ ~Streams(c)
    /\ sizes[c] = <<>> /\ came[c] = <<>>

\* Complete is missing, but where the application was too slow or has stopped.
Complete(c) ==
  /\ way[c] = "input" /\ c \notin overrun /\ user[c] # "dropped" => Len(Through(c)) = made[c]
  /\ way[c] = "output" /\ Streams(c) => Len(Through(c)) = made[c]

Kept(c) == Whole(taken[c], queue[c], made[c], sizes[c], came[c], c, overrun)

\* A send that waits may still be counted; the format is the device's.
Room(c)    == way[c] = "output" /\ user[c] = "waits" /\ Streams(c) => made[c] < MaxBuffers
Native(c) ==
  way[c] = "input" /\ Streams(c) /\ host # <<>> =>
    /\ Found(host, name, "input") # <<>>
    /\ config[c] = AudioStreamConfig(find_device(host, name, "input"), "F32")
Named(c)  == name = NoName => user[c] \in {"idle", "unsupported"}

Good(c) ==
  /\ Line(taken[c], queue[c], made[c], config[c])
  /\ Kept(c) /\ Unused(c) /\ Complete(c) /\ Room(c) /\ Native(c) /\ Named(c)

\* The inductive invariant.
AudioInv == Shapes /\ Fits /\ \A c \in Starts : Good(c)

\* At the start nothing is in use.
LEMMA GoodInit == Init => AudioInv
<1> SUFFICES ASSUME Init PROVE AudioInv
  OBVIOUS
<1> USE UsbAudioAssumption
<1>1. Shapes
  BY DEF Init, Shapes, NoStream, UserStates
<1>2. Fits
  <2>1. Len(<<>>) = 0 /\ DOMAIN <<>> = {}
    OBVIOUS
  <2>2. speaker.want = 0 /\ speaker.out = <<>>
    BY DEF Init
  <2> QED  BY <2>1, <2>2 DEF Fits
<1>3. ASSUME NEW c \in Starts  PROVE Good(c)
  <2>1. /\ queue[c] = <<>> /\ taken[c] = <<>> /\ made[c] = 0 /\ user[c] = "idle"
        /\ sizes[c] = <<>> /\ came[c] = <<>>
        /\ way[c] \in {"input", "output"}
    BY DEF Init
  <2>2. ~Streams(c)
    BY <2>1 DEF Init, Streams, NoStream
  <2>3. Line(taken[c], queue[c], made[c], config[c]) /\ Len(Through(c)) = made[c]
    BY <2>1, LineNew DEF Through
  <2>4. Kept(c)
    BY <2>1, WholeNew DEF Kept
  <2> QED  BY <2>1, <2>2, <2>3, <2>4 DEF Good, Unused, Complete, Room, Native, Named
<1> QED  BY <1>1, <1>2, <1>3 DEF AudioInv

\* What a step does not touch stays good, also when the stream or the codec goes.
LEMMA GoodKept ==
  ASSUME NEW c \in Starts, Good(c), name' = name, host' = host \/ host' = <<>>, way' = way,
         user'[c] = user[c], config'[c] = config[c], queue'[c] = queue[c],
         made'[c] = made[c], taken'[c] = taken[c], sizes'[c] = sizes[c], came'[c] = came[c],
         c \in overrun => c \in overrun',
         Streams(c)' => Streams(c)
  PROVE  Good(c)'
<1>1. Line(taken[c], queue[c], made[c], config[c])'
  BY DEF Good
<1>2. Through(c)' = Through(c)
  BY DEF Through
<1>3. Unused(c)' /\ Complete(c)' /\ Room(c)' /\ Named(c)'
  BY <1>2 DEF Good, Unused, Complete, Room, Named
<1>4. Native(c)'
  <2>1. CASE host' = <<>>
    BY <2>1 DEF Native
  <2>2. CASE host' = host
    BY <2>2 DEF Good, Native
  <2> QED  BY <2>1, <2>2
<1>5. Kept(c)'
  BY DEF Good, Kept, Whole
<1> QED  BY <1>1, <1>3, <1>4, <1>5 DEF Good

\* An output whose stream is gone takes its buffers with it.
LEMMA GoodCut ==
  ASSUME NEW c \in Starts, Good(c), UNCHANGED <<name, host, way, overrun>>, way[c] = "output",
         user'[c] = user[c], config'[c] = config[c], queue'[c] = <<>>,
         made'[c] = made[c], taken'[c] = taken[c], sizes'[c] = sizes[c], came'[c] = came[c],
         ~Streams(c)'
  PROVE  Good(c)'
<1>1. Line(taken[c], queue[c], made[c], config[c])'
  BY LineCut DEF Good
<1>2. Unused(c)' /\ Complete(c)' /\ Room(c)' /\ Named(c)' /\ Native(c)'
  BY DEF Good, Unused, Complete, Room, Named, Native
<1>3. Kept(c)'
  BY WholeCut DEF Good, Kept
<1> QED  BY <1>1, <1>2, <1>3 DEF Good

\* The same of every start, when the backend keeps fewer streams.
LEMMA GoodFewer ==
  ASSUME AudioInv, NEW streams, Keep(streams), UNCHANGED <<name, host, way, overrun>>,
         NEW c \in Starts, user'[c] = user[c], config'[c] = config[c],
         UNCHANGED <<made, taken, sizes, came>>,
         streams[way[c]] = c => backend[way[c]] = c
  PROVE  Good(c)'
<1>1. backend' = streams /\ Good(c)
  BY DEF Keep, AudioInv
<1>2. Streams(c)' => Streams(c)
  BY <1>1 DEF Streams
<1>3. CASE way[c] = "output" /\ streams.output # c
  <2>1. queue'[c] = <<>>
    BY <1>3 DEF Keep
  <2>2. ~Streams(c)'
    BY <1>1, <1>3 DEF Streams
  <2> QED  BY <1>1, <1>3, <2>1, <2>2, GoodCut
<1>4. CASE ~(way[c] = "output" /\ streams.output # c)
  <2>1. queue'[c] = queue[c]
    BY <1>4 DEF Keep
  <2> QED  BY <1>1, <1>2, <2>1, GoodKept
<1> QED  BY <1>3, <1>4

\* What the backend keeps is what it is told to.
LEMMA KeepShapes ==
  ASSUME NEW streams, Keep(streams)
  PROVE  queue' = [c \in Starts |-> queue'[c]] /\ backend' = streams
BY DEF Keep

\* What the device was given fits as long as the device is there.
LEMMA FitsKept ==
  ASSUME Fits, UNCHANGED <<name, speaker>>, host' = host \/ host' = <<>>
  PROVE  Fits'
<1>1. CASE host' = <<>>
  BY <1>1 DEF Fits
<1>2. CASE host' = host
  BY <1>2 DEF Fits
<1> QED  BY <1>1, <1>2

-----------------------------------------------------------------------------
(* The steps.                                                              *)

\* A start that is refused makes no stream.
LEMMA RefuseGood ==
  ASSUME AudioInv, NEW d \in Starts, StartRefused(d)
  PROVE  AudioInv'
<1>1. PICK how \in {"unsupported", "failed"} : Refuse(d, how) /\ (name = NoName => how = "unsupported")
  BY DEF StartRefused, audio_supported
<1>2. /\ user[d] = "idle" /\ user' = [user EXCEPT ![d] = how]
      /\ UNCHANGED <<host, name, alive, backend, way, config, queue, made, taken, sizes, came, overrun, speaker>>
  BY <1>1 DEF StartRefused, Refuse, chanVars
<1>3. Shapes'
  BY <1>2 DEF AudioInv, Shapes, UserStates
<1>4. Fits'
  BY <1>2, FitsKept DEF AudioInv
<1>5. ASSUME NEW c \in Starts  PROVE Good(c)'
  <2>1. Streams(c)' => Streams(c)
    BY <1>2 DEF Streams
  <2>2. CASE c = d
    <3>1. Good(c) /\ user'[c] = how
      BY <1>2, <2>2 DEF AudioInv, Shapes
    <3>2. UNCHANGED <<queue, taken, made, sizes, came, overrun, config>>
      BY <1>2
    <3>5. Kept(c)'
      BY <3>1, <3>2 DEF Good, Kept
    <3>3. Line(taken[c], queue[c], made[c], config[c])' /\ Through(c)' = Through(c)
      BY <3>1, <3>2 DEF Good, Through
    <3>4. Unused(c)' /\ Complete(c)' /\ Room(c)' /\ Named(c)' /\ Native(c)'
      BY <1>1, <1>2, <2>1, <2>2, <3>1, <3>2, <3>3 DEF Good, Unused, Complete, Room, Named, Native
    <3> QED  BY <3>3, <3>4, <3>5 DEF Good
  <2>3. CASE c # d
    BY <1>2, <2>1, <2>3, GoodKept DEF AudioInv, Shapes
  <2> QED  BY <2>2, <2>3
<1> QED  BY <1>3, <1>4, <1>5 DEF AudioInv

\* A start has a channel nobody has used, and the format of the device that is found.
LEMMA StartGood ==
  ASSUME AudioInv, NEW d \in Starts, Start(d)
  PROVE  AudioInv'
<1> USE UsbAudioAssumption
<1> DEFINE streams == [backend EXCEPT ![way[d]] = d]
           device == find_device(host, name, way[d])
<1>1. /\ user[d] = "idle" /\ name # NoName /\ Found(host, name, way[d]) # <<>>
      /\ config' = [config EXCEPT ![d] = AudioStreamConfig(device, "F32")]
      /\ Keep(streams)
      /\ user' = [user EXCEPT ![d] = "ready"]
      /\ UNCHANGED <<host, name, way, made, taken, sizes, came, overrun, speaker>>
  BY DEF Start, audio_supported
<1>2. backend' = streams
  BY <1>1 DEF Keep
<1>3. way[d] \in {"input", "output"} /\ streams[way[d]] = d
  BY DEF AudioInv, Shapes
<1>4. \A c \in Starts : c # d => (streams[way[c]] = c => backend[way[c]] = c)
  BY DEF AudioInv, Shapes
<1>5. Shapes'
  <2>1. user' \in [Starts -> UserStates] /\ config' = [c \in Starts |-> config'[c]]
    BY <1>1 DEF AudioInv, Shapes, UserStates
  <2>2. queue' = [c \in Starts |-> queue'[c]]
    BY <1>1, KeepShapes
  <2>3. /\ backend' = [input |-> backend'.input, output |-> backend'.output]
        /\ backend'.input \in Starts => way[backend'.input] = "input"
        /\ backend'.output \in Starts => way[backend'.output] = "output"
    <3>1. CASE way[d] = "input"
      <4>1. backend' = [input |-> d, output |-> backend.output]
        BY <1>2, <3>1 DEF AudioInv, Shapes
      <4> QED  BY <3>1, <4>1 DEF AudioInv, Shapes
    <3>2. CASE way[d] = "output"
      <4>1. backend' = [input |-> backend.input, output |-> d]
        BY <1>2, <3>2 DEF AudioInv, Shapes
      <4> QED  BY <3>2, <4>1 DEF AudioInv, Shapes
    <3> QED  BY <1>3, <3>1, <3>2
  <2> QED  BY <1>1, <2>1, <2>2, <2>3 DEF AudioInv, Shapes
<1>6. Fits'
  BY <1>1, FitsKept DEF AudioInv
<1>7. ASSUME NEW c \in Starts  PROVE Good(c)'
  <2>1. CASE c = d
    <3>1. /\ queue[d] = <<>> /\ taken[d] = <<>> /\ made[d] = 0 /\ user'[d] = "ready"
          /\ sizes[d] = <<>> /\ came[d] = <<>>
      BY <1>1 DEF AudioInv, Good, Unused, Shapes
    <3>2. /\ queue'[d] = <<>> /\ taken'[d] = <<>> /\ made'[d] = 0
          /\ sizes'[d] = <<>> /\ came'[d] = <<>>
      BY <1>1, <3>1 DEF Keep
    <3>7. Kept(d)'
      BY <3>2, WholeNew DEF Kept
    <3>3. Line(taken[d], queue[d], made[d], config[d])' /\ Len(Through(d)') = made'[d]
      BY <3>2, LineNew DEF Through
    <3>4. config'[d] = AudioStreamConfig(device, "F32")
      BY <1>1 DEF AudioInv, Shapes
    <3>5. Native(d)'
      BY <1>1, <3>4 DEF Native
    <3>6. Unused(d)' /\ Complete(d)' /\ Room(d)' /\ Named(d)'
      BY <1>1, <3>1, <3>3 DEF Unused, Complete, Room, Named
    <3> QED  BY <2>1, <3>3, <3>5, <3>6, <3>7 DEF Good
  <2>2. CASE c # d
    <3>1. user'[c] = user[c] /\ config'[c] = config[c]
      BY <1>1, <2>2 DEF AudioInv, Shapes
    <3>2. streams[way[c]] = c => backend[way[c]] = c
      BY <1>4, <2>2
    <3> HIDE DEF streams
    <3> QED  BY <1>1, <3>1, <3>2, GoodFewer
  <2> QED  BY <2>1, <2>2
<1> QED  BY <1>5, <1>6, <1>7 DEF AudioInv

\* stop_audio, and the rig dropped: no stream is kept.
LEMMA StopGood ==
  ASSUME AudioInv, Keep(NoStream),
         UNCHANGED <<host, name, way, user, config, made, taken, sizes, came, overrun, speaker>>
  PROVE  AudioInv'
<1> USE UsbAudioAssumption
<1>1. Shapes'
  BY KeepShapes DEF AudioInv, Shapes, NoStream
<1>2. Fits'
  BY FitsKept DEF AudioInv
<1>3. ASSUME NEW c \in Starts  PROVE Good(c)'
  <2>1. ~(NoStream[way[c]] = c)
    BY DEF NoStream, AudioInv, Shapes
  <2> QED  BY <2>1, GoodFewer
<1> QED  BY <1>1, <1>2, <1>3 DEF AudioInv

\* When the codec disappears, nothing is promised of it any more.
LEMMA UnplugGood ==
  ASSUME AudioInv, Unplug
  PROVE  AudioInv'
<1>1. /\ host' = <<>>
      /\ UNCHANGED <<name, backend, way, user, config, queue, made, taken, sizes, came, overrun, speaker>>
  BY DEF Unplug, chanVars
<1>2. Shapes'
  BY <1>1 DEF AudioInv, Shapes
<1>3. Fits'
  BY <1>1, FitsKept DEF AudioInv
<1>4. ASSUME NEW c \in Starts  PROVE Good(c)'
  <2>1. Streams(c)' => Streams(c)
    BY <1>1 DEF Streams
  <2> QED  BY <1>1, <2>1, GoodKept DEF AudioInv
<1> QED  BY <1>2, <1>3, <1>4 DEF AudioInv

\* A step of one start: the others keep what they have.
LEMMA OneGood ==
  ASSUME AudioInv, NEW d \in Starts, UNCHANGED <<host, name, backend, way, config>>,
         \E u \in UserStates : user' = [user EXCEPT ![d] = u],
         \E q : queue' = [queue EXCEPT ![d] = q], \E m : made' = [made EXCEPT ![d] = m],
         \E t : taken' = [taken EXCEPT ![d] = t], \E z : sizes' = [sizes EXCEPT ![d] = z],
         \E a : came' = [came EXCEPT ![d] = a], overrun \subseteq overrun',
         Good(d)', Fits'
  PROVE  AudioInv'
<1>1. Shapes'
  <2>1. user' \in [Starts -> UserStates]
    BY DEF AudioInv, Shapes
  <2>2. /\ queue' = [c \in Starts |-> queue'[c]] /\ made' = [c \in Starts |-> made'[c]]
        /\ taken' = [c \in Starts |-> taken'[c]]
    BY DEF AudioInv, Shapes
  <2>3. sizes' = [c \in Starts |-> sizes'[c]] /\ came' = [c \in Starts |-> came'[c]]
    BY DEF AudioInv, Shapes
  <2> QED  BY <2>1, <2>2, <2>3 DEF AudioInv, Shapes
<1>2. ASSUME NEW c \in Starts, c # d  PROVE Good(c)'
  <2>1. /\ user'[c] = user[c] /\ queue'[c] = queue[c]
        /\ made'[c] = made[c] /\ taken'[c] = taken[c]
        /\ sizes'[c] = sizes[c] /\ came'[c] = came[c]
    BY <1>2 DEF AudioInv, Shapes
  <2>2. Streams(c)' => Streams(c)
    BY DEF Streams
  <2> QED  BY <2>1, <2>2, GoodKept DEF AudioInv
<1> QED  BY <1>1, <1>2 DEF AudioInv

\* What a function that is unchanged has to do with one start.
LEMMA SameAt ==
  ASSUME Shapes, NEW d \in Starts
  PROVE  /\ user = [user EXCEPT ![d] = user[d]] /\ queue = [queue EXCEPT ![d] = queue[d]]
         /\ made = [made EXCEPT ![d] = made[d]] /\ taken = [taken EXCEPT ![d] = taken[d]]
         /\ sizes = [sizes EXCEPT ![d] = sizes[d]] /\ came = [came EXCEPT ![d] = came[d]]
         /\ user[d] \in UserStates /\ way[d] \in {"input", "output"}
         /\ \A u : [user EXCEPT ![d] = u][d] = u
         /\ \A q : [queue EXCEPT ![d] = q][d] = q
         /\ \A m : [made EXCEPT ![d] = m][d] = m
         /\ \A t : [taken EXCEPT ![d] = t][d] = t
         /\ \A z : [sizes EXCEPT ![d] = z][d] = z
         /\ \A a : [came EXCEPT ![d] = a][d] = a
BY DEF Shapes

\* A send that begins to wait is within the bound.
LEMMA UseGood ==
  ASSUME AudioInv, NEW d \in Starts, Use(d)
  PROVE  AudioInv'
<1>1. /\ user[d] = "ready" /\ (way[d] = "output" => made[d] < MaxBuffers \/ ~Streams(d))
      /\ user' = [user EXCEPT ![d] = "waits"]
      /\ UNCHANGED <<host, name, backend, way, config, queue, made, taken, sizes, came, overrun, speaker>>
  BY DEF Use, chanVars
<1>2. Shapes /\ Good(d)
  BY DEF AudioInv
<1>3. user'[d] = "waits"
  BY <1>1, <1>2, SameAt
<1>4. Good(d)'
  <2>1. Line(taken[d], queue[d], made[d], config[d])' /\ Through(d)' = Through(d)
    BY <1>1, <1>2 DEF Good, Through
  <2>2. Streams(d)' <=> Streams(d)
    BY <1>1 DEF Streams
  <2>3. Unused(d)' /\ Complete(d)' /\ Room(d)' /\ Named(d)' /\ Native(d)'
    BY <1>1, <1>2, <1>3, <2>1, <2>2 DEF Good, Unused, Complete, Room, Named, Native
  <2>4. Kept(d)'
    BY <1>1, <1>2 DEF Good, Kept
  <2> QED  BY <2>1, <2>3, <2>4 DEF Good
<1>5. Fits'
  BY <1>1, FitsKept DEF AudioInv
<1>6. "waits" \in UserStates
  BY DEF UserStates
<1> QED  BY <1>1, <1>2, <1>4, <1>5, <1>6, SameAt, OneGood

\* A receiver that is dropped takes what is buffered with it.
LEMMA DropHandleGood ==
  ASSUME AudioInv, NEW d \in Starts, DropHandle(d)
  PROVE  AudioInv'
<1>1. /\ user[d] \in {"ready", "waits"}
      /\ user' = [user EXCEPT ![d] = "dropped"]
      /\ queue' = IF way[d] = "input" THEN [queue EXCEPT ![d] = <<>>] ELSE queue
      /\ UNCHANGED <<host, name, backend, way, config, made, taken, sizes, came, overrun, speaker>>
  BY DEF DropHandle
<1>2. Shapes /\ Good(d)
  BY DEF AudioInv
<1>3. user'[d] = "dropped" /\ queue'[d] = (IF way[d] = "input" THEN <<>> ELSE queue[d])
  BY <1>1, <1>2, SameAt
<1>4. Good(d)'
  <2>1. Line(taken[d], queue[d], made[d], config[d])'
    BY <1>1, <1>2, <1>3, LineCut DEF Good
  <2>2. way[d] # "input" => Through(d)' = Through(d)
    BY <1>1, <1>3 DEF Through
  <2>3. Streams(d)' <=> Streams(d)
    BY <1>1 DEF Streams
  <2>4. Unused(d)' /\ Complete(d)' /\ Room(d)' /\ Named(d)' /\ Native(d)'
    BY <1>1, <1>2, <1>3, <2>2, <2>3 DEF Good, Unused, Complete, Room, Named, Native
  <2>5. Kept(d)'
    BY <1>1, <1>2, <1>3, WholeCut DEF Good, Kept
  <2> QED  BY <2>1, <2>4, <2>5 DEF Good
<1>5. Fits'
  BY <1>1, FitsKept DEF AudioInv
<1>6. "dropped" \in UserStates /\ (\E q : queue' = [queue EXCEPT ![d] = q])
  BY <1>1, <1>2, SameAt DEF UserStates
<1> QED  BY <1>1, <1>2, <1>4, <1>5, <1>6, SameAt, OneGood

\* recv takes the first buffer, or is told the end.
LEMMA RecvGood ==
  ASSUME AudioInv, NEW d \in Starts, Recv(d)
  PROVE  AudioInv'
<1>1. /\ way[d] = "input" /\ user[d] = "waits"
      /\ UNCHANGED <<host, name, backend, way, config, made, sizes, overrun, speaker>>
  BY DEF Recv
<1>2. Shapes /\ Good(d)
  BY DEF AudioInv
<1>3. Fits'
  BY <1>1, FitsKept DEF AudioInv
<1>4. Streams(d)' <=> Streams(d)
  BY <1>1 DEF Streams
<1>5. CASE queue[d] # <<>> /\ queue' = [queue EXCEPT ![d] = Tail(@)]
           /\ taken' = [taken EXCEPT ![d] = Append(@, Head(queue[d]).nr)]
           /\ came' = [came EXCEPT ![d] = Append(@, Len(Head(queue[d]).samples))]
           /\ user' = [user EXCEPT ![d] = "ready"]
  <2>1. /\ user'[d] = "ready" /\ queue'[d] = Tail(queue[d])
        /\ taken'[d] = Append(taken[d], Head(queue[d]).nr)
        /\ came'[d] = Append(came[d], Len(Head(queue[d]).samples))
    BY <1>2, <1>5, SameAt
  <2>6. Kept(d)'
    <3>1. Line(taken[d], queue[d], made[d], config[d]) /\ Kept(d)
      BY <1>2 DEF Good
    <3> DEFINE size == Len(Head(queue[d]).samples)
    <3>2. size \in Nat /\ size = Len(Head(queue[d]).samples) /\ came'[d] = Append(came[d], size)
      BY <1>5, <2>1, <3>1, LineOut
    <3> HIDE DEF size
    <3>3. Whole(taken'[d], queue'[d], made[d], sizes[d], came'[d], d, overrun)
      <4>1. /\ Line(taken[d], queue[d], made[d], config[d]) /\ queue[d] # <<>>
            /\ Whole(taken[d], queue[d], made[d], sizes[d], came[d], d, overrun)
        BY <1>5, <3>1 DEF Kept
      <4>2. Whole(Append(taken[d], Head(queue[d]).nr), Tail(queue[d]), made[d], sizes[d],
                  Append(came[d], size), d, overrun)
        BY ONLY <3>2, <4>1, WholeOut
      <4> QED  BY <2>1, <3>2, <4>2
    <3> QED  BY <1>1, <3>3 DEF Kept
  <2>2. Line(taken[d], queue[d], made[d], config[d])' /\ Through(d)' = Through(d)
    BY <1>1, <1>2, <1>5, <2>1, LineOut DEF Good, Through
  <2>3. Unused(d)' /\ Complete(d)' /\ Room(d)' /\ Named(d)' /\ Native(d)'
    BY <1>1, <1>2, <1>4, <2>1, <2>2 DEF Good, Unused, Complete, Room, Named, Native
  <2>4. Good(d)' /\ "ready" \in UserStates
    BY <2>2, <2>3, <2>6 DEF Good, UserStates
  <2>5. \E u \in UserStates : user' = [user EXCEPT ![d] = u]
    BY <1>5, <2>4
  <2> QED  BY <1>1, <1>2, <1>3, <1>5, <2>4, <2>5, SameAt, OneGood
<1>6. CASE queue[d] = <<>> /\ ~Streams(d) /\ user' = [user EXCEPT ![d] = "ended"]
           /\ UNCHANGED <<queue, taken, came>>
  <2>1. user'[d] = "ended"
    BY <1>2, <1>6, SameAt
  <2>2. Line(taken[d], queue[d], made[d], config[d])' /\ Through(d)' = Through(d)
    BY <1>1, <1>2, <1>6 DEF Good, Through
  <2>3. Unused(d)' /\ Complete(d)' /\ Room(d)' /\ Named(d)' /\ Native(d)'
    BY <1>1, <1>2, <1>4, <2>1, <2>2 DEF Good, Unused, Complete, Room, Named, Native
  <2>5. Kept(d)'
    BY <1>1, <1>2, <1>6 DEF Good, Kept
  <2>4. Good(d)' /\ "ended" \in UserStates
    BY <2>2, <2>3, <2>5 DEF Good, UserStates
  <2> QED  BY <1>1, <1>2, <1>3, <1>6, <2>4, SameAt, OneGood
<1> QED  BY <1>5, <1>6 DEF Recv, Take

\* send puts its buffer behind the others, or is told that the stream is gone.
LEMMA SendGood ==
  ASSUME AudioInv, NEW d \in Starts, NEW samples \in Spoken, Send(d, samples)
  PROVE  AudioInv'
<1>1. /\ way[d] = "output" /\ user[d] = "waits"
      /\ UNCHANGED <<host, name, backend, way, config, taken, came, overrun, speaker>>
  BY DEF Send
<1>2. Shapes /\ Good(d) /\ samples \in Seq(Int)
  BY UsbAudioAssumption DEF AudioInv
<1>3. Fits'
  BY <1>1, FitsKept DEF AudioInv
<1>4. Streams(d)' <=> Streams(d)
  BY <1>1 DEF Streams
<1>5. CASE Streams(d) /\ Len(queue[d]) < Capacity /\ made' = [made EXCEPT ![d] = @ + 1]
           /\ queue' = [queue EXCEPT ![d] = Append(@, AudioBuffer(made'[d], samples, config[d]))]
           /\ sizes' = [sizes EXCEPT ![d] = Append(@, Len(samples))]
           /\ user' = [user EXCEPT ![d] = "ready"]
  <2>1. made'[d] = made[d] + 1
    BY <1>2, <1>5, SameAt
  <2>2. /\ user'[d] = "ready"
        /\ queue'[d] = Append(queue[d], AudioBuffer(made[d] + 1, samples, config[d]))
    <3>1. queue' = [queue EXCEPT ![d] = Append(queue[d], AudioBuffer(made[d] + 1, samples, config[d]))]
      BY <1>5, <2>1
    <3>2. user' = [user EXCEPT ![d] = "ready"]
      BY <1>5
    <3> QED  BY <1>2, <3>1, <3>2, SameAt
  <2>3. made[d] < MaxBuffers /\ Line(taken[d], queue[d], made[d], config[d])
    BY <1>1, <1>2, <1>5 DEF Good, Room
  <2>4. /\ Line(taken[d], queue[d], made[d], config[d])'
        /\ Len(Through(d)') = Len(Through(d)) + 1
    BY <1>1, <1>2, <1>5, <2>1, <2>2, <2>3, LineIn DEF Through
  <2>5. Len(Through(d)') = made'[d]
    BY <1>1, <1>2, <1>5, <2>1, <2>4 DEF Good, Complete
  <2>6. Unused(d)' /\ Complete(d)' /\ Room(d)' /\ Named(d)' /\ Native(d)'
    BY <1>1, <1>2, <1>4, <2>2, <2>5 DEF Good, Unused, Complete, Room, Named, Native
  <2>9. Kept(d)'
    <3>1. sizes'[d] = Append(sizes[d], Len(samples))
      BY <1>2, <1>5, SameAt
    <3>2. Kept(d) /\ made'[d] = made[d] + 1
      BY <1>2, <2>1 DEF Good
    <3> QED  BY <1>1, <1>2, <2>2, <2>3, <3>1, <3>2, WholeIn DEF Kept
  <2>7. Good(d)' /\ "ready" \in UserStates
    BY <2>4, <2>6, <2>9 DEF Good, UserStates
  <2>8. /\ \E u \in UserStates : user' = [user EXCEPT ![d] = u]
        /\ \E q : queue' = [queue EXCEPT ![d] = q]
        /\ \E m : made' = [made EXCEPT ![d] = m]
        /\ \E z : sizes' = [sizes EXCEPT ![d] = z]
    BY <1>5, <2>7
  <2> QED  BY <1>1, <1>2, <1>3, <2>7, <2>8, SameAt, OneGood
<1>6. CASE ~Streams(d) /\ user' = [user EXCEPT ![d] = "ended"] /\ UNCHANGED <<made, sizes, queue>>
  <2>1. user'[d] = "ended"
    BY <1>2, <1>6, SameAt
  <2>2. Line(taken[d], queue[d], made[d], config[d])' /\ Through(d)' = Through(d)
    BY <1>1, <1>2, <1>6 DEF Good, Through
  <2>3. Unused(d)' /\ Complete(d)' /\ Room(d)' /\ Named(d)' /\ Native(d)'
    BY <1>1, <1>2, <1>4, <1>6, <2>1, <2>2 DEF Good, Unused, Complete, Room, Named, Native
  <2>5. Kept(d)'
    BY <1>1, <1>2, <1>6 DEF Good, Kept
  <2>4. Good(d)' /\ "ended" \in UserStates
    BY <2>2, <2>3, <2>5 DEF Good, UserStates
  <2> QED  BY <1>1, <1>2, <1>3, <1>6, <2>4, SameAt, OneGood
<1> QED  BY <1>5, <1>6 DEF Send

\* The input callback stores its buffer or, if there is no room, drops it.
LEMMA CaptureGood ==
  ASSUME AudioInv, NEW d \in Starts, NEW data \in Heard, Capture(d, data)
  PROVE  AudioInv'
<1> DEFINE samples == [i \in DOMAIN data |->
                         IF find_device(host, name, "input").input = "I16" THEN i16_to_f32(data[i])
                         ELSE 2 * data[i]]
           room == Len(queue[d]) < Capacity /\ user[d] # "dropped"
<1>1. /\ way[d] = "input" /\ Streams(d) /\ made[d] < MaxBuffers
      /\ made' = [made EXCEPT ![d] = @ + 1]
      /\ queue' = IF room THEN [queue EXCEPT ![d] = Append(@, AudioBuffer(made'[d], samples, config[d]))]
                  ELSE queue
      /\ sizes' = [sizes EXCEPT ![d] = Append(@, Len(samples))]
      /\ overrun' = IF Len(queue[d]) = Capacity THEN overrun \cup {d} ELSE overrun
      /\ UNCHANGED <<host, name, backend, way, user, config, taken, came, speaker>>
  BY DEF Capture, AudioBuffer
<1>2. samples \in Seq(Int)
  <2>1. data \in Seq(Int)
    BY UsbAudioAssumption
  <2> QED  BY <2>1 DEF i16_to_f32
<1> HIDE DEF samples
<1>3. Shapes /\ Good(d) /\ Line(taken[d], queue[d], made[d], config[d])
  BY DEF AudioInv, Good
<1>4. Fits'
  BY <1>1, FitsKept DEF AudioInv
<1>5. Streams(d)' <=> Streams(d)
  BY <1>1 DEF Streams
<1>6. made'[d] = made[d] + 1
  BY <1>1, <1>3, SameAt
<1>9. sizes'[d] = Append(sizes[d], Len(samples)) /\ Kept(d) /\ Len(samples) \in Nat
  <2>1. sizes' = [sizes EXCEPT ![d] = Append(sizes[d], Len(samples))]
    BY <1>1
  <2>2. sizes'[d] = Append(sizes[d], Len(samples))
    BY <1>3, <2>1, SameAt
  <2>3. Kept(d)
    BY <1>3 DEF Good
  <2>4. Len(samples) \in Nat
    BY <1>2
  <2> QED  BY <2>2, <2>3, <2>4
<1>10. /\ overrun \subseteq overrun' /\ \E z : sizes' = [sizes EXCEPT ![d] = z]
       /\ taken'[d] = taken[d] /\ came'[d] = came[d]
  BY <1>1
<1>7. CASE room
  <2>1. queue'[d] = Append(queue[d], AudioBuffer(made[d] + 1, samples, config[d]))
    BY <1>1, <1>3, <1>6, <1>7, SameAt
  <2>2. /\ Line(taken[d], queue[d], made[d], config[d])'
        /\ Len(Through(d)') = Len(Through(d)) + 1
    BY <1>1, <1>2, <1>3, <1>6, <1>7, <2>1, LineIn DEF Through
  <2>3. d \notin overrun /\ user[d] # "dropped" => Len(Through(d)') = made'[d]
    BY <1>1, <1>3, <1>6, <2>2 DEF Good, Complete
  <2>4. d \notin overrun' => d \notin overrun
    BY <1>1
  <2>5. Unused(d)' /\ Complete(d)' /\ Room(d)' /\ Named(d)' /\ Native(d)'
    BY <1>1, <1>3, <1>5, <2>3, <2>4 DEF Good, Unused, Complete, Room, Named, Native
  <2>8. Kept(d)'
    <3>1. Whole(taken[d], queue'[d], made'[d], sizes'[d], came[d], d, overrun)
      BY <1>2, <1>3, <1>6, <1>9, <2>1, WholeIn DEF Kept
    <3> QED  BY <1>10, <3>1 DEF Kept, Whole
  <2>6. Good(d)'
    BY <2>2, <2>5, <2>8 DEF Good
  <2>7. /\ \E q : queue' = [queue EXCEPT ![d] = q]
        /\ \E m : made' = [made EXCEPT ![d] = m]
        /\ overrun \subseteq overrun'
    BY <1>1, <1>7
  <2> QED  BY <1>1, <1>3, <1>4, <1>10, <2>6, <2>7, SameAt, OneGood
<1>8. CASE ~room
  <2>1. Line(taken[d], queue[d], made[d], config[d])' /\ Through(d)' = Through(d)
    BY <1>1, <1>3, <1>6, <1>8, LineLost DEF Through
  <2>2. d \in overrun' \/ user[d] = "dropped"
    <3>1. Len(queue[d]) <= Capacity /\ Len(queue[d]) \in Nat /\ Capacity \in Nat
      BY <1>3, UsbAudioAssumption DEF Line
    <3> QED  BY <1>1, <1>8, <3>1
  <2>3. Unused(d)' /\ Complete(d)' /\ Room(d)' /\ Named(d)' /\ Native(d)'
    BY <1>1, <1>3, <1>5, <2>2 DEF Good, Unused, Complete, Room, Named, Native
  <2>8. Kept(d)'
    <3>1. Whole(taken[d], queue[d], made'[d], sizes'[d], came[d], d, overrun) /\ queue'[d] = queue[d]
      BY <1>1, <1>3, <1>6, <1>8, <1>9, WholeLost DEF Kept
    <3> QED  BY <1>10, <3>1 DEF Kept, Whole
  <2>4. Good(d)'
    BY <2>1, <2>3, <2>8 DEF Good
  <2>5. queue' = queue
    BY <1>1, <1>8
  <2>6. /\ \E u \in UserStates : user' = [user EXCEPT ![d] = u]
        /\ \E q : queue' = [queue EXCEPT ![d] = q]
        /\ \E t : taken' = [taken EXCEPT ![d] = t]
        /\ \E a : came' = [came EXCEPT ![d] = a]
    BY <1>1, <1>3, <2>5, SameAt
  <2>7. /\ UNCHANGED <<host, name, backend, way, config>>
        /\ \E m : made' = [made EXCEPT ![d] = m]
        /\ overrun \subseteq overrun'
    BY <1>1
  <2> QED  BY <1>4, <1>10, <2>4, <2>6, <2>7, OneGood
<1> QED  BY <1>7, <1>8

\* What is converted for an i16 device, and back, is in the range of an i16.
LEMMA Clamped ==
  ASSUME NEW sample \in Int
  PROVE  i16_to_f32(f32_to_i16(sample)) \in -2 * I16_MAX .. 2 * I16_MAX
<1> DEFINE clamped == IF sample > 2 * I16_MAX THEN 2 * I16_MAX
                      ELSE IF sample < -2 * I16_MAX THEN -2 * I16_MAX ELSE sample
           half == IF clamped < 0 THEN -((-clamped) \div 2) ELSE clamped \div 2
<1>1. clamped \in Int /\ clamped <= 65534 /\ -65534 <= clamped
  BY DEF I16_MAX
<1> HIDE DEF clamped
<1>2. half \in Int /\ half <= 32767 /\ -32767 <= half
  BY <1>1
<1>3. f32_to_i16(sample) = half
  BY DEF f32_to_i16, clamped
<1>4. I16_MAX \in Nat /\ half <= I16_MAX /\ -I16_MAX <= half
  BY <1>2 DEF I16_MAX
<1>5. i16_to_f32(f32_to_i16(sample)) = 2 * half
  BY <1>3 DEF i16_to_f32
<1> HIDE DEF half
<1>6. 2 * half \in -2 * I16_MAX .. 2 * I16_MAX
  BY <1>2, <1>4
<1> QED  BY <1>5, <1>6

\* Silence is.
LEMMA Silent == 0 \in -2 * I16_MAX .. 2 * I16_MAX
<1>1. I16_MAX \in Nat
  BY DEF I16_MAX
<1> QED  BY <1>1

\* The output callback takes the first buffer, or plays silence.
LEMMA PlayGood ==
  ASSUME AudioInv, NEW d \in Starts, NEW want \in Wanted, Play(d, want)
  PROVE  AudioInv'
<1> DEFINE format == find_device(host, name, "output").output
           held == Len(Head(queue[d]).samples)
           size == IF held <= want THEN held ELSE want
<1>1. /\ way[d] = "output" /\ want \in Nat
      /\ UNCHANGED <<host, name, backend, way, user, config, made, sizes>>
  BY UsbAudioAssumption DEF Play
<1>2. Shapes /\ Good(d) /\ Line(taken[d], queue[d], made[d], config[d])
  BY DEF AudioInv, Good
<1>3. Streams(d)' <=> Streams(d)
  BY <1>1 DEF Streams
<1>4. CASE queue[d] = <<>>
  <2>1. /\ speaker' = [want |-> want, out |-> [i \in 1..want |-> 0]]
        /\ UNCHANGED <<queue, taken, came, overrun>>
    BY <1>4 DEF Play, Take
  <2>2. Fits'
    <3>1. Len(speaker'.out) = want /\ speaker'.want = want
      BY <1>1, <2>1
    <3>2. \A i \in DOMAIN speaker'.out : speaker'.out[i] \in -2 * I16_MAX .. 2 * I16_MAX
      BY <1>1, <2>1, Silent
    <3> QED  BY <3>1, <3>2 DEF Fits
  <2>3. Line(taken[d], queue[d], made[d], config[d])' /\ Through(d)' = Through(d)
    BY <1>1, <1>2, <2>1 DEF Through
  <2>4. Unused(d)' /\ Complete(d)' /\ Room(d)' /\ Named(d)' /\ Native(d)'
    BY <1>1, <1>2, <1>3, <2>1, <2>3 DEF Good, Unused, Complete, Room, Named, Native
  <2>6. Kept(d)'
    BY <1>1, <1>2, <2>1 DEF Good, Kept
  <2>5. Good(d)'
    BY <2>3, <2>4, <2>6 DEF Good
  <2> QED  BY <1>1, <1>2, <2>1, <2>2, <2>5, SameAt, OneGood
<1>5. CASE queue[d] # <<>>
  <2>1. /\ speaker' = [want |-> want, out |-> Filled(Head(queue[d]), want, format)]
        /\ queue' = [queue EXCEPT ![d] = Tail(@)]
        /\ taken' = [taken EXCEPT ![d] = Append(@, Head(queue[d]).nr)]
        /\ came' = [came EXCEPT ![d] = Append(@, size)]
        /\ overrun' = IF held <= want THEN overrun ELSE overrun \cup {d}
    BY <1>5 DEF Play, Take
  <2>2. /\ queue'[d] = Tail(queue[d]) /\ taken'[d] = Append(taken[d], Head(queue[d]).nr)
        /\ came'[d] = Append(came[d], size)
    BY <1>2, <2>1, SameAt
  <2>3. /\ Line(taken[d], queue[d], made[d], config[d])' /\ Through(d)' = Through(d)
        /\ Head(queue[d]).samples \in Seq(Int)
    BY <1>1, <1>2, <1>5, <2>2, LineOut DEF Through
  <2>4. Fits'
    <3> DEFINE b == Head(queue[d])
    <3>1. b.samples \in Seq(Int)
      BY <2>3
    <3> HIDE DEF b
    <3>2. Filled(b, want, format) =
            [i \in 1..want |->
               IF i > Len(b.samples) THEN 0
               ELSE IF format = "I16" THEN i16_to_f32(f32_to_i16(b.samples[i])) ELSE b.samples[i]]
      BY DEF Filled
    <3>3. Len(speaker'.out) = want /\ speaker'.want = want /\ DOMAIN speaker'.out = 1..want
      BY <1>1, <2>1, <3>2 DEF b
    <3>4. ASSUME format = "I16", NEW i \in 1..want
          PROVE  speaker'.out[i] \in -2 * I16_MAX .. 2 * I16_MAX
      <4>1. CASE i > Len(b.samples)
        <5>1. speaker'.out[i] = 0
          BY <2>1, <3>2, <4>1 DEF b
        <5> QED  BY <5>1, Silent
      <4>2. CASE ~(i > Len(b.samples))
        <5>1. b.samples[i] \in Int
          BY <1>1, <3>1, <4>2
        <5>2. speaker'.out[i] = i16_to_f32(f32_to_i16(b.samples[i]))
          BY <2>1, <3>2, <3>4, <4>2 DEF b
        <5> QED  BY <5>1, <5>2, Clamped
      <4> QED  BY <4>1, <4>2
    <3> QED  BY <1>1, <3>3, <3>4 DEF Fits
  <2>5. Unused(d)' /\ Complete(d)' /\ Room(d)' /\ Named(d)' /\ Native(d)'
    <3>1. user[d] \notin {"idle", "unsupported", "failed"}
      BY <1>2, <1>5 DEF Good, Unused
    <3> QED  BY <1>1, <1>2, <1>3, <2>3, <3>1 DEF Good, Unused, Complete, Room, Named, Native
  <2>7. overrun \subseteq overrun' /\ size \in Nat /\ (d \notin overrun' => size = held)
    BY <1>1, <2>1, <2>3
  <2>8. Kept(d)'
    <3>1. Kept(d)
      BY <1>2 DEF Good
    <3> HIDE DEF size, held
    <3>2. Whole(taken'[d], queue'[d], made[d], sizes[d], came'[d], d, overrun')
      BY <1>2, <1>5, <2>2, <2>7, <3>1, WholeOut DEF Kept, held
    <3> QED  BY <1>1, <3>2 DEF Kept
  <2>6. Good(d)'
    BY <2>3, <2>5, <2>8 DEF Good
  <2> QED  BY <1>1, <1>2, <2>1, <2>4, <2>6, <2>7, SameAt, OneGood
<1> QED  BY <1>4, <1>5

\* Every step keeps the invariant.
LEMMA GoodStep == AudioInv /\ [Next]_vars => AudioInv'
<1> SUFFICES ASSUME AudioInv, [Next]_vars PROVE AudioInv'
  OBVIOUS
<1>1. CASE stop_audio \/ DropRig
  <2>1. /\ Keep(NoStream)
        /\ UNCHANGED <<host, name, way, user, config, made, taken, sizes, came, overrun, speaker>>
    BY <1>1 DEF stop_audio, DropRig
  <2> QED  BY <2>1, StopGood
<1>2. CASE Unplug
  BY <1>2, UnplugGood
<1>3. ASSUME NEW c \in Starts, StartRefused(c) \/ Start(c) \/ Use(c) \/ Recv(c) \/ DropHandle(c)
      PROVE  AudioInv'
  BY <1>3, RefuseGood, StartGood, UseGood, RecvGood, DropHandleGood
<1>4. ASSUME NEW c \in Starts, NEW data \in Heard, Capture(c, data)  PROVE AudioInv'
  BY <1>4, CaptureGood
<1>5. ASSUME NEW c \in Starts, NEW samples \in Spoken, Send(c, samples)  PROVE AudioInv'
  BY <1>5, SendGood
<1>6. ASSUME NEW c \in Starts, NEW want \in Wanted, Play(c, want)  PROVE AudioInv'
  BY <1>6, PlayGood
<1>7. CASE UNCHANGED vars
  <2>1. UNCHANGED <<host, name, backend, way, user, config, queue, made, taken, sizes, came, overrun, speaker>>
    BY <1>7 DEF vars, chanVars
  <2>2. Shapes' /\ Fits'
    BY <2>1, FitsKept DEF AudioInv, Shapes
  <2>3. ASSUME NEW c \in Starts  PROVE Good(c)'
    <3>1. Streams(c)' => Streams(c)
      BY <2>1 DEF Streams
    <3> QED  BY <2>1, <3>1, GoodKept DEF AudioInv
  <2> QED  BY <2>2, <2>3 DEF AudioInv
<1> QED  BY <1>1, <1>2, <1>3, <1>4, <1>5, <1>6, <1>7 DEF Next

\* The invariant says what the types are,
LEMMA GoodTypes == AudioInv => TypeOK
<1> SUFFICES ASSUME AudioInv PROVE TypeOK
  OBVIOUS
<1>1. ASSUME NEW c \in Starts
      PROVE  /\ Len(queue[c]) <= Capacity /\ made[c] \in 0..MaxBuffers
             /\ name = NoName => user[c] \in {"idle", "unsupported"}
  BY DEF AudioInv, Good, Line, Named
<1> QED  BY <1>1 DEF AudioInv, Shapes, Fits, TypeOK

\* and what is in order.
LEMMA GoodOrder == AudioInv => InOrder
<1> SUFFICES ASSUME AudioInv, NEW c \in Starts
             PROVE
               /\ Rising(Numbers(c))
               /\ way[c] = "input" /\ c \notin overrun /\ user[c] # "dropped" => Len(Numbers(c)) = made[c]
               /\ way[c] = "output" /\ Streams(c) => Len(Numbers(c)) = made[c]
               /\ c \notin overrun => came[c] = [i \in DOMAIN taken[c] |-> sizes[c][taken[c][i]]]
               /\ way[c] = "input" /\ Streams(c) /\ host # <<>> =>
                    config[c] = [native_config(name) EXCEPT !.sample_format = "F32"]
               /\ \A i \in DOMAIN queue[c] :
                    /\ queue[c][i].channels = config[c].channels
                    /\ queue[c][i].sample_rate = config[c].sample_rate
  BY DEF InOrder
<1>1. Good(c) /\ Line(taken[c], queue[c], made[c], config[c])
  BY DEF AudioInv, Good
<1>2. Numbers(c) = Through(c)
  BY DEF Numbers, Through, Nrs
<1>3. Rising(Numbers(c))
  BY <1>1, <1>2 DEF Line, Counted, Through
<1>4. ASSUME way[c] = "input" /\ Streams(c) /\ host # <<>>
      PROVE  config[c] = [native_config(name) EXCEPT !.sample_format = "F32"]
  <2> DEFINE d == find_device(host, name, "input")
  <2>1. Found(host, name, "input") # <<>> /\ config[c] = AudioStreamConfig(d, "F32")
    BY <1>1, <1>4 DEF Good, Native
  <2>2. native_config(name) = AudioStreamConfig(d, to_audio_sample_format(d.input))
    BY <2>1 DEF native_config
  <2> HIDE DEF d
  <2> QED  BY <2>1, <2>2 DEF AudioStreamConfig
<1>5. \A i \in DOMAIN queue[c] :
        /\ queue[c][i].channels = config[c].channels
        /\ queue[c][i].sample_rate = config[c].sample_rate
  <2>1. DOMAIN queue[c] = 1..Len(queue[c])
    BY <1>1 DEF Line
  <2> QED  BY <1>1, <2>1 DEF Line, Sound
<1>6. ASSUME c \notin overrun  PROVE came[c] = [i \in DOMAIN taken[c] |-> sizes[c][taken[c][i]]]
  <2>1. taken[c] \in Seq(Nat) /\ came[c] \in Seq(Nat) /\ Len(came[c]) = Len(taken[c])
    BY <1>1 DEF Line, Good, Kept, Whole
  <2>2. DOMAIN came[c] = DOMAIN taken[c] /\ DOMAIN taken[c] = 1..Len(taken[c])
    BY <2>1
  <2>3. \A i \in 1..Len(taken[c]) : came[c][i] = sizes[c][taken[c][i]]
    BY <1>1, <1>6 DEF Good, Kept, Whole
  <2>4. came[c] = [i \in DOMAIN came[c] |-> came[c][i]]
    BY <2>1
  <2> QED  BY <2>2, <2>3, <2>4
<1> QED  BY <1>1, <1>2, <1>3, <1>4, <1>5, <1>6 DEF Good, Complete

\* The types of the USB audio model hold, the device gets as many samples as it asks
\* for, and an i16 device gets them in its range, for any number of streams, whatever
\* the application sends (f32_to_i16 and the output callback of CpalAudioBackend).
THEOREM TypeCorrect == Spec => []TypeOK
<1> QED  BY GoodInit, GoodStep, GoodTypes, PTL DEF Spec

\* What goes through a handle keeps its order and comes out at most once, a capture is
\* lost only after the channel was full, and a buffer that was sent is not lost while
\* its stream is kept, nor a sample of it unless the device asked for less than some
\* buffer held, and each has the announced format, for any number of streams that
\* replace each other and channels of any capacity (the callbacks and the handles).
THEOREM OrderKept == Spec => []InOrder
<1> QED  BY GoodInit, GoodStep, GoodOrder, PTL DEF Spec
=============================================================================
