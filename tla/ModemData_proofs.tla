-------------------------- MODULE ModemData_proofs --------------------------
(***************************************************************************)
(* What TLAPS proves of what carries the caller's bytes and the modem's    *)
(* results: modemd-ctrl's modes with the backend's reading of them, and    *)
(* the telnet proxy, each for all its constants.                           *)
(***************************************************************************)
EXTENDS MCModemData, SequenceTheorems, FiniteSetTheorems, WellFoundedInduction,
        TLAPS

-----------------------------------------------------------------------------
(* The control channel.  First, what is true of texts and loops.           *)

(* Induction over the naturals, in a form that mentions a set instead of a *)
(* predicate.                                                              *)
LEMMA SetInduction ==
  ASSUME NEW S, 0 \in S, \A n \in Nat : n \in S => n + 1 \in S
  PROVE  \A n \in Nat : n \in S
<1> SUFFICES ASSUME NEW n \in Nat, n \notin S PROVE FALSE
  OBVIOUS
<1> DEFINE T == {k \in Nat : k \notin S}
           R == {ss \in Nat \X Nat : ss[1] < ss[2]}
<1>1. IsWellFoundedOn(R, Nat)
  BY NatLessThanWellFounded DEF OpToRel
<1>2. T \subseteq Nat /\ T # {}
  OBVIOUS
<1> HIDE DEF R
<1>3. PICK x \in T : \A y \in T : <<y, x>> \notin R
  BY <1>1, <1>2, WFMin
<1>4. x \in Nat /\ x - 1 \in Nat /\ x - 1 < x
  OBVIOUS
<1>5. <<x - 1, x>> \in R
  BY <1>4 DEF R
<1>6. x - 1 \in S
  BY <1>3, <1>4, <1>5
<1> QED
  BY <1>3, <1>4, <1>6

(* A set of naturals that is not empty has a least element.                *)
LEMMA Least ==
  ASSUME NEW S, S \subseteq Nat, S # {}
  PROVE  \E x \in S : \A y \in S : x <= y
<1> DEFINE R == {ss \in Nat \X Nat : ss[1] < ss[2]}
<1>1. IsWellFoundedOn(R, Nat)
  BY NatLessThanWellFounded DEF OpToRel
<1> HIDE DEF R
<1>2. PICK x \in S : \A y \in S : <<y, x>> \notin R
  BY <1>1, WFMin
<1>3. ASSUME NEW y \in S PROVE x <= y
  <2>1. x \in Nat /\ y \in Nat /\ <<y, x>> \notin R
    BY <1>2
  <2> QED
    BY <2>1 DEF R
<1> QED
  BY <1>3

(* A function may be defined by recursion where every step goes to an      *)
(* argument of lower rank.                                                 *)
Recursive(D, T, rank, Rec, next, stop, step) ==
  /\ rank \in [D -> Nat] /\ Rec \subseteq D /\ next \in [Rec -> D]
  /\ \A d \in Rec : rank[next[d]] < rank[d]
  /\ stop \in [D -> T] /\ step \in [D -> [T -> T]]

Solves(f, D, T, Rec, next, stop, step) ==
  /\ f \in [D -> T]
  /\ \A d \in D : f[d] = IF d \in Rec THEN step[d][f[next[d]]] ELSE stop[d]

LEMMA Recursion ==
  ASSUME NEW D, NEW T, NEW rank, NEW Rec, NEW next, NEW stop, NEW step,
         Recursive(D, T, rank, Rec, next, stop, step)
  PROVE  \E f : Solves(f, D, T, Rec, next, stop, step)
<1> USE DEF Recursive
<1> DEFINE Low(n) == {d \in D : rank[d] <= n}
           At(g, d) == IF d \in Rec THEN step[d][g[next[d]]] ELSE stop[d]
           Good(g, n) == g \in [Low(n) -> T] /\ \A d \in Low(n) : g[d] = At(g, d)
           Agree(d) == \A k, m \in Nat : \A g, h :
                         (/\ Good(g, k) /\ rank[d] <= k
                          /\ Good(h, m) /\ rank[d] <= m) => g[d] = h[d]
           Unique == {n \in Nat : \A d \in D : rank[d] <= n => Agree(d)}
           Exist == {n \in Nat : \E g : Good(g, n)}
<1>1. ASSUME NEW d \in D, \A e \in D : rank[e] < rank[d] => Agree(e)
      PROVE  Agree(d)
  <2> HIDE DEF Good
  <2> SUFFICES ASSUME NEW k \in Nat, NEW m \in Nat, NEW g, NEW h,
                      Good(g, k), rank[d] <= k, Good(h, m), rank[d] <= m
               PROVE  g[d] = h[d]
    OBVIOUS
  <2> USE DEF Good
  <2>1. g[d] = At(g, d) /\ h[d] = At(h, d)
    OBVIOUS
  <2>2. CASE d \in Rec
    <3>1. /\ next[d] \in D /\ rank[next[d]] < rank[d]
          /\ rank[next[d]] <= k /\ rank[next[d]] <= m
      BY <2>2
    <3> HIDE DEF Good
    <3>2. g[next[d]] = h[next[d]]
      BY <1>1, <3>1
    <3> QED
      BY <2>1, <3>2
  <2> QED
    BY <2>1, <2>2
<1>2. \A d \in D : Agree(d)
  <2> HIDE DEF Agree
  <2>1. 0 \in Unique
    BY <1>1
  <2>2. ASSUME NEW n \in Nat, n \in Unique PROVE n + 1 \in Unique
    <3>1. ASSUME NEW d \in D, rank[d] <= n + 1 PROVE Agree(d)
      <4>1. \A e \in D : rank[e] < rank[d] => rank[e] <= n
        BY <3>1
      <4> QED
        BY <1>1, <2>2, <4>1
    <3> QED
      BY <3>1
  <2> HIDE DEF Unique
  <2>3. \A n \in Nat : n \in Unique
    BY <2>1, <2>2, SetInduction
  <2> QED
    BY <2>3 DEF Unique
<1>3. \A n \in Nat : n \in Exist
  <2>1. 0 \in Exist
    <3> DEFINE g == [d \in Low(0) |-> stop[d]]
    <3>1. \A d \in Low(0) : d \notin Rec
      OBVIOUS
    <3>2. Good(g, 0)
      BY <3>1
    <3> HIDE DEF g, Good
    <3> QED
      BY <3>2
  <2>2. ASSUME NEW n \in Nat, n \in Exist PROVE n + 1 \in Exist
    <3>1. PICK g : Good(g, n)
      BY <2>2
    <3> DEFINE h == [d \in Low(n + 1) |-> At(g, d)]
    <3>2. \A d \in Low(n + 1) : d \in Rec => next[d] \in Low(n)
      OBVIOUS
    <3>3. \A d \in Low(n + 1) : At(g, d) \in T
      BY <3>1, <3>2
    <3>4. \A d \in Low(n) : d \in Low(n + 1) /\ h[d] = g[d]
      BY <3>1
    <3>5. \A d \in Low(n + 1) : At(h, d) = At(g, d)
      BY <3>2, <3>4
    <3>6. Good(h, n + 1)
      BY <3>3, <3>5
    <3> HIDE DEF h, Good
    <3> QED
      BY <3>6
  <2> HIDE DEF Exist
  <2> QED
    BY <2>1, <2>2, SetInduction
<1>4. PICK p : \A n \in Nat : Good(p[n], n)
  <2> DEFINE p == [n \in Nat |-> CHOOSE g : Good(g, n)]
  <2> HIDE DEF Good
  <2>1. \A n \in Nat : Good(CHOOSE g : Good(g, n), n)
    BY <1>3
  <2>2. \A n \in Nat : Good(p[n], n)
    BY <2>1
  <2> HIDE DEF p
  <2> QED
    BY <2>2
<1> DEFINE f == [d \in D |-> p[rank[d]][d]]
<1>5. \A d \in D : d \in Low(rank[d])
  OBVIOUS
<1>6. f \in [D -> T]
  <2>1. \A d \in D : p[rank[d]] \in [Low(rank[d]) -> T]
    BY <1>4
  <2>2. \A d \in D : p[rank[d]][d] \in T
    BY <1>5, <2>1
  <2> QED
    BY <2>2
<1>7. ASSUME NEW d \in D PROVE f[d] = At(f, d)
  <2>1. f[d] = At(p[rank[d]], d)
    BY <1>4, <1>5
  <2>2. CASE d \in Rec
    <3>1. /\ next[d] \in D /\ rank[next[d]] \in Nat /\ rank[d] \in Nat
          /\ rank[next[d]] <= rank[d] /\ rank[next[d]] <= rank[next[d]]
      BY <2>2
    <3>2. f[next[d]] = p[rank[next[d]]][next[d]]
      BY <3>1
    <3> HIDE DEF Good
    <3>3. p[rank[d]][next[d]] = p[rank[next[d]]][next[d]]
      BY <1>2, <1>4, <3>1
    <3> HIDE DEF f
    <3> QED
      BY <2>1, <2>2, <3>2, <3>3
  <2> HIDE DEF f
  <2> QED
    BY <2>1, <2>2
<1> HIDE DEF f
<1> QED
  BY <1>6, <1>7 DEF Solves

(* First() gives the least place.                                          *)
LEMMA FirstIsLeast ==
  ASSUME NEW S, S \subseteq Nat \ {0}
  PROVE  /\ First(S) \in Nat
         /\ First(S) = 0 <=> S = {}
         /\ S # {} => First(S) \in S /\ \A j \in S : First(S) <= j
<1>1. CASE S = {}
  BY <1>1 DEF First
<1>2. CASE S # {}
  <2>1. \E i \in S : \A j \in S : i <= j
    BY <1>2, Least
  <2>2. First(S) \in S /\ \A j \in S : First(S) <= j
    BY <1>2, <2>1 DEF First
  <2> QED
    BY <1>2, <2>2
<1> QED
  BY <1>1, <1>2

(* What is left of a sequence from a place on, and up to one.              *)
LEMMA FromPlace ==
  ASSUME NEW S, NEW s \in Seq(S), NEW i \in 1 .. Len(s) + 1
  PROVE  /\ From(s, i) \in Seq(S) /\ Len(From(s, i)) = Len(s) - i + 1
         /\ \A j \in 1 .. Len(s) - i + 1 : From(s, i)[j] = s[i + j - 1]
<1>1. Len(s) \in Nat /\ \A j \in 1 .. Len(s) : s[j] \in S
  BY LenProperties, ElementOfSeq
<1>2. \A j \in i .. Len(s) : s[j] \in S
  BY <1>1
<1> QED
  BY <1>1, <1>2, SubSeqProperties DEF From

LEMMA UpToPlace ==
  ASSUME NEW S, NEW s \in Seq(S), NEW i \in 0 .. Len(s)
  PROVE  /\ UpTo(s, i) \in Seq(S) /\ Len(UpTo(s, i)) = i
         /\ \A j \in 1 .. i : UpTo(s, i)[j] = s[j]
<1>1. Len(s) \in Nat /\ \A j \in 1 .. Len(s) : s[j] \in S
  BY LenProperties, ElementOfSeq
<1>2. \A j \in 1 .. i : s[j] \in S
  BY <1>1
<1> QED
  BY <1>1, <1>2, SubSeqProperties DEF UpTo

(* A line leaves the host a host.                                          *)
LEMMA HandledHost ==
  ASSUME NEW h \in Host, NEW line
  PROVE  HandleLine(h, line) \in Host
<1>1. RateOf(line) \in Nat
  BY DEF RateOf
<1>2. HandleLine(h, line) \in
        {h, SetConnected(h, RateOf(line)),
         [h EXCEPT !.connected = FALSE, !.bps = 0, !.hangups = @ + 1],
         [h EXCEPT !.hangups = @ + 1]}
  BY DEF HandleLine
<1>5. /\ h.connected \in BOOLEAN /\ h.early \in BOOLEAN /\ h.bps \in Nat
      /\ h.connects \in Nat /\ h.hangups \in Nat /\ h.data \in Seq(Bytes)
  BY DEF Host
<1>3. SetConnected(h, RateOf(line)) \in Host
  <2>1. h.connects + 1 \in Nat
    BY <1>5
  <2> QED
    BY <1>1, <1>5, <2>1 DEF Host, SetConnected
<1>4. /\ [h EXCEPT !.connected = FALSE, !.bps = 0, !.hangups = @ + 1] \in Host
      /\ [h EXCEPT !.hangups = @ + 1] \in Host
  <2>1. h.hangups + 1 \in Nat
    BY <1>5
  <2> QED
    BY <1>5, <2>1 DEF Host
<1> QED
  BY <1>2, <1>3, <1>4

(* The loop of _onPtyText() by itself.                                     *)
Heard == [host : Host, rest : Seq(Bytes)]

(* Where a line ends and the next begins, and that the loop makes the text *)
(* shorter.                                                                *)
LEMMA EndOfLine ==
  ASSUME NEW s \in Seq(Bytes)
  PROVE  /\ Len(s) \in Nat
         /\ LineEnd(s) \in 0 .. Len(s)
         /\ LineEnd(s) = 0 <=> \A i \in 1 .. Len(s) : s[i] \notin {"CR", "LF"}
         /\ LineEnd(s) # 0 =>
              /\ LineEnd(s) \in 1 .. Len(s) /\ s[LineEnd(s)] \in {"CR", "LF"}
              /\ \A i \in 1 .. LineEnd(s) - 1 : s[i] \notin {"CR", "LF"}
              /\ AfterEnd(s) \in 2 .. Len(s) + 1
              /\ AfterEnd(s) \in {LineEnd(s) + 1, LineEnd(s) + 2}
              /\ AfterEnd(s) = LineEnd(s) + 2 <=>
                   s[LineEnd(s)] = "CR" /\ LineEnd(s) < Len(s)
                     /\ s[LineEnd(s) + 1] = "LF"
<1> DEFINE S == {i \in DOMAIN s : s[i] \in {"CR", "LF"}}
<1>1. Len(s) \in Nat /\ DOMAIN s = 1 .. Len(s)
  BY LenProperties
<1>7. S \subseteq Nat \ {0}
  BY <1>1
<1>2. /\ First(S) \in Nat /\ (First(S) = 0 <=> S = {})
      /\ S # {} => First(S) \in S /\ \A j \in S : First(S) <= j
  <2> HIDE DEF S
  <2> QED
    BY <1>7, FirstIsLeast
<1>3. LineEnd(s) = First(S)
  BY DEF LineEnd
<1>4. LineEnd(s) # 0 =>
        /\ LineEnd(s) \in 1 .. Len(s) /\ s[LineEnd(s)] \in {"CR", "LF"}
        /\ \A i \in 1 .. LineEnd(s) - 1 : s[i] \notin {"CR", "LF"}
  <2> SUFFICES ASSUME LineEnd(s) # 0
               PROVE  /\ LineEnd(s) \in 1 .. Len(s) /\ s[LineEnd(s)] \in {"CR", "LF"}
                      /\ \A i \in 1 .. LineEnd(s) - 1 : s[i] \notin {"CR", "LF"}
    OBVIOUS
  <2>1. LineEnd(s) \in S /\ \A j \in S : LineEnd(s) <= j
    BY <1>2, <1>3
  <2>2. LineEnd(s) \in 1 .. Len(s) /\ s[LineEnd(s)] \in {"CR", "LF"}
    BY <1>1, <2>1
  <2>3. \A i \in 1 .. LineEnd(s) - 1 : i \in 1 .. Len(s) /\ i \notin S
    BY <1>1, <2>1, <2>2
  <2> QED
    BY <1>1, <2>2, <2>3
<1>5. LineEnd(s) = 0 <=> \A i \in 1 .. Len(s) : s[i] \notin {"CR", "LF"}
  BY <1>1, <1>2, <1>3
<1>6. LineEnd(s) \in 0 .. Len(s)
  BY <1>1, <1>2, <1>3
<1> HIDE DEF S
<1> QED
  BY <1>1, <1>4, <1>5, <1>6 DEF AfterEnd

(* So the loop ends, and Hear is defined on every text and host.           *)
LEMMA HearEquation ==
  \A s \in Seq(Bytes), h \in Host :
    Hear[s][h] = IF LineEnd(s) = 0 THEN [host |-> h, rest |-> s]
                 ELSE Hear[From(s, AfterEnd(s))][HearLine(h, s)]
<1> DEFINE D == Seq(Bytes)
           T == [Host -> Heard]
           rank == [d \in D |-> Len(d)]
           Rec == {d \in D : LineEnd(d) # 0}
           next == [d \in Rec |-> From(d, AfterEnd(d))]
           stop == [d \in D |-> [h \in Host |-> [host |-> h, rest |-> d]]]
           step == [d \in D |-> [f \in T |-> [h \in Host |-> f[HearLine(h, d)]]]]
           Value(g, s, h) == IF LineEnd(s) = 0 THEN [host |-> h, rest |-> s]
                             ELSE g[From(s, AfterEnd(s))][HearLine(h, s)]
           Is(g) == g = [s \in Seq(Bytes) |-> [h \in Host |-> Value(g, s, h)]]
<1>1. \A s \in D, h \in Host : HearLine(h, s) \in Host
  BY HandledHost DEF HearLine
<1>2. \A s \in Rec : /\ From(s, AfterEnd(s)) \in D
                     /\ Len(From(s, AfterEnd(s))) < Len(s)
  BY EndOfLine, FromPlace
<1>3. rank \in [D -> Nat] /\ Rec \subseteq D /\ next \in [Rec -> D]
  BY <1>2, LenProperties
<1>4. \A d \in Rec : rank[next[d]] < rank[d]
  BY <1>2, LenProperties
<1>5. stop \in [D -> T]
  BY DEF Heard
<1>6. step \in [D -> [T -> T]]
  BY <1>1
<1>7. PICK f \in [D -> T] :
        \A d \in D : f[d] = IF d \in Rec THEN step[d][f[next[d]]] ELSE stop[d]
  <2>1. Recursive(D, T, rank, Rec, next, stop, step)
    <3> HIDE DEF D, T, rank, Rec, next, stop, step
    <3> QED
      BY <1>3, <1>4, <1>5, <1>6 DEF Recursive
  <2> HIDE DEF D, T, rank, Rec, next, stop, step
  <2>2. PICK f : Solves(f, D, T, Rec, next, stop, step)
    BY <2>1, Recursion
  <2> QED
    BY <2>2 DEF Solves
<1>8. \A s \in D, h \in Host : f[s][h] = Value(f, s, h)
  <2> SUFFICES ASSUME NEW s \in D, NEW h \in Host
               PROVE  f[s][h] = Value(f, s, h)
    OBVIOUS
  <2>1. CASE LineEnd(s) = 0
    <3>1. f[s] = stop[s]
      BY <1>7, <2>1
    <3> QED
      BY <2>1, <3>1
  <2>2. CASE LineEnd(s) # 0
    <3>1. f[s] = step[s][f[From(s, AfterEnd(s))]]
      BY <1>7, <2>2
    <3>2. f[From(s, AfterEnd(s))] \in T
      BY <1>2, <1>7, <2>2
    <3> HIDE DEF T
    <3>3. step[s][f[From(s, AfterEnd(s))]]
            = [g \in Host |-> f[From(s, AfterEnd(s))][HearLine(g, s)]]
      BY <3>2
    <3> QED
      BY <2>2, <3>1, <3>3
  <2> QED
    BY <2>1, <2>2
<1>9. Is(f)
  <2>1. \A s \in D : f[s] = [h \in Host |-> Value(f, s, h)]
    <3>1. \A s \in D : f[s] \in [Host -> Heard]
      BY <1>7
    <3> HIDE DEF Value, D
    <3> QED
      BY <1>8, <3>1
  <2> DEFINE G == [s \in Seq(Bytes) |-> [h \in Host |-> Value(f, s, h)]]
  <2>2. f = [s \in Seq(Bytes) |-> f[s]]
    BY <1>7
  <2> HIDE DEF Value
  <2>3. G = [s \in Seq(Bytes) |-> f[s]]
    BY <2>1
  <2> QED
    BY <2>2, <2>3
<1>10. Is(Hear)
  <2> HIDE DEF Is
  <2>1. Hear = CHOOSE g : Is(g)
    BY DEF Hear, Is
  <2> QED
    BY <1>9, <2>1
<1> HIDE DEF Value
<1>11. \A s \in Seq(Bytes), h \in Host : Hear[s][h] = Value(Hear, s, h)
  BY <1>10
<1> QED
  BY <1>11 DEF Value

-----------------------------------------------------------------------------
(* How many calls a text may end: a failed or lost call, or a busy line.   *)
EndsAt(s) == {i \in 1 .. Len(s) : s[i] \in {"BUSY", "CARRIER"}}
Ends(s) == Cardinality(EndsAt(s))

LEMMA EndsFinite ==
  ASSUME NEW s \in Seq(Bytes)
  PROVE  /\ IsFiniteSet(EndsAt(s)) /\ Ends(s) \in Nat
         /\ EndsAt(s) # {} => Ends(s) >= 1
<1>1. Len(s) \in Nat
  BY LenProperties
<1>2. IsFiniteSet(1 .. Len(s)) /\ EndsAt(s) \in SUBSET (1 .. Len(s))
  BY <1>1, FS_Interval DEF EndsAt
<1>3. IsFiniteSet(EndsAt(s))
  BY <1>2, FS_Subset
<1>4. Ends(s) \in Nat /\ (Ends(s) = 0 <=> EndsAt(s) = {})
  BY <1>3, FS_CardinalityType, FS_EmptySet DEF Ends
<1> QED
  BY <1>3, <1>4

LEMMA EndsCount == \A s \in Seq(Bytes) : Ends(s) \in Nat
BY EndsFinite

LEMMA EndsOfTwo ==
  ASSUME NEW s \in Seq(Bytes), NEW t \in Seq(Bytes)
  PROVE  Ends(s \o t) = Ends(s) + Ends(t)
<1> DEFINE shift == [i \in EndsAt(t) |-> i + Len(s)]
           moved == {i + Len(s) : i \in EndsAt(t)}
<1>1. /\ Len(s) \in Nat /\ Len(t) \in Nat
      /\ Len(s \o t) = Len(s) + Len(t)
      /\ \A i \in 1 .. Len(s) + Len(t) :
           (s \o t)[i] = IF i <= Len(s) THEN s[i] ELSE t[i - Len(s)]
  BY ConcatProperties, LenProperties
<1>2. EndsAt(s \o t) = EndsAt(s) \cup moved
  <2>1. ASSUME NEW i \in EndsAt(s \o t) PROVE i \in EndsAt(s) \cup moved
    <3>1. i \in 1 .. Len(s) + Len(t) /\ (s \o t)[i] \in {"BUSY", "CARRIER"}
      BY <1>1 DEF EndsAt
    <3>2. CASE i <= Len(s)
      BY <1>1, <3>1, <3>2 DEF EndsAt
    <3>3. CASE ~ (i <= Len(s))
      <4>1. i - Len(s) \in EndsAt(t) /\ i = (i - Len(s)) + Len(s)
        BY <1>1, <3>1, <3>3 DEF EndsAt
      <4> QED
        BY <4>1
    <3> QED
      BY <3>2, <3>3
  <2>2. ASSUME NEW i \in EndsAt(s) PROVE i \in EndsAt(s \o t)
    BY <1>1 DEF EndsAt
  <2>3. ASSUME NEW i \in moved PROVE i \in EndsAt(s \o t)
    <3>1. PICK j \in EndsAt(t) : i = j + Len(s)
      OBVIOUS
    <3>2. /\ j \in 1 .. Len(t) /\ t[j] \in {"BUSY", "CARRIER"}
          /\ i \in 1 .. Len(s) + Len(t) /\ ~ (i <= Len(s)) /\ i - Len(s) = j
      BY <1>1, <3>1 DEF EndsAt
    <3>3. (s \o t)[i] = t[j]
      BY <1>1, <3>2
    <3> QED
      BY <1>1, <3>2, <3>3 DEF EndsAt
  <2> QED
    BY <2>1, <2>2, <2>3
<1>3. EndsAt(s) \cap moved = {}
  BY <1>1 DEF EndsAt
<1>4. ExistsBijection(EndsAt(t), moved)
  <2>1. \A i, j \in EndsAt(t) : shift[i] = shift[j] => i = j
    BY <1>1 DEF EndsAt
  <2>2. shift \in [EndsAt(t) -> moved] /\ \A m \in moved : \E i \in EndsAt(t) : shift[i] = m
    OBVIOUS
  <2> HIDE DEF shift, moved
  <2>3. shift \in Bijection(EndsAt(t), moved)
    BY <2>1, <2>2 DEF Bijection, Injection, Surjection, IsInjective
  <2> QED
    BY <2>3 DEF ExistsBijection
<1>5. IsFiniteSet(EndsAt(s)) /\ IsFiniteSet(EndsAt(t)) /\ Ends(s) \in Nat /\ Ends(t) \in Nat
  BY EndsFinite
<1> HIDE DEF shift, moved
<1>6. IsFiniteSet(moved) /\ Cardinality(moved) = Ends(t)
  BY <1>4, <1>5, FS_Bijection DEF Ends
<1>7. Cardinality(EndsAt(s) \cup moved) = Cardinality(EndsAt(s)) + Cardinality(moved)
  <2>1. Cardinality(EndsAt(s) \cap moved) = 0
    BY <1>3, FS_EmptySet, SMTT(30)
  <2>2. Cardinality(EndsAt(s) \cup moved)
          = Cardinality(EndsAt(s)) + Cardinality(moved) - Cardinality(EndsAt(s) \cap moved)
    BY <1>5, <1>6, FS_Union
  <2> QED
    BY <1>5, <1>6, <2>1, <2>2 DEF Ends
<1> QED
  BY <1>2, <1>6, <1>7 DEF Ends

(* Before a place and from it.                                             *)
LEMMA CutText ==
  ASSUME NEW S, NEW s \in Seq(S), NEW i \in 1 .. Len(s) + 1
  PROVE  /\ UpTo(s, i - 1) \in Seq(S) /\ From(s, i) \in Seq(S)
         /\ s = UpTo(s, i - 1) \o From(s, i)
<1>1. Len(s) \in Nat /\ i - 1 \in 0 .. Len(s)
  BY LenProperties
<1>2. UpTo(s, i - 1) \in Seq(S)
  BY <1>1, UpToPlace
<1>3. From(s, i) \in Seq(S)
  BY FromPlace
<1>4. /\ 1 \in 1 .. Len(s) + 1 /\ i - 1 \in 1 - 1 .. Len(s)
      /\ Len(s) \in i - 1 .. Len(s) /\ (i - 1) + 1 = i
  BY <1>1
<1>5. SubSeq(s, 1, i - 1) \o SubSeq(s, (i - 1) + 1, Len(s)) = SubSeq(s, 1, Len(s))
  BY <1>4, ConcatAdjacentSubSeq
<1>6. SubSeq(s, 1, Len(s)) = s
  BY SubSeqFull
<1> QED
  BY <1>2, <1>3, <1>4, <1>5, <1>6 DEF UpTo, From

(* No end is lost or counted twice where a text is cut.                    *)
LEMMA EndsOfCut ==
  ASSUME NEW s \in Seq(Bytes), NEW i \in 1 .. Len(s) + 1
  PROVE  Ends(s) = Ends(UpTo(s, i - 1)) + Ends(From(s, i))
BY CutText, EndsOfTwo

LEMMA EndsOfNothing == Ends(<<>>) = 0
BY FS_EmptySet DEF Ends, EndsAt

-----------------------------------------------------------------------------
(* Result lines, and what the host makes of them.                          *)
LEMMA Parsed ==
  /\ \A line :
       /\ Parse(line) = "connect" => line \in {Connect, Connect \o <<"RATE">>}
       /\ Parse(line) = "nocarrier" => line = NoCarrier
       /\ Parse(line) = "busy" => line = <<"BUSY">>
  /\ Parse(Connect) = "connect" /\ Parse(Connect \o <<"RATE">>) = "connect"
  /\ Parse(NoCarrier) = "nocarrier"
BY DEF Parse, Connect, NoCarrier

LEMMA HandledLine ==
  ASSUME NEW h \in Host, NEW line \in Seq(Bytes)
  PROVE  LET g == HandleLine(h, line) IN
         /\ g \in Host /\ g.data = h.data /\ g.early = h.early
         /\ g.hangups = h.hangups \/ (g.hangups = h.hangups + 1 /\ EndsAt(line) # {})
         /\ (~h.connected /\ \A i \in 1 .. Len(line) : line[i] # "NECT") =>
              /\ ~g.connected /\ g.connects = h.connects /\ g.bps = h.bps
<1> DEFINE g == HandleLine(h, line)
<1>1. g \in Host
  BY HandledHost
<1>2. /\ h.connected \in BOOLEAN /\ h.early \in BOOLEAN /\ h.bps \in Nat
      /\ h.connects \in Nat /\ h.hangups \in Nat /\ h.data \in Seq(Bytes)
      /\ h = [connected |-> h.connected, bps |-> h.bps, connects |-> h.connects,
              hangups |-> h.hangups, data |-> h.data, early |-> h.early]
  BY DEF Host
<1>3. CASE Parse(line) = "connect"
  <2>1. line = Connect \/ line = Connect \o <<"RATE">>
    BY <1>3, Parsed
  <2>2. 2 \in 1 .. Len(line) /\ line[2] = "NECT"
    BY <2>1 DEF Connect
  <2>3. g = IF h.connected THEN h ELSE SetConnected(h, RateOf(line))
    BY <1>3 DEF HandleLine
  <2> QED
    BY <1>1, <1>2, <2>2, <2>3 DEF SetConnected
<1>4. CASE Parse(line) \in {"nocarrier", "busy"}
  <2>1. line = NoCarrier \/ line = <<"BUSY">>
    BY <1>4, Parsed
  <2>2. EndsAt(line) # {}
    <3>1. CASE line = NoCarrier
      <4>1. 2 \in EndsAt(line)
        BY <3>1 DEF NoCarrier, EndsAt
      <4> QED
        BY <4>1
    <3>2. CASE line = <<"BUSY">>
      <4>1. 1 \in EndsAt(line)
        BY <3>2 DEF EndsAt
      <4> QED
        BY <4>1
    <3> QED
      BY <2>1, <3>1, <3>2
  <2>3. g = IF h.connected
            THEN [h EXCEPT !.connected = FALSE, !.bps = 0, !.hangups = @ + 1]
            ELSE [h EXCEPT !.hangups = @ + 1]
    BY <1>4 DEF HandleLine
  <2> QED
    BY <1>1, <1>2, <2>2, <2>3
<1>5. CASE Parse(line) \notin {"connect", "nocarrier", "busy"}
  <2>1. g = h
    BY <1>5 DEF HandleLine
  <2> QED
    BY <1>2, <2>1
<1> QED
  BY <1>3, <1>4, <1>5

(* What the first line's end leaves.                                       *)
LEMMA FirstLine ==
  ASSUME NEW s \in Seq(Bytes), LineEnd(s) # 0
  PROVE  /\ From(s, AfterEnd(s)) \in Seq(Bytes)
         /\ Len(From(s, AfterEnd(s))) < Len(s)
         /\ Len(From(s, AfterEnd(s))) = Len(s) - AfterEnd(s) + 1
         /\ \A j \in 1 .. Len(From(s, AfterEnd(s))) :
              /\ j + AfterEnd(s) - 1 \in 1 .. Len(s)
              /\ From(s, AfterEnd(s))[j] = s[j + AfterEnd(s) - 1]
         /\ UpTo(s, LineEnd(s) - 1) \in Seq(Bytes)
         /\ Len(UpTo(s, LineEnd(s) - 1)) = LineEnd(s) - 1
         /\ \A j \in 1 .. LineEnd(s) - 1 : UpTo(s, LineEnd(s) - 1)[j] = s[j]
         /\ Ends(s) \in Nat /\ Ends(From(s, AfterEnd(s))) \in Nat
         /\ Ends(s) >= Ends(From(s, AfterEnd(s)))
         /\ EndsAt(UpTo(s, LineEnd(s) - 1)) # {} =>
              Ends(s) >= Ends(From(s, AfterEnd(s))) + 1
<1> DEFINE a == AfterEnd(s)
           e == LineEnd(s)
<1>1. /\ Len(s) \in Nat /\ e \in 1 .. Len(s) /\ a \in 2 .. Len(s) + 1 /\ e < a
      /\ a \in 1 .. Len(s) + 1 /\ e - 1 \in 0 .. Len(s) /\ a - 1 \in 0 .. Len(s)
  <2>1. /\ Len(s) \in Nat /\ e \in 1 .. Len(s) /\ a \in 2 .. Len(s) + 1
        /\ a \in {e + 1, e + 2}
    BY EndOfLine
  <2> HIDE DEF a, e
  <2> QED
    BY <2>1
<1> HIDE DEF a, e
<1>2. /\ From(s, a) \in Seq(Bytes) /\ Len(From(s, a)) = Len(s) - a + 1
      /\ \A j \in 1 .. Len(s) - a + 1 : From(s, a)[j] = s[a + j - 1]
  BY <1>1, FromPlace
<1>3. /\ UpTo(s, e - 1) \in Seq(Bytes) /\ Len(UpTo(s, e - 1)) = e - 1
      /\ \A j \in 1 .. e - 1 : UpTo(s, e - 1)[j] = s[j]
  BY <1>1, UpToPlace
<1>4. /\ UpTo(s, a - 1) \in Seq(Bytes) /\ Len(UpTo(s, a - 1)) = a - 1
      /\ \A j \in 1 .. a - 1 : UpTo(s, a - 1)[j] = s[j]
  BY <1>1, UpToPlace
<1>5. Ends(s) = Ends(UpTo(s, a - 1)) + Ends(From(s, a))
  BY <1>1, EndsOfCut
<1>6. /\ Ends(UpTo(s, a - 1)) \in Nat /\ Ends(From(s, a)) \in Nat /\ Ends(s) \in Nat
      /\ EndsAt(UpTo(s, a - 1)) # {} => Ends(UpTo(s, a - 1)) >= 1
  BY <1>2, <1>4, EndsFinite
<1>7. \A i \in EndsAt(UpTo(s, e - 1)) : i \in EndsAt(UpTo(s, a - 1))
  BY <1>1, <1>3, <1>4 DEF EndsAt
<1>8. \A j \in 1 .. Len(s) - a + 1 : j + a - 1 \in 1 .. Len(s) /\ a + j - 1 = j + a - 1
  BY <1>1
<1>9. Len(s) - a + 1 < Len(s)
  BY <1>1
<1>10. /\ Ends(s) >= Ends(From(s, a))
       /\ EndsAt(UpTo(s, e - 1)) # {} => Ends(s) >= Ends(From(s, a)) + 1
  BY <1>5, <1>6, <1>7
<1> QED
  BY <1>2, <1>3, <1>6, <1>8, <1>9, <1>10 DEF a, e

(* What every step of the loop keeps holds when it is done.                *)
LEMMA HearInduction ==
  ASSUME NEW Q,
         \A s \in Seq(Bytes), h \in Host : LineEnd(s) = 0 => <<s, h>> \in Q,
         \A s \in Seq(Bytes), h \in Host :
           LineEnd(s) # 0 /\ <<From(s, AfterEnd(s)), HearLine(h, s)>> \in Q
             => <<s, h>> \in Q
  PROVE  \A s \in Seq(Bytes), h \in Host : <<s, h>> \in Q
<1> DEFINE S == {n \in Nat : \A s \in Seq(Bytes), h \in Host :
                                Len(s) <= n => <<s, h>> \in Q}
<1>1. ASSUME NEW s \in Seq(Bytes), NEW h \in Host,
             \A t \in Seq(Bytes), g \in Host : Len(t) < Len(s) => <<t, g>> \in Q
      PROVE  <<s, h>> \in Q
  <2>1. CASE LineEnd(s) = 0
    BY <2>1
  <2>2. CASE LineEnd(s) # 0
    <3>1. From(s, AfterEnd(s)) \in Seq(Bytes) /\ Len(From(s, AfterEnd(s))) < Len(s)
      BY <2>2, FirstLine
    <3>2. UpTo(s, LineEnd(s) - 1) \in Seq(Bytes)
      BY <2>2, FirstLine
    <3>3. HearLine(h, s) \in Host
      BY <3>2, HandledHost DEF HearLine
    <3> QED
      BY <1>1, <2>2, <3>1, <3>3
  <2> QED
    BY <2>1, <2>2
<1>2. 0 \in S
  BY <1>1, LenProperties
<1>3. ASSUME NEW n \in Nat, n \in S PROVE n + 1 \in S
  <2>1. ASSUME NEW s \in Seq(Bytes), NEW h \in Host, Len(s) <= n + 1
        PROVE  <<s, h>> \in Q
    <3>1. \A t \in Seq(Bytes) : Len(t) < Len(s) => Len(t) <= n
      BY <2>1, LenProperties
    <3> QED
      BY <1>1, <1>3, <3>1
  <2> QED
    BY <2>1
<1> HIDE DEF S
<1>4. \A n \in Nat : n \in S
  BY <1>2, <1>3, SetInduction
<1> QED
  <2> SUFFICES ASSUME NEW s \in Seq(Bytes), NEW h \in Host PROVE <<s, h>> \in Q
    OBVIOUS
  <2>1. Len(s) \in Nat /\ Len(s) \in S
    BY <1>4, LenProperties
  <2> QED
    BY <2>1 DEF S

(* What any text does to the host.                                         *)
Heeds(s, h, r) ==
  /\ r.host \in Host /\ r.rest \in Seq(Bytes)
  /\ r.host.data = h.data /\ r.host.early = h.early
  /\ r.host.hangups + Ends(r.rest) <= h.hangups + Ends(s)
  /\ \A j \in 1 .. Len(r.rest) : \E i \in 1 .. Len(s) : r.rest[j] = s[i]
  /\ (s # <<>> /\ s[Len(s)] \in {"CR", "LF"}) => r.rest = <<>>
  /\ (~h.connected /\ \A i \in 1 .. Len(s) : s[i] # "NECT") =>
       /\ ~r.host.connected
       /\ r.host.connects = h.connects /\ r.host.bps = h.bps

LEMMA HeardText ==
  ASSUME NEW s \in Seq(Bytes), NEW h \in Host
  PROVE  Heeds(s, h, Hear[s][h])
<1> DEFINE Q == {q \in Seq(Bytes) \X Host : Heeds(q[1], q[2], Hear[q[1]][q[2]])}
<1>1. ASSUME NEW t \in Seq(Bytes), NEW g \in Host, LineEnd(t) = 0
      PROVE  Heeds(t, g, Hear[t][g])
  <2>1. Hear[t][g] = [host |-> g, rest |-> t]
    BY <1>1, HearEquation
  <2>2. /\ Len(t) \in Nat /\ Ends(t) \in Nat /\ g.hangups \in Nat
        /\ t # <<>> => Len(t) \in 1 .. Len(t)
    BY LenProperties, EndsFinite, EmptySeq DEF Host
  <2>3. \A i \in 1 .. Len(t) : t[i] \notin {"CR", "LF"}
    BY <1>1, EndOfLine
  <2> QED
    BY <2>1, <2>2, <2>3 DEF Heeds
<1>2. ASSUME NEW t \in Seq(Bytes), NEW g \in Host, LineEnd(t) # 0,
             Heeds(From(t, AfterEnd(t)), HearLine(g, t),
                   Hear[From(t, AfterEnd(t))][HearLine(g, t)])
      PROVE  Heeds(t, g, Hear[t][g])
  <2> DEFINE u == From(t, AfterEnd(t))
             f == HearLine(g, t)
             r == Hear[u][f]
             line == UpTo(t, LineEnd(t) - 1)
  <2>1. Hear[t][g] = r
    BY <1>2, HearEquation
  <2>2. /\ u \in Seq(Bytes) /\ Len(u) = Len(t) - AfterEnd(t) + 1
        /\ \A j \in 1 .. Len(u) : /\ j + AfterEnd(t) - 1 \in 1 .. Len(t)
                                  /\ u[j] = t[j + AfterEnd(t) - 1]
        /\ Ends(t) \in Nat /\ Ends(u) \in Nat /\ Ends(t) >= Ends(u)
        /\ EndsAt(line) # {} => Ends(t) >= Ends(u) + 1
    BY <1>2, FirstLine
  <2>3. /\ line \in Seq(Bytes) /\ Len(line) = LineEnd(t) - 1
        /\ \A j \in 1 .. LineEnd(t) - 1 : line[j] = t[j]
    BY <1>2, FirstLine
  <2>4. /\ Len(t) \in Nat /\ LineEnd(t) \in 1 .. Len(t) /\ AfterEnd(t) \in 2 .. Len(t) + 1
        /\ t # <<>>
    BY <1>2, EndOfLine, EmptySeq
  <2>5. /\ f \in Host /\ f.data = g.data /\ f.early = g.early
        /\ f.hangups = g.hangups \/ (f.hangups = g.hangups + 1 /\ EndsAt(line) # {})
        /\ (~g.connected /\ \A i \in 1 .. Len(line) : line[i] # "NECT") =>
             /\ ~f.connected /\ f.connects = g.connects /\ f.bps = g.bps
    BY <2>3, HandledLine DEF HearLine
  <2> HIDE DEF u, f, line
  <2>6. Heeds(u, f, r)
    BY <1>2 DEF u, f
  <2> HIDE DEF r
  <2>7. /\ r.host \in Host /\ r.rest \in Seq(Bytes)
        /\ r.host.data = g.data /\ r.host.early = g.early
    BY <2>5, <2>6 DEF Heeds
  <2>8. r.host.hangups + Ends(r.rest) <= g.hangups + Ends(t)
    <3>1. r.host.hangups \in Nat /\ Ends(r.rest) \in Nat /\ g.hangups \in Nat
      BY <2>7, EndsFinite DEF Host
    <3>2. r.host.hangups + Ends(r.rest) <= f.hangups + Ends(u)
      BY <2>6 DEF Heeds
    <3>3. f.hangups + Ends(u) <= g.hangups + Ends(t)
      <4>1. CASE f.hangups = g.hangups
        BY <2>2, <3>1, <4>1
      <4>2. CASE f.hangups = g.hangups + 1 /\ EndsAt(line) # {}
        BY <2>2, <3>1, <4>2
      <4> QED
        BY <2>5, <4>1, <4>2
    <3>4. f.hangups \in Nat
      BY <2>5 DEF Host
    <3> HIDE DEF Heeds
    <3> QED
      BY <2>2, <3>1, <3>2, <3>3, <3>4, SMTT(30)
  <2>9. \A j \in 1 .. Len(r.rest) : \E i \in 1 .. Len(t) : r.rest[j] = t[i]
    BY <2>2, <2>6 DEF Heeds
  <2>10. (t # <<>> /\ t[Len(t)] \in {"CR", "LF"}) => r.rest = <<>>
    <3> SUFFICES ASSUME t[Len(t)] \in {"CR", "LF"} PROVE r.rest = <<>>
      OBVIOUS
    <3>1. CASE Len(u) = 0
      <4>1. Len(r.rest) = 0
        BY <2>6, <3>1, LenProperties, <2>7 DEF Heeds
      <4> QED
        BY <2>7, <4>1, EmptySeq
    <3>2. CASE Len(u) # 0
      <4>1. Len(u) \in 1 .. Len(u) /\ Len(u) + AfterEnd(t) - 1 = Len(t) /\ u # <<>>
        BY <2>2, <2>4, <3>2, EmptySeq, SMTT(30)
      <4>2. u[Len(u)] = t[Len(t)]
        BY <2>2, <4>1
      <4> QED
        BY <2>6, <4>1, <4>2 DEF Heeds
    <3> QED
      BY <3>1, <3>2
  <2>11. (~g.connected /\ \A i \in 1 .. Len(t) : t[i] # "NECT") =>
           /\ ~r.host.connected
           /\ r.host.connects = g.connects /\ r.host.bps = g.bps
    <3> SUFFICES ASSUME ~g.connected, \A i \in 1 .. Len(t) : t[i] # "NECT"
                 PROVE  /\ ~r.host.connected
                        /\ r.host.connects = g.connects /\ r.host.bps = g.bps
      OBVIOUS
    <3>1. \A i \in 1 .. Len(line) : line[i] # "NECT"
      BY <2>3, <2>4
    <3>2. \A i \in 1 .. Len(u) : u[i] # "NECT"
      BY <2>2
    <3> QED
      BY <2>5, <2>6, <3>1, <3>2 DEF Heeds
  <2> QED
    BY <2>1, <2>7, <2>8, <2>9, <2>10, <2>11 DEF Heeds
<1>3. \A t \in Seq(Bytes), g \in Host : LineEnd(t) = 0 => <<t, g>> \in Q
  BY <1>1
<1>4. \A t \in Seq(Bytes), g \in Host :
        LineEnd(t) # 0 /\ <<From(t, AfterEnd(t)), HearLine(g, t)>> \in Q => <<t, g>> \in Q
  BY <1>2
<1>5. <<s, h>> \in Q
  <2> HIDE DEF Q
  <2> QED
    BY <1>3, <1>4, HearInduction
<1> QED
  BY <1>5

(* A text that ends with a CONNECT line: other lines before it.            *)
Plain == {"RING", "BUSY", "NO", "CARRIER", "CR", "LF"}

ConnectLine(s, c, r) ==
  /\ c \in 1 .. Len(s) /\ r \in Rates
  /\ \A i \in 1 .. c - 1 : s[i] \in Plain
  /\ c > 1 => s[c - 1] = "LF"
  /\ s[c] = "CON" /\ s[c + 1] = "NECT"
  /\ IF r = 0 THEN /\ Len(s) = c + 3
                   /\ s[c + 2] = "CR" /\ s[c + 3] = "LF"
              ELSE /\ Len(s) = c + 4
                   /\ s[c + 2] = "RATE" /\ s[c + 3] = "CR" /\ s[c + 4] = "LF"

(* A text without a line end is kept.                                      *)
LEMMA HeardNothing ==
  ASSUME NEW h \in Host
  PROVE  Hear[<<>>][h] = [host |-> h, rest |-> <<>>]
<1>1. <<>> \in Seq(Bytes) /\ Len(<<>>) = 0
  BY EmptySeq
<1>2. LineEnd(<<>>) = 0
  <2>1. LineEnd(<<>>) \in 0 .. Len(<<>>)
    BY <1>1, EndOfLine
  <2> QED
    BY <1>1, <2>1
<1> QED
  BY <1>1, <1>2, HearEquation

(* The end of the first line, when it is known.                            *)
LEMMA FirstLineIs ==
  ASSUME NEW s \in Seq(Bytes), NEW e \in 1 .. Len(s),
         s[e] \in {"CR", "LF"}, \A i \in 1 .. e - 1 : s[i] \notin {"CR", "LF"}
  PROVE  LineEnd(s) = e
<1>1. Len(s) \in Nat /\ LineEnd(s) # 0
  BY EndOfLine
<1>2. /\ LineEnd(s) \in 1 .. Len(s) /\ s[LineEnd(s)] \in {"CR", "LF"}
      /\ \A i \in 1 .. LineEnd(s) - 1 : s[i] \notin {"CR", "LF"}
  BY <1>1, EndOfLine
<1>3. ~ (LineEnd(s) < e) /\ ~ (e < LineEnd(s))
  BY <1>1, <1>2
<1> QED
  BY <1>1, <1>2, <1>3

(* One line with CR LF, and nothing else.                                  *)
LEMMA HeardOneLine ==
  ASSUME NEW s \in Seq(Bytes), NEW h \in Host, NEW n \in Nat \ {0}, Len(s) = n + 2,
         s[n + 1] = "CR", s[n + 2] = "LF",
         \A i \in 1 .. n : s[i] \notin {"CR", "LF"}
  PROVE  Hear[s][h].host = HandleLine(h, UpTo(s, n))
<1>1. LineEnd(s) = n + 1
  BY FirstLineIs
<1>2. AfterEnd(s) = n + 3
  BY <1>1 DEF AfterEnd
<1>3. From(s, n + 3) = <<>>
  BY SubSeqEmpty DEF From
<1>4. HearLine(h, s) = HandleLine(h, UpTo(s, n))
  BY <1>1 DEF HearLine
<1>5. UpTo(s, n) \in Seq(Bytes)
  BY UpToPlace
<1>6. HandleLine(h, UpTo(s, n)) \in Host
  BY HandledHost
<1>7. LineEnd(s) # 0
  BY <1>1
<1>8. Hear[s][h] = Hear[From(s, AfterEnd(s))][HearLine(h, s)]
  BY <1>7, HearEquation
<1>9. Hear[s][h] = Hear[<<>>][HandleLine(h, UpTo(s, n))]
  BY <1>2, <1>3, <1>4, <1>8
<1>10. PICK f \in Host : f = HandleLine(h, UpTo(s, n))
  BY <1>6
<1>11. Hear[<<>>][f] = [host |-> f, rest |-> <<>>]
  BY HeardNothing
<1> QED
  BY <1>9, <1>10, <1>11

(* What a text leaves when its first line is gone.                         *)
LEMMA LineRest ==
  ASSUME NEW t \in Seq(Bytes), NEW i, NEW n, ConnectLine(t, i, n), NEW a \in 1 .. i
  PROVE  ConnectLine(From(t, a), i - a + 1, n)
<1>1. /\ Len(t) \in Nat /\ i \in 1 .. Len(t) /\ a \in 1 .. Len(t) + 1 /\ n \in Rates
      /\ \A j \in 1 .. i - 1 : t[j] \in Plain
      /\ i > 1 => t[i - 1] = "LF"
  BY LenProperties DEF ConnectLine
<1>2. PICK u : u = From(t, a)
  OBVIOUS
<1>3. /\ u \in Seq(Bytes) /\ Len(u) = Len(t) - a + 1
      /\ \A j \in 1 .. Len(t) - a + 1 : u[j] = t[a + j - 1]
  BY <1>1, <1>2, FromPlace
<1>4. PICK c : c = i - a + 1
  OBVIOUS
<1>5. c \in 1 .. Len(u) /\ Len(t) - i = Len(u) - c /\ c \in Nat /\ i \in Nat /\ Len(u) \in Nat
  BY <1>1, <1>3, <1>4
<1>6. \A j \in 0 .. 4 : i + j <= Len(t) => u[c + j] = t[i + j]
  BY <1>1, <1>3, <1>4
<1>7. \A j \in 1 .. c - 1 : u[j] \in Plain
  <2>1. \A j \in 1 .. c - 1 : j \in 1 .. Len(t) - a + 1 /\ a + j - 1 \in 1 .. i - 1
    BY <1>1, <1>3, <1>4
  <2> QED
    BY <1>1, <1>3, <2>1
<1>8. c > 1 => u[c - 1] = "LF"
  <2>1. c > 1 => c - 1 \in 1 .. Len(t) - a + 1 /\ a + (c - 1) - 1 = i - 1 /\ i > 1
    BY <1>1, <1>3, <1>4
  <2> QED
    BY <1>1, <1>3, <2>1
<1>9. IF n = 0 THEN Len(t) = i + 3 ELSE Len(t) = i + 4
  BY DEF ConnectLine
<1>10. /\ u[c] = t[i] /\ u[c + 1] = t[i + 1] /\ u[c + 2] = t[i + 2]
       /\ u[c + 3] = t[i + 3] /\ (n # 0 => u[c + 4] = t[i + 4])
  <2>1. c + 0 = c /\ i + 0 = i /\ 0 \in 0 .. 4 /\ i + 0 <= Len(t)
    BY <1>1, <1>5, <1>9
  <2>2. u[c] = t[i]
    BY <1>6, <2>1
  <2> QED
    BY <1>1, <1>5, <1>6, <1>9, <2>2
<1>11. IF n = 0 THEN Len(u) = c + 3 ELSE Len(u) = c + 4
  BY <1>1, <1>5, <1>9
<1>12. /\ t[i] = "CON" /\ t[i + 1] = "NECT"
       /\ IF n = 0 THEN t[i + 2] = "CR" /\ t[i + 3] = "LF"
          ELSE t[i + 2] = "RATE" /\ t[i + 3] = "CR" /\ t[i + 4] = "LF"
  BY DEF ConnectLine
<1>13. ConnectLine(u, c, n)
  BY <1>1, <1>5, <1>7, <1>8, <1>10, <1>11, <1>12 DEF ConnectLine
<1> QED
  BY <1>2, <1>4, <1>13

(* The host takes the CONNECT line with its rate, whatever lines are       *)
(* before it.                                                              *)
LEMMA HeardConnect ==
  ASSUME NEW s \in Seq(Bytes), NEW h \in Host, NEW c, NEW r,
         ~h.connected, ConnectLine(s, c, r)
  PROVE  LET g == Hear[s][h].host
         IN g.connected /\ g.bps = r /\ g.connects = h.connects + 1
<1> DEFINE Good(g, f, n) == f.connected /\ f.bps = n /\ f.connects = g.connects + 1
           Q == {q \in Seq(Bytes) \X Host :
                   ~q[2].connected =>
                     \A i, n : ConnectLine(q[1], i, n)
                                 => Good(q[2], Hear[q[1]][q[2]].host, n)}
<1>1. ASSUME NEW t \in Seq(Bytes), NEW g \in Host, NEW i, NEW n, ConnectLine(t, i, n)
      PROVE  LineEnd(t) # 0
  <2>1. \E j \in 1 .. Len(t) : t[j] = "CR"
    BY <1>1, LenProperties DEF ConnectLine, Rates
  <2> QED
    BY <2>1, EndOfLine
<1>2. ASSUME NEW t \in Seq(Bytes), NEW g \in Host, NEW n, ~g.connected, ConnectLine(t, 1, n)
      PROVE  Good(g, Hear[t][g].host, n)
  <2> DEFINE k == IF n = 0 THEN 2 ELSE 3
  <2>1. /\ k \in Nat \ {0} /\ Len(t) = k + 2 /\ t[k + 1] = "CR" /\ t[k + 2] = "LF"
        /\ \A i \in 1 .. k : t[i] \notin {"CR", "LF"}
        /\ k \in 0 .. Len(t)
    BY <1>2, SMTT(30) DEF ConnectLine
  <2>2. Hear[t][g].host = HandleLine(g, UpTo(t, k))
    <3> HIDE DEF k
    <3> QED
      BY <2>1, HeardOneLine
  <2>3. /\ UpTo(t, k) \in Seq(Bytes) /\ Len(UpTo(t, k)) = k
        /\ \A j \in 1 .. k : UpTo(t, k)[j] = t[j]
    <3> HIDE DEF k
    <3> QED
      BY <2>1, UpToPlace
  <2>4. /\ n \in {0, 9600}
        /\ UpTo(t, k) = IF n = 0 THEN Connect ELSE Connect \o <<"RATE">>
    <3>1. CASE n = 0
      <4>1. UpTo(t, k) = <<"CON", "NECT">>
        BY <1>2, <2>3, <3>1 DEF ConnectLine
      <4> QED
        BY <3>1, <4>1 DEF Connect
    <3>2. CASE n # 0
      <4>1. UpTo(t, k) = <<"CON", "NECT", "RATE">>
        BY <1>2, <2>3, <3>2 DEF ConnectLine
      <4> QED
        BY <1>2, <3>2, <4>1 DEF Connect, ConnectLine, Rates
    <3> QED
      BY <3>1, <3>2
  <2>5. Parse(UpTo(t, k)) = "connect"
    BY <2>4, Parsed
  <2>6. RateOf(UpTo(t, k)) = n
    <3>1. CASE n = 0
      BY <2>4, <3>1 DEF RateOf, Connect
    <3>2. CASE n # 0
      <4>1. 3 \in DOMAIN (Connect \o <<"RATE">>) /\ (Connect \o <<"RATE">>)[3] = "RATE"
        BY DEF Connect
      <4> QED
        BY <2>4, <3>2, <4>1 DEF RateOf
    <3> QED
      BY <3>1, <3>2
  <2>7. HandleLine(g, UpTo(t, k)) = SetConnected(g, n)
    <3> HIDE DEF k
    <3> QED
      BY <1>2, <2>5, <2>6 DEF HandleLine
  <2> QED
    BY <2>2, <2>7 DEF SetConnected, Host
<1>3. ASSUME NEW t \in Seq(Bytes), NEW g \in Host, NEW i, NEW n, ~g.connected, 
             ConnectLine(t, i, n), i > 1
      PROVE  /\ LineEnd(t) # 0 /\ ~HearLine(g, t).connected
             /\ HearLine(g, t) \in Host /\ HearLine(g, t).connects = g.connects
             /\ ConnectLine(From(t, AfterEnd(t)), i - AfterEnd(t) + 1, n)
  <2> DEFINE e == LineEnd(t)
             a == AfterEnd(t)
             u == From(t, a)
             line == UpTo(t, e - 1)
  <2>1. e # 0
    BY <1>1, <1>3
  <2>2. /\ Len(t) \in Nat /\ e \in 1 .. Len(t) /\ a \in {e + 1, e + 2}
        /\ a = e + 2 => t[e] = "CR"
        /\ \A j \in 1 .. e - 1 : t[j] \notin {"CR", "LF"}
    BY <2>1, EndOfLine
  <2>3. /\ i \in 2 .. Len(t) /\ t[i - 1] = "LF"
        /\ \A j \in 1 .. i - 1 : t[j] \in Plain
    BY <1>3, <2>2 DEF ConnectLine
  <2>4. /\ u \in Seq(Bytes) /\ Len(u) = Len(t) - a + 1
        /\ \A j \in 1 .. Len(u) : u[j] = t[j + a - 1]
        /\ line \in Seq(Bytes) /\ Len(line) = e - 1
        /\ \A j \in 1 .. e - 1 : line[j] = t[j]
    BY <2>1, FirstLine
  <2> HIDE DEF e, a, u, line
  <2>5. e <= i - 1
    BY <2>2, <2>3
  <2>6. a <= i
    BY <2>2, <2>3, <2>5
  <2>7. \A j \in 1 .. Len(line) : line[j] # "NECT"
    <3>1. \A j \in 1 .. Len(line) : j \in 1 .. e - 1 /\ j \in 1 .. i - 1
      BY <2>2, <2>3, <2>4, <2>5
    <3> QED
      BY <2>3, <2>4, <3>1 DEF Plain
  <2>8. /\ HandleLine(g, line) \in Host /\ ~HandleLine(g, line).connected
        /\ HandleLine(g, line).connects = g.connects
    BY <1>3, <2>4, <2>7, HandledLine
  <2>9. /\ HearLine(g, t) \in Host /\ ~HearLine(g, t).connected
        /\ HearLine(g, t).connects = g.connects
    BY <1>3, <2>8 DEF HearLine, e, line
  <2>10. ConnectLine(u, i - a + 1, n)
    BY <1>3, <2>2, <2>3, <2>6, LineRest DEF u
  <2> QED
    BY <2>1, <2>9, <2>10 DEF u, a, e
<1>4. \A t \in Seq(Bytes), g \in Host : LineEnd(t) = 0 => <<t, g>> \in Q
  BY <1>1
<1>5. ASSUME NEW t \in Seq(Bytes), NEW g \in Host, LineEnd(t) # 0,
             <<From(t, AfterEnd(t)), HearLine(g, t)>> \in Q
      PROVE  <<t, g>> \in Q
  <2>1. ASSUME NEW i, NEW n, ~g.connected, ConnectLine(t, i, n)
        PROVE  Good(g, Hear[t][g].host, n)
    <3>1. CASE i = 1
      BY <1>2, <2>1, <3>1
    <3>2. CASE i # 1
      <4>1. i > 1
        BY <2>1, <3>2, LenProperties DEF ConnectLine
      <4>2. /\ ~HearLine(g, t).connected /\ HearLine(g, t).connects = g.connects
            /\ ConnectLine(From(t, AfterEnd(t)), i - AfterEnd(t) + 1, n)
        BY <1>3, <2>1, <4>1
      <4>3. Good(HearLine(g, t), Hear[From(t, AfterEnd(t))][HearLine(g, t)].host, n)
        BY <1>5, <4>2
      <4>4. Hear[t][g] = Hear[From(t, AfterEnd(t))][HearLine(g, t)]
        BY <1>5, HearEquation
      <4> QED
        BY <4>2, <4>3, <4>4
    <3> QED
      BY <3>1, <3>2
  <2> QED
    BY <2>1
<1>6. <<s, h>> \in Q
  <2> HIDE DEF Q
  <2> QED
    BY <1>4, <1>5, HearInduction
<1> QED
  BY <1>6

(* The end of the call, when nothing is before it.                         *)
LEMMA HeardNoCarrier ==
  ASSUME NEW h \in Host, h.connected
  PROVE  Hear[NoCarrier \o Crlf][h].host
           = [h EXCEPT !.connected = FALSE, !.bps = 0, !.hangups = @ + 1]
<1> DEFINE s == NoCarrier \o Crlf
<1>1. s = <<"NO", "CARRIER", "CR", "LF">>
  <2> DEFINE t == <<"NO", "CARRIER", "CR", "LF">>
  <2>1. NoCarrier \in Seq(Bytes) /\ Crlf \in Seq(Bytes) /\ t \in Seq(Bytes)
    BY DEF NoCarrier, Crlf, Bytes
  <2>2. Len(NoCarrier) = 2 /\ Len(Crlf) = 2 /\ Len(t) = 4
    BY DEF NoCarrier, Crlf
  <2>3. /\ s \in Seq(Bytes) /\ Len(s) = 4
        /\ \A i \in 1 .. 4 : s[i] = IF i <= 2 THEN NoCarrier[i] ELSE Crlf[i - 2]
    BY <2>1, <2>2, ConcatProperties, SMTT(30)
  <2>4. \A i \in 1 .. 4 : s[i] = t[i]
    <3>1. s[1] = "NO" /\ s[2] = "CARRIER" /\ s[3] = "CR" /\ s[4] = "LF"
      BY <2>3 DEF NoCarrier, Crlf
    <3> HIDE DEF s
    <3> QED
      BY <3>1
  <2> HIDE DEF s, t
  <2> QED
    BY <2>1, <2>2, <2>3, <2>4, SeqEqual DEF t
<1>2. s \in Seq(Bytes) /\ Len(s) = 2 + 2 /\ s[2 + 1] = "CR" /\ s[2 + 2] = "LF"
      /\ \A i \in 1 .. 2 : s[i] \notin {"CR", "LF"}
  BY <1>1 DEF Bytes
<1>3. UpTo(s, 2) = NoCarrier
  <2>1. /\ Len(UpTo(s, 2)) = 2 /\ UpTo(s, 2) \in Seq(Bytes)
        /\ \A j \in 1 .. 2 : UpTo(s, 2)[j] = s[j]
    <3>1. PICK k : k = 2
      OBVIOUS
    <3>2. k \in 0 .. Len(s) /\ s \in Seq(Bytes)
      BY <1>2, <3>1
    <3> HIDE DEF s
    <3>3. /\ Len(UpTo(s, k)) = k /\ UpTo(s, k) \in Seq(Bytes)
          /\ \A j \in 1 .. k : UpTo(s, k)[j] = s[j]
      BY <3>2, UpToPlace
    <3> QED
      BY <3>1, <3>3
  <2>2. UpTo(s, 2) = <<"NO", "CARRIER">>
    BY <1>1, <2>1
  <2> QED
    BY <2>2 DEF NoCarrier
<1> HIDE DEF s
<1>4. Hear[s][h].host = HandleLine(h, NoCarrier)
  BY <1>2, <1>3, HeardOneLine
<1>5. HandleLine(h, NoCarrier)
        = [h EXCEPT !.connected = FALSE, !.bps = 0, !.hangups = @ + 1]
  BY Parsed DEF HandleLine
<1> QED
  BY <1>4, <1>5 DEF s

-----------------------------------------------------------------------------
(* What is on the way to the host.  A view is what the host knows of the   *)
(* call: before the CONNECT line, after it, online, or after the call; how *)
(* many ends of calls it may have counted when it has handled its text,    *)
(* and the call's bytes so far.  While it is open the text before it may   *)
(* lack its line end.                                                      *)
Views == [phase : {"before", "line", "online", "after"}, open : BOOLEAN, bps : Nat,
          ends : Nat, data : Seq(Bytes)]

Sees(a, h, l) ==
  /\ ~h.early /\ h.data = a.data
  /\ h.hangups + Ends(l) <= a.ends
  /\ a.phase = "before" =>
       /\ ~h.connected /\ h.connects = 0 /\ h.bps = 0
       /\ \A i \in 1 .. Len(l) : l[i] \in Plain
       /\ ~a.open => l = <<>>
  /\ a.phase \in {"line", "online"} =>
       h.connected /\ h.connects = 1 /\ h.bps = a.bps /\ l = <<>>
  /\ a.phase = "after" => ~h.connected /\ h.connects = 1 /\ h.bps = 0 /\ l = <<>>

Frames ==
  [type : {"AT_RESPONSE", "DATA_RX"}, payload : Seq(Bytes)]
    \cup [type : {"MODEM_STATUS"}, payload : {"connect", "nocarrier"} \X Nat]

TextPasses(a, f, b) ==
  /\ a.phase = "before" /\ f.type = "AT_RESPONSE" /\ f.payload \in Seq(Bytes)
  /\ f.payload # <<>> /\ \A i \in 1 .. Len(f.payload) : f.payload[i] \in Plain
  /\ b = [a EXCEPT !.open = (f.payload[Len(f.payload)] # "LF"),
                   !.ends = @ + Ends(f.payload)]

LinePasses(a, f, b) ==
  /\ a.phase = "before" /\ f.type = "AT_RESPONSE" /\ f.payload \in Seq(Bytes)
  /\ \E c : ConnectLine(f.payload, c, b.bps) /\ (c = 1 => ~a.open)
  /\ b = [a EXCEPT !.phase = "line", !.open = FALSE, !.bps = b.bps,
                   !.ends = @ + Ends(f.payload)]

ConnectPasses(a, f, b) ==
  /\ a.phase = "line" /\ f.type = "MODEM_STATUS" /\ f.payload = <<"connect", a.bps>>
  /\ b = [a EXCEPT !.phase = "online"]

EndPasses(a, f, b) ==
  /\ a.phase \in {"before", "after"}
  /\ f.type = "MODEM_STATUS" /\ f.payload = <<"nocarrier", 0>>
  /\ b = a

DataPasses(a, f, b) ==
  /\ a.phase = "online" /\ f.type = "DATA_RX" /\ f.payload \in Seq(Bytes)
  /\ b = [a EXCEPT !.data = @ \o f.payload]

DropPasses(a, f, b) ==
  /\ a.phase = "online" /\ f.type = "AT_RESPONSE" /\ f.payload = NoCarrier \o Crlf
  /\ b = [a EXCEPT !.phase = "after", !.ends = @ + 1]

Passes(a, f, b) ==
  \/ TextPasses(a, f, b) \/ LinePasses(a, f, b) \/ DropPasses(a, f, b)
  \/ ConnectPasses(a, f, b) \/ EndPasses(a, f, b) \/ DataPasses(a, f, b)

(* The views the host goes through when it reads q.                        *)
Leads(a, q, b) ==
  \E path \in [0 .. Len(q) -> Views] :
    /\ path[0] = a /\ path[Len(q)] = b
    /\ \A i \in 1 .. Len(q) : Passes(path[i - 1], q[i], path[i])

(* Nothing to read, one frame more at the end, one less at the front.      *)
LEMMA LeadsNowhere ==
  ASSUME NEW a \in Views
  PROVE  Leads(a, <<>>, a)
<1> DEFINE path == [i \in 0 .. Len(<<>>) |-> a]
<1>1. Len(<<>>) = 0
  OBVIOUS
<1>2. /\ path \in [0 .. Len(<<>>) -> Views] /\ path[0] = a /\ path[Len(<<>>)] = a
      /\ \A i \in 1 .. Len(<<>>) : Passes(path[i - 1], <<>>[i], path[i])
  BY <1>1
<1> HIDE DEF path
<1> QED
  BY <1>2 DEF Leads

LEMMA LeadsOn ==
  ASSUME NEW a, NEW b, NEW q \in Seq(Frames), NEW f \in Frames, NEW c \in Views,
         Leads(a, q, b), Passes(b, f, c)
  PROVE  Leads(a, Append(q, f), c)
<1>1. PICK path \in [0 .. Len(q) -> Views] :
        /\ path[0] = a /\ path[Len(q)] = b
        /\ \A i \in 1 .. Len(q) : Passes(path[i - 1], q[i], path[i])
  BY DEF Leads
<1> DEFINE on == [i \in 0 .. Len(q) + 1 |-> IF i <= Len(q) THEN path[i] ELSE c]
<1>2. /\ Len(q) \in Nat /\ Len(Append(q, f)) = Len(q) + 1
      /\ \A i \in 1 .. Len(q) : Append(q, f)[i] = q[i]
      /\ Append(q, f)[Len(q) + 1] = f
  BY AppendProperties, LenProperties
<1>3. on \in [0 .. Len(Append(q, f)) -> Views] /\ on[0] = a /\ on[Len(Append(q, f))] = c
  BY <1>1, <1>2
<1>4. ASSUME NEW i \in 1 .. Len(Append(q, f))
      PROVE  Passes(on[i - 1], Append(q, f)[i], on[i])
  <2>1. CASE i = Len(q) + 1
    BY <1>1, <1>2, <2>1
  <2>2. CASE i # Len(q) + 1
    <3>1. i \in 1 .. Len(q) /\ i - 1 \in 0 .. Len(q)
      BY <1>2, <2>2
    <3> QED
      BY <1>1, <1>2, <3>1
  <2> QED
    BY <2>1, <2>2
<1> HIDE DEF on
<1> QED
  BY <1>3, <1>4 DEF Leads

LEMMA LeadsFirst ==
  ASSUME NEW a, NEW b, NEW q \in Seq(Frames), q # <<>>, Leads(a, q, b)
  PROVE  \E c \in Views : Passes(a, Head(q), c) /\ Leads(c, Tail(q), b)
<1>1. PICK path \in [0 .. Len(q) -> Views] :
        /\ path[0] = a /\ path[Len(q)] = b
        /\ \A i \in 1 .. Len(q) : Passes(path[i - 1], q[i], path[i])
  BY DEF Leads
<1>2. /\ Len(q) \in Nat \ {0} /\ Len(Tail(q)) = Len(q) - 1
      /\ Head(q) = q[1] /\ \A i \in 1 .. Len(q) - 1 : Tail(q)[i] = q[i + 1]
  BY EmptySeq, HeadTailProperties
<1> DEFINE rest == [i \in 0 .. Len(q) - 1 |-> path[i + 1]]
<1>3. \A i \in 0 .. Len(q) - 1 : i + 1 \in 1 .. Len(q) /\ i + 1 \in 0 .. Len(q)
  BY <1>2
<1>4. /\ rest \in [0 .. Len(Tail(q)) -> Views] /\ rest[0] = path[1]
      /\ rest[Len(Tail(q))] = b
  BY <1>1, <1>2, <1>3
<1>5. ASSUME NEW i \in 1 .. Len(Tail(q)) PROVE Passes(rest[i - 1], Tail(q)[i], rest[i])
  <2>1. /\ i + 1 \in 1 .. Len(q) /\ i \in 0 .. Len(q) - 1 /\ i - 1 \in 0 .. Len(q) - 1
        /\ (i + 1) - 1 = i /\ (i - 1) + 1 = i /\ i \in 1 .. Len(q) - 1
    BY <1>2
  <2>2. Passes(path[(i + 1) - 1], q[i + 1], path[i + 1])
    BY <1>1, <2>1
  <2>3. rest[i - 1] = path[i] /\ rest[i] = path[i + 1] /\ Tail(q)[i] = q[i + 1]
    BY <1>2, <2>1
  <2> QED
    BY <2>1, <2>2, <2>3
<1> HIDE DEF rest
<1>6. Leads(path[1], Tail(q), b)
  BY <1>4, <1>5 DEF Leads
<1>7. path[1] \in Views /\ Passes(a, Head(q), path[1])
  <2>1. 1 \in 1 .. Len(q) /\ 1 \in 0 .. Len(q) /\ 1 - 1 = 0
    BY <1>2
  <2> QED
    BY <1>1, <1>2, <2>1
<1> QED
  BY <1>6, <1>7

(* A view never goes back.                                                 *)
Onward(a, b) ==
  /\ a.ends <= b.ends
  /\ a.phase # "before" => b.phase # "before"
  /\ Len(a.data) <= Len(b.data)
  /\ \A i \in 1 .. Len(a.data) : a.data[i] = b.data[i]

LEMMA PassesOnward ==
  ASSUME NEW a \in Views, NEW f, NEW b \in Views, Passes(a, f, b)
  PROVE  Onward(a, b)
<1>1. a.ends \in Nat /\ a.data \in Seq(Bytes) /\ Len(a.data) \in Nat
  BY LenProperties DEF Views
<1>2. ASSUME NEW s \in Seq(Bytes) PROVE Ends(s) \in Nat
  BY EndsFinite
<1>3. ASSUME TextPasses(a, f, b) PROVE Onward(a, b)
  <2>1. b.ends = a.ends + Ends(f.payload) /\ b.phase = a.phase /\ b.data = a.data
    BY <1>3 DEF TextPasses, Views
  <2>2. Ends(f.payload) \in Nat
    BY <1>2, <1>3 DEF TextPasses
  <2> QED
    BY <1>1, <2>1, <2>2 DEF Onward
<1>4. ASSUME LinePasses(a, f, b) PROVE Onward(a, b)
  <2>1. b.ends = a.ends + Ends(f.payload) /\ a.phase = "before" /\ b.data = a.data
    BY <1>4 DEF LinePasses, Views
  <2>2. Ends(f.payload) \in Nat
    BY <1>2, <1>4 DEF LinePasses
  <2> QED
    BY <1>1, <2>1, <2>2 DEF Onward
<1>5. ASSUME ConnectPasses(a, f, b) \/ EndPasses(a, f, b) \/ DropPasses(a, f, b)
      PROVE  Onward(a, b)
  <2>1. /\ b.ends = a.ends \/ b.ends = a.ends + 1
        /\ a.phase # "before" => b.phase # "before"
        /\ b.data = a.data
    BY <1>5 DEF ConnectPasses, EndPasses, DropPasses, Views
  <2> QED
    BY <1>1, <2>1 DEF Onward
<1>6. ASSUME DataPasses(a, f, b) PROVE Onward(a, b)
  <2>1. b.ends = a.ends /\ b.phase = a.phase /\ b.data = a.data \o f.payload
    BY <1>6 DEF DataPasses, Views
  <2>2. f.payload \in Seq(Bytes)
    BY <1>6 DEF DataPasses
  <2>3. PICK s \in Seq(Bytes) : s = a.data
    BY <1>1
  <2>4. PICK t \in Seq(Bytes) : t = f.payload
    BY <2>2
  <2>5. PICK u : u = b.data
    OBVIOUS
  <2>6. u = s \o t
    BY <2>1, <2>3, <2>4, <2>5
  <2>7. /\ Len(s) \in Nat /\ Len(t) \in Nat /\ Len(u) = Len(s) + Len(t)
        /\ \A i \in 1 .. Len(s) + Len(t) : u[i] = IF i <= Len(s) THEN s[i] ELSE t[i - Len(s)]
    BY <2>6, ConcatProperties, LenProperties
  <2>8. Len(s) <= Len(u) /\ \A i \in 1 .. Len(s) : s[i] = u[i]
    BY <2>7
  <2>9. a.ends <= b.ends /\ (a.phase # "before" => b.phase # "before")
    BY <1>1, <2>1
  <2>10. Len(a.data) <= Len(b.data) /\ \A i \in 1 .. Len(a.data) : a.data[i] = b.data[i]
    BY <2>3, <2>5, <2>8
  <2> QED
    BY <2>9, <2>10 DEF Onward
<1> QED
  BY <1>3, <1>4, <1>5, <1>6 DEF Passes

LEMMA LeadsOnward ==
  ASSUME NEW a, NEW b, NEW q \in Seq(Frames), Leads(a, q, b)
  PROVE  a \in Views /\ b \in Views /\ Onward(a, b)
<1>1. PICK path \in [0 .. Len(q) -> Views] :
        /\ path[0] = a /\ path[Len(q)] = b
        /\ \A i \in 1 .. Len(q) : Passes(path[i - 1], q[i], path[i])
  BY DEF Leads
<1>2. Len(q) \in Nat
  BY LenProperties
<1>3. a \in Views /\ b \in Views
  BY <1>1, <1>2
<1> DEFINE S == {n \in Nat : n <= Len(q) => Onward(a, path[n])}
<1>4. 0 \in S
  <2>1. a.ends \in Nat /\ Len(a.data) \in Nat
    BY <1>3, LenProperties DEF Views
  <2> QED
    BY <1>1, <2>1 DEF Onward
<1>5. ASSUME NEW n \in Nat, n \in S PROVE n + 1 \in S
  <2> SUFFICES ASSUME n + 1 <= Len(q) PROVE Onward(a, path[n + 1])
    OBVIOUS
  <2>1. n + 1 \in 1 .. Len(q) /\ (n + 1) - 1 = n /\ n \in 0 .. Len(q) /\ n + 1 \in 0 .. Len(q)
    BY <1>2
  <2>2. Passes(path[n], q[n + 1], path[n + 1])
    BY <1>1, <2>1
  <2>3. PICK c \in Views : c = path[n]
    BY <2>1
  <2>4. PICK d \in Views : d = path[n + 1]
    BY <2>1
  <2>5. Onward(c, d)
    BY <2>2, <2>3, <2>4, PassesOnward
  <2>6. Onward(a, c)
    BY <1>5, <2>1, <2>3
  <2>7. /\ a.ends \in Nat /\ c.ends \in Nat /\ d.ends \in Nat
        /\ Len(a.data) \in Nat /\ Len(c.data) \in Nat /\ Len(d.data) \in Nat
    BY <1>3, LenProperties DEF Views
  <2>8. Onward(a, d)
    BY <2>5, <2>6, <2>7, SMTT(30) DEF Onward
  <2> QED
    BY <2>4, <2>8
<1>6. Len(q) \in S
  <2> HIDE DEF S
  <2>1. \A n \in Nat : n \in S
    BY <1>4, <1>5, SetInduction
  <2> QED
    BY <1>2, <2>1
<1> QED
  BY <1>1, <1>2, <1>3, <1>6

-----------------------------------------------------------------------------
(* The host reads a frame, or takes what it has for a line.                *)
LEMMA JoinedText ==
  ASSUME NEW S, NEW s \in Seq(S), NEW t \in Seq(S)
  PROVE  /\ s \o t \in Seq(S) /\ Len(s \o t) = Len(s) + Len(t)
         /\ Len(s) \in Nat /\ Len(t) \in Nat
         /\ \A i \in 1 .. Len(s) : (s \o t)[i] = s[i]
         /\ \A i \in 1 .. Len(t) : (s \o t)[Len(s) + i] = t[i]
<1>1. Len(s) \in Nat /\ Len(t) \in Nat
  BY LenProperties
<1>2. /\ s \o t \in Seq(S) /\ Len(s \o t) = Len(s) + Len(t)
      /\ \A i \in 1 .. Len(s) + Len(t) :
           (s \o t)[i] = IF i <= Len(s) THEN s[i] ELSE t[i - Len(s)]
  BY ConcatProperties
<1>3. \A i \in 1 .. Len(s) : i \in 1 .. Len(s) + Len(t) /\ i <= Len(s)
  BY <1>1
<1>4. \A i \in 1 .. Len(t) : /\ Len(s) + i \in 1 .. Len(s) + Len(t)
                             /\ ~ (Len(s) + i <= Len(s)) /\ (Len(s) + i) - Len(s) = i
  BY <1>1
<1> QED
  BY <1>1, <1>2, <1>3, <1>4

(* The same of a text by its name, which is easier on the provers.         *)
LEMMA Joined ==
  ASSUME NEW S, NEW s \in Seq(S), NEW t \in Seq(S), NEW u, u = s \o t
  PROVE  /\ u \in Seq(S) /\ Len(u) = Len(s) + Len(t)
         /\ Len(s) \in Nat /\ Len(t) \in Nat
         /\ \A i \in 1 .. Len(s) : u[i] = s[i]
         /\ \A i \in 1 .. Len(t) : u[Len(s) + i] = t[i]
BY JoinedText

LEMMA Words ==
  /\ NoCarrier \in Seq(Bytes) /\ Len(NoCarrier) = 2
  /\ NoCarrier[1] = "NO" /\ NoCarrier[2] = "CARRIER"
  /\ Crlf \in Seq(Bytes) /\ Len(Crlf) = 2 /\ Crlf[1] = "CR" /\ Crlf[2] = "LF"
<1>1. \A x, y : x \in Bytes /\ y \in Bytes => <<x, y>> \in Seq(Bytes)
  OBVIOUS
<1>2. {"NO", "CARRIER", "CR", "LF"} \subseteq Bytes
  BY DEF Bytes
<1> QED
  BY <1>1, <1>2 DEF NoCarrier, Crlf

(* Frame by frame, what the host has after reading one is what its view    *)
(* says.                                                                   *)
LEMMA TextSeen ==
  ASSUME NEW a \in Views, NEW b \in Views, NEW f, NEW h \in Host, NEW l \in Seq(Bytes),
         Sees(a, h, l), TextPasses(a, f, b)
  PROVE  LET r == Hear[l \o f.payload][h]
         IN r.host \in Host /\ r.rest \in Seq(Bytes) /\ Sees(b, r.host, r.rest)
<1>1. PICK t \in Seq(Bytes) : t = f.payload
  BY DEF TextPasses
<1>2. /\ a.phase = "before" /\ t # <<>> /\ \A i \in 1 .. Len(t) : t[i] \in Plain
      /\ b.phase = "before" /\ b.open = (t[Len(t)] # "LF")
      /\ b.ends = a.ends + Ends(t) /\ b.data = a.data
  BY <1>1 DEF TextPasses, Views
<1>3. PICK s : s = l \o t
  OBVIOUS
<1>4. /\ s \in Seq(Bytes) /\ Len(s) = Len(l) + Len(t) /\ Len(l) \in Nat /\ Len(t) \in Nat
      /\ \A i \in 1 .. Len(l) : s[i] = l[i]
      /\ \A i \in 1 .. Len(t) : s[Len(l) + i] = t[i]
  BY <1>3, JoinedText
<1>5. /\ ~h.early /\ h.data = a.data /\ h.hangups + Ends(l) <= a.ends
      /\ ~h.connected /\ h.connects = 0 /\ h.bps = 0
      /\ \A i \in 1 .. Len(l) : l[i] \in Plain
  BY <1>2 DEF Sees
<1>6. \A i \in 1 .. Len(s) : s[i] \in Plain
  <2> SUFFICES ASSUME NEW i \in 1 .. Len(s) PROVE s[i] \in Plain
    OBVIOUS
  <2>1. CASE i <= Len(l)
    BY <1>4, <1>5, <2>1
  <2>2. CASE ~ (i <= Len(l))
    <3>1. PICK j : j = i - Len(l)
      OBVIOUS
    <3>2. j \in 1 .. Len(t) /\ Len(l) + j = i
      BY <1>4, <2>2, <3>1
    <3> QED
      BY <1>2, <1>4, <3>2
  <2> QED
    BY <2>1, <2>2
<1>7. PICK r : r = Hear[s][h]
  OBVIOUS
<1>8. Heeds(s, h, r)
  BY <1>4, <1>7, HeardText
<1>9. /\ r.host \in Host /\ r.rest \in Seq(Bytes) /\ r.host.data = a.data /\ ~r.host.early
      /\ r.host.hangups + Ends(r.rest) <= h.hangups + Ends(s)
  BY <1>5, <1>8 DEF Heeds
<1>10. ~r.host.connected /\ r.host.connects = 0 /\ r.host.bps = 0
  <2>1. \A i \in 1 .. Len(s) : s[i] # "NECT"
    BY <1>6 DEF Plain
  <2> QED
    BY <1>5, <1>8, <2>1 DEF Heeds
<1>11. \A j \in 1 .. Len(r.rest) : r.rest[j] \in Plain
  BY <1>6, <1>8 DEF Heeds
<1>12. ~b.open => r.rest = <<>>
  <2> SUFFICES ASSUME t[Len(t)] = "LF" PROVE r.rest = <<>>
    BY <1>2
  <2>1. Len(t) \in 1 .. Len(t)
    BY <1>2, EmptySeq
  <2>2. s # <<>> /\ s[Len(s)] = "LF"
    BY <1>4, <2>1, EmptySeq
  <2> QED
    BY <1>8, <2>2 DEF Heeds
<1>13. r.host.hangups + Ends(r.rest) <= b.ends
  <2>1. /\ r.host.hangups \in Nat /\ Ends(r.rest) \in Nat /\ h.hangups \in Nat
        /\ Ends(l) \in Nat /\ Ends(t) \in Nat /\ a.ends \in Nat
    BY <1>9, EndsFinite DEF Host, Views
  <2>2. Ends(s) = Ends(l) + Ends(t)
    BY <1>3, EndsOfTwo
  <2> QED
    BY <1>2, <1>5, <1>9, <2>1, <2>2, SMTT(30)
<1>14. Sees(b, r.host, r.rest)
  BY <1>2, <1>9, <1>10, <1>11, <1>12, <1>13 DEF Sees
<1> QED
  BY <1>1, <1>3, <1>7, <1>9, <1>14

LEMMA LineSeen ==
  ASSUME NEW a \in Views, NEW b \in Views, NEW f, NEW h \in Host, NEW l \in Seq(Bytes),
         Sees(a, h, l), LinePasses(a, f, b)
  PROVE  LET r == Hear[l \o f.payload][h]
         IN r.host \in Host /\ r.rest \in Seq(Bytes) /\ Sees(b, r.host, r.rest)
<1>1. PICK t \in Seq(Bytes) : t = f.payload
  BY DEF LinePasses
<1>2. /\ a.phase = "before" /\ b.phase = "line"
      /\ b.ends = a.ends + Ends(t) /\ b.data = a.data
  BY <1>1 DEF LinePasses, Views
<1>3. PICK c : ConnectLine(t, c, b.bps) /\ (c = 1 => ~a.open)
  BY <1>1 DEF LinePasses
<1>4. PICK s : s = l \o t
  OBVIOUS
<1>5. /\ s \in Seq(Bytes) /\ Len(s) = Len(l) + Len(t) /\ Len(l) \in Nat /\ Len(t) \in Nat
      /\ \A i \in 1 .. Len(l) : s[i] = l[i]
      /\ \A i \in 1 .. Len(t) : s[Len(l) + i] = t[i]
  BY <1>4, JoinedText
<1>6. /\ ~h.early /\ h.data = a.data /\ h.hangups + Ends(l) <= a.ends
      /\ ~h.connected /\ h.connects = 0 /\ h.bps = 0
      /\ \A i \in 1 .. Len(l) : l[i] \in Plain
      /\ ~a.open => l = <<>>
  BY <1>2 DEF Sees
<1>7. PICK n : n = b.bps
  OBVIOUS
<1>8. PICK k : k = Len(l) + c
  OBVIOUS
<1>9. c \in 1 .. Len(t) /\ n \in Rates
  BY <1>3, <1>7 DEF ConnectLine
<1>10. ConnectLine(s, k, n)
  <2>1. k \in 1 .. Len(s) /\ n \in Rates
    BY <1>5, <1>8, <1>9
  <2>2. \A i \in 1 .. k - 1 : s[i] \in Plain
    <3> SUFFICES ASSUME NEW i \in 1 .. k - 1 PROVE s[i] \in Plain
      OBVIOUS
    <3>1. CASE i <= Len(l)
      <4>1. i \in 1 .. Len(l)
        BY <1>5, <1>8, <1>9, <3>1
      <4> QED
        BY <1>5, <1>6, <4>1
    <3>2. CASE ~ (i <= Len(l))
      <4>1. PICK j : j = i - Len(l)
        OBVIOUS
      <4>2. j \in 1 .. c - 1 /\ j \in 1 .. Len(t) /\ Len(l) + j = i
        BY <1>5, <1>8, <1>9, <3>2, <4>1
      <4>3. t[j] \in Plain
        BY <1>3, <4>2 DEF ConnectLine
      <4> QED
        BY <1>5, <4>2, <4>3
    <3> QED
      BY <3>1, <3>2
  <2>3. k > 1 => s[k - 1] = "LF"
    <3>1. CASE c = 1
      <4>1. Len(l) = 0
        BY <1>3, <1>6, <3>1, EmptySeq
      <4> QED
        BY <1>8, <3>1, <4>1
    <3>2. CASE c # 1
      <4>1. c > 1 /\ c - 1 \in 1 .. Len(t) /\ Len(l) + (c - 1) = k - 1
        BY <1>5, <1>8, <1>9, <3>2
      <4>2. t[c - 1] = "LF"
        BY <1>3, <4>1 DEF ConnectLine
      <4> QED
        BY <1>5, <4>1, <4>2
    <3> QED
      BY <3>1, <3>2
  <2>4. IF n = 0 THEN Len(t) = c + 3 ELSE Len(t) = c + 4
    BY <1>3, <1>7 DEF ConnectLine
  <2>5. /\ n = 0 => Len(s) = k + 3
        /\ n # 0 => Len(s) = k + 4
    <3>1. c \in Nat /\ k = Len(l) + c /\ Len(s) = Len(l) + Len(t)
          /\ Len(l) \in Nat /\ Len(t) \in Nat
      BY <1>5, <1>8, <1>9
    <3>2. CASE n = 0
      BY <2>4, <3>1, <3>2
    <3>3. CASE n # 0
      BY <2>4, <3>1, <3>3
    <3> QED
      BY <3>2, <3>3
  <2>6. /\ s[k] = t[c] /\ s[k + 1] = t[c + 1] /\ s[k + 2] = t[c + 2]
        /\ s[k + 3] = t[c + 3] /\ (n # 0 => s[k + 4] = t[c + 4])
    <3>1. /\ c \in 1 .. Len(t) /\ Len(l) + c = k
          /\ c + 1 \in 1 .. Len(t) /\ Len(l) + (c + 1) = k + 1
          /\ c + 2 \in 1 .. Len(t) /\ Len(l) + (c + 2) = k + 2
          /\ c + 3 \in 1 .. Len(t) /\ Len(l) + (c + 3) = k + 3
          /\ n # 0 => (c + 4 \in 1 .. Len(t) /\ Len(l) + (c + 4) = k + 4)
      BY <1>5, <1>8, <1>9, <2>4
    <3> QED
      BY <1>5, <3>1
  <2>7. /\ t[c] = "CON" /\ t[c + 1] = "NECT"
        /\ IF n = 0 THEN t[c + 2] = "CR" /\ t[c + 3] = "LF"
           ELSE t[c + 2] = "RATE" /\ t[c + 3] = "CR" /\ t[c + 4] = "LF"
    BY <1>3, <1>7 DEF ConnectLine
  <2>8. s[k] = "CON" /\ s[k + 1] = "NECT"
    BY <2>6, <2>7
  <2>9. IF n = 0 THEN /\ Len(s) = k + 3
                      /\ s[k + 2] = "CR" /\ s[k + 3] = "LF"
                 ELSE /\ Len(s) = k + 4
                      /\ s[k + 2] = "RATE" /\ s[k + 3] = "CR" /\ s[k + 4] = "LF"
    BY <2>5, <2>6, <2>7
  <2> QED
    BY <2>1, <2>2, <2>3, <2>8, <2>9 DEF ConnectLine
<1>11. PICK r : r = Hear[s][h]
  OBVIOUS
<1>12. r.host.connected /\ r.host.bps = n /\ r.host.connects = h.connects + 1
  BY <1>5, <1>6, <1>10, <1>11, HeardConnect
<1>13. Heeds(s, h, r)
  BY <1>5, <1>11, HeardText
<1>14. /\ r.host \in Host /\ r.rest \in Seq(Bytes) /\ r.host.data = a.data /\ ~r.host.early
       /\ r.host.hangups + Ends(r.rest) <= h.hangups + Ends(s)
  BY <1>6, <1>13 DEF Heeds
<1>15. r.rest = <<>>
  <2>1. s[Len(s)] = "LF" /\ s # <<>>
    BY <1>5, <1>10, EmptySeq DEF ConnectLine
  <2> QED
    BY <1>13, <2>1 DEF Heeds
<1>16. r.host.hangups + Ends(r.rest) <= b.ends
  <2>1. /\ r.host.hangups \in Nat /\ Ends(r.rest) \in Nat /\ h.hangups \in Nat
        /\ Ends(l) \in Nat /\ Ends(t) \in Nat /\ a.ends \in Nat
    BY <1>14, EndsFinite DEF Host, Views
  <2>2. Ends(s) = Ends(l) + Ends(t)
    BY <1>4, EndsOfTwo
  <2> QED
    BY <1>2, <1>6, <1>14, <2>1, <2>2, SMTT(30)
<1>17. r.host.connects = 1
  BY <1>6, <1>12
<1>18. Sees(b, r.host, r.rest)
  BY <1>2, <1>7, <1>12, <1>14, <1>15, <1>16, <1>17 DEF Sees
<1> QED
  BY <1>1, <1>4, <1>11, <1>14, <1>18

LEMMA DropSeen ==
  ASSUME NEW a \in Views, NEW b \in Views, NEW f, NEW h \in Host, NEW l \in Seq(Bytes),
         Sees(a, h, l), DropPasses(a, f, b)
  PROVE  LET r == Hear[l \o f.payload][h]
         IN r.host \in Host /\ r.rest \in Seq(Bytes) /\ Sees(b, r.host, r.rest)
<1>1. /\ l = <<>> /\ f.payload = NoCarrier \o Crlf
      /\ h.connected /\ h.connects = 1 /\ ~h.early /\ h.data = a.data
      /\ h.hangups + Ends(<<>>) <= a.ends
      /\ b.phase = "after" /\ b.ends = a.ends + 1 /\ b.data = a.data
  BY DEF Sees, DropPasses, Views
<1>2. PICK s : s = NoCarrier \o Crlf
  OBVIOUS
<1>3. s \in Seq(Bytes) /\ Len(s) = 4 /\ s[4] = "LF" /\ s # <<>>
  <2>1. PICK t \in Seq(Bytes) : t = NoCarrier /\ Len(t) = 2
    BY Words
  <2>2. PICK u \in Seq(Bytes) : u = Crlf /\ Len(u) = 2 /\ u[2] = "LF"
    BY Words
  <2>3. /\ t \o u \in Seq(Bytes) /\ Len(t \o u) = Len(t) + Len(u)
        /\ \A i \in 1 .. Len(u) : (t \o u)[Len(t) + i] = u[i]
    BY JoinedText
  <2>4. s = t \o u /\ Len(t) = 2 /\ Len(u) = 2 /\ u[2] = "LF"
    BY <1>2, <2>1, <2>2
  <2>5. /\ s \in Seq(Bytes) /\ Len(s) = 4 /\ s[4] = "LF"
    BY <2>3, <2>4
  <2>6. s # <<>>
    <3> SUFFICES ASSUME s = <<>> PROVE FALSE
      OBVIOUS
    <3>1. Len(s) = 0
      OBVIOUS
    <3> QED
      BY <2>5, <3>1
  <2> QED
    BY <2>5, <2>6
<1>4. l \o f.payload = s
  BY <1>1, <1>2, <1>3, ConcatEmptySeq
<1>5. PICK r : r = Hear[s][h]
  OBVIOUS
<1>6. r.host = [h EXCEPT !.connected = FALSE, !.bps = 0, !.hangups = @ + 1]
  BY <1>1, <1>2, <1>5, HeardNoCarrier
<1>7. Heeds(s, h, r)
  BY <1>3, <1>5, HeardText
<1>8. r.host \in Host /\ r.rest \in Seq(Bytes) /\ r.rest = <<>>
  BY <1>3, <1>7 DEF Heeds
<1>9. /\ ~r.host.connected /\ r.host.connects = 1 /\ r.host.bps = 0
      /\ r.host.hangups = h.hangups + 1 /\ ~r.host.early /\ r.host.data = a.data
  BY <1>1, <1>6 DEF Host
<1>10. r.host.hangups + Ends(r.rest) <= b.ends
  <2>1. h.hangups \in Nat /\ a.ends \in Nat /\ Ends(<<>>) = 0
    BY EndsOfNothing DEF Host, Views
  <2> QED
    BY <1>1, <1>8, <1>9, <2>1
<1>11. Sees(b, r.host, r.rest)
  BY <1>1, <1>8, <1>9, <1>10 DEF Sees
<1> QED
  BY <1>4, <1>5, <1>8, <1>11

LEMMA StatusSeen ==
  ASSUME NEW a \in Views, NEW b \in Views, NEW f, NEW h \in Host, NEW l \in Seq(Bytes),
         Sees(a, h, l), ConnectPasses(a, f, b) \/ EndPasses(a, f, b)
  PROVE  LET g == OnStatus(h, f.payload[1], f.payload[2])
         IN g \in Host /\ Sees(b, g, l)
<1>1. CASE EndPasses(a, f, b)
  <2>1. b = a /\ f.payload[1] = "nocarrier"
    BY <1>1 DEF EndPasses
  <2> QED
    BY <2>1 DEF OnStatus
<1>2. CASE ConnectPasses(a, f, b)
  <2>1. /\ f.payload[1] = "connect" /\ f.payload[2] = a.bps
        /\ a.phase = "line" /\ b = [a EXCEPT !.phase = "online"]
    BY <1>2 DEF ConnectPasses
  <2>2. h.connected /\ h.bps = a.bps
    BY <2>1 DEF Sees
  <2>3. OnStatus(h, f.payload[1], f.payload[2]) = h
    <3>1. CASE h.bps = 0
      <4>1. OnStatus(h, f.payload[1], f.payload[2]) = [h EXCEPT !.bps = a.bps]
        BY <2>1, <2>2, <3>1 DEF OnStatus
      <4> QED
        BY <2>2, <4>1 DEF Host
    <3>2. CASE h.bps # 0
      BY <2>1, <2>2, <3>2 DEF OnStatus
    <3> QED
      BY <3>1, <3>2
  <2>4. /\ b.phase = "online" /\ b.bps = a.bps /\ b.ends = a.ends /\ b.data = a.data
    BY <2>1 DEF Views
  <2>5. Sees(b, h, l)
    BY <2>1, <2>4 DEF Sees
  <2> QED
    BY <2>3, <2>5
<1> QED
  BY <1>1, <1>2

LEMMA DataSeen ==
  ASSUME NEW a \in Views, NEW b \in Views, NEW f, NEW h \in Host, NEW l \in Seq(Bytes),
         Sees(a, h, l), DataPasses(a, f, b)
  PROVE  LET g == [h EXCEPT !.data = @ \o f.payload, !.early = @ \/ h.connects = 0]
         IN g \in Host /\ Sees(b, g, l)
<1> DEFINE g == [h EXCEPT !.data = @ \o f.payload, !.early = @ \/ h.connects = 0]
<1>1. /\ f.payload \in Seq(Bytes) /\ a.phase = "online" /\ b.phase = "online"
      /\ b.data = a.data \o f.payload /\ b.bps = a.bps /\ b.ends = a.ends
  BY DEF DataPasses, Views
<1>2. /\ h.connected /\ h.connects = 1 /\ h.bps = a.bps /\ l = <<>> /\ ~h.early
      /\ h.data = a.data /\ h.hangups + Ends(l) <= a.ends
  BY <1>1 DEF Sees
<1>3. /\ h.data \in Seq(Bytes) /\ h.early \in BOOLEAN /\ h.hangups \in Nat
      /\ h.connects \in Nat /\ h.bps \in Nat /\ h.connected \in BOOLEAN
  BY DEF Host
<1>4. h.data \o f.payload \in Seq(Bytes)
  BY <1>1, <1>3, ConcatProperties
<1>5. g = [h EXCEPT !.data = h.data \o f.payload, !.early = FALSE]
  <2>1. (h.early \/ h.connects = 0) = FALSE
    BY <1>2
  <2>2. g = [h EXCEPT !.data = h.data \o f.payload, !.early = (h.early \/ h.connects = 0)]
    BY Zenon DEF Host
  <2> QED
    BY <2>1, <2>2
<1>6. g \in Host
  BY <1>4, <1>5 DEF Host
<1>7. /\ g.connected /\ g.connects = 1 /\ g.bps = a.bps /\ ~g.early
      /\ g.data = b.data /\ g.hangups = h.hangups
  BY <1>1, <1>2, <1>5 DEF Host
<1>8. Sees(b, g, l)
  BY <1>1, <1>2, <1>7 DEF Sees
<1> QED
  BY <1>6, <1>8

(* A line whose end is late changes no view: it can only be one that ends  *)
(* a call, and that was counted.                                           *)
LEMMA LineTaken ==
  ASSUME NEW a \in Views, NEW h \in Host, NEW l \in Seq(Bytes), Sees(a, h, l)
  PROVE  HandleLine(h, l) \in Host /\ Sees(a, HandleLine(h, l), <<>>)
<1>1. PICK g : g = HandleLine(h, l)
  OBVIOUS
<1>2. /\ g \in Host /\ g.data = h.data /\ g.early = h.early
      /\ g.hangups = h.hangups \/ (g.hangups = h.hangups + 1 /\ EndsAt(l) # {})
      /\ (~h.connected /\ \A i \in 1 .. Len(l) : l[i] # "NECT") =>
           /\ ~g.connected /\ g.connects = h.connects /\ g.bps = h.bps
  BY <1>1, HandledLine
<1>3. /\ Ends(l) \in Nat /\ (EndsAt(l) # {} => Ends(l) >= 1) /\ h.hangups \in Nat
      /\ Ends(<<>>) = 0 /\ a.ends \in Nat
  BY EndsFinite, EndsOfNothing DEF Host, Views
<1>4. g.hangups + Ends(<<>>) <= a.ends
  <2>1. h.hangups + Ends(l) <= a.ends
    BY DEF Sees
  <2>2. CASE g.hangups = h.hangups
    BY <1>3, <2>1, <2>2
  <2>3. CASE g.hangups = h.hangups + 1 /\ EndsAt(l) # {}
    BY <1>3, <2>1, <2>3
  <2> QED
    BY <1>2, <2>2, <2>3
<1>5. CASE a.phase = "before"
  <2>1. /\ ~h.connected /\ h.connects = 0 /\ h.bps = 0
        /\ \A i \in 1 .. Len(l) : l[i] \in Plain
        /\ h.data = a.data /\ ~h.early
    BY <1>5 DEF Sees
  <2>2. ~g.connected /\ g.connects = 0 /\ g.bps = 0
    BY <1>2, <2>1 DEF Plain
  <2>3. \A i \in 1 .. Len(<<>>) : <<>>[i] \in Plain
    OBVIOUS
  <2>4. Sees(a, g, <<>>)
    BY <1>2, <1>4, <1>5, <2>1, <2>2, <2>3 DEF Sees
  <2> QED
    BY <1>1, <1>2, <2>4
<1>6. CASE a.phase # "before"
  <2>1. l = <<>>
    BY <1>6 DEF Sees, Views
  <2>2. l # Connect /\ l # Connect \o <<"RATE">> /\ l # NoCarrier /\ l # <<"BUSY">>
    BY <2>1 DEF Connect, NoCarrier
  <2>3. Parse(l) \notin {"connect", "nocarrier", "busy"}
    BY <2>2, Parsed
  <2>4. g = h
    BY <1>1, <2>3 DEF HandleLine
  <2> QED
    BY <1>1, <2>1, <2>4
<1> QED
  BY <1>5, <1>6

-----------------------------------------------------------------------------
(* How the VM cuts what it reads.                                          *)
LEMMA Pair ==
  ASSUME NEW t \in Seq(Bytes), Len(t) = 2
  PROVE  t = <<t[1], t[2]>>
<1> PICK u : u = <<t[1], t[2]>>
  OBVIOUS
<1>1. t[1] \in Bytes /\ t[2] \in Bytes
  BY ElementOfSeq
<1>2. u \in Seq(Bytes) /\ Len(u) = 2 /\ u[1] = t[1] /\ u[2] = t[2]
  BY <1>1
<1> QED
  BY <1>2, SeqEqual

(* FindKeyword and FindLf give the first place, or none.                   *)
LEMMA KeywordFound ==
  ASSUME NEW s \in Seq(Bytes), NEW v, NEW w
  PROVE  LET k == FindKeyword(s, <<v, w>>) IN
         /\ k = 0 => \A i \in 1 .. Len(s) - 1 : ~ (s[i] = v /\ s[i + 1] = w)
         /\ k # 0 => /\ k \in 1 .. Len(s) - 1 /\ s[k] = v /\ s[k + 1] = w
                     /\ \A i \in 1 .. k - 1 : ~ (s[i] = v /\ s[i + 1] = w)
<1> DEFINE S == {i \in 1 .. Len(s) - 1 : SubSeq(s, i, i + 1) = <<v, w>>}
           k == FindKeyword(s, <<v, w>>)
<1>1. Len(s) \in Nat
  BY LenProperties
<1>2. ASSUME NEW i \in 1 .. Len(s) - 1
      PROVE  SubSeq(s, i, i + 1) = <<v, w>> <=> s[i] = v /\ s[i + 1] = w
  <2>1. i \in Int /\ i + 1 \in Int /\ \A j \in i .. i + 1 : s[j] \in Bytes
    BY <1>1, ElementOfSeq
  <2>2. /\ SubSeq(s, i, i + 1) \in Seq(Bytes)
        /\ Len(SubSeq(s, i, i + 1)) = IF i <= i + 1 THEN (i + 1) - i + 1 ELSE 0
        /\ \A j \in 1 .. (i + 1) - i + 1 : SubSeq(s, i, i + 1)[j] = s[i + j - 1]
    BY <2>1, SubSeqProperties
  <2>3. PICK t \in Seq(Bytes) : t = SubSeq(s, i, i + 1)
    BY <2>2
  <2>4. Len(t) = 2 /\ \A j \in 1 .. 2 : t[j] = s[i + j - 1]
    BY <2>1, <2>2, <2>3
  <2>5. t[1] = s[i] /\ t[2] = s[i + 1]
    <3>1. i + 1 - 1 = i /\ i + 2 - 1 = i + 1 /\ 1 \in 1 .. 2 /\ 2 \in 1 .. 2
      OBVIOUS
    <3> QED
      BY <2>4, <3>1
  <2>6. t = <<v, w>> => s[i] = v /\ s[i + 1] = w
    BY <2>5
  <2>7. s[i] = v /\ s[i + 1] = w => t = <<v, w>>
    <3> SUFFICES ASSUME t[1] = v, t[2] = w PROVE t = <<v, w>>
      BY <2>5
    <3>1. v \in Bytes /\ w \in Bytes
      BY <2>4, ElementOfSeq
    <3> QED
      BY <2>4, <3>1, Pair
  <2> QED
    BY <2>3, <2>6, <2>7
<1>3. k = First(S)
  BY DEF FindKeyword
<1>4. S \subseteq Nat \ {0}
  BY <1>1
<1> HIDE DEF S, k
<1>5. /\ k \in Nat /\ (k = 0 <=> S = {})
      /\ S # {} => k \in S /\ \A j \in S : k <= j
  BY <1>3, <1>4, FirstIsLeast
<1> USE DEF S
<1>6. k = 0 => \A i \in 1 .. Len(s) - 1 : ~ (s[i] = v /\ s[i + 1] = w)
  BY <1>2, <1>5
<1>7. k # 0 => k \in 1 .. Len(s) - 1 /\ s[k] = v /\ s[k + 1] = w
  BY <1>2, <1>5
<1>8. ASSUME k # 0, NEW i \in 1 .. k - 1 PROVE ~ (s[i] = v /\ s[i + 1] = w)
  <2>1. i \in 1 .. Len(s) - 1 /\ ~ (k <= i)
    BY <1>1, <1>7, <1>8
  <2> QED
    BY <1>2, <1>5, <2>1
<1> QED
  BY <1>6, <1>7, <1>8 DEF k

LEMMA LineEndFound ==
  ASSUME NEW s \in Seq(Bytes), NEW from \in Nat \ {0}
  PROVE  LET k == FindLf(s, from) IN
         /\ k = 0 => \A i \in from .. Len(s) : s[i] # "LF"
         /\ k # 0 => /\ k \in from .. Len(s) /\ s[k] = "LF"
                     /\ \A i \in from .. k - 1 : s[i] # "LF"
<1> DEFINE S == {i \in from .. Len(s) : s[i] = "LF"}
           k == FindLf(s, from)
<1>1. Len(s) \in Nat
  BY LenProperties
<1>2. k = First(S) /\ S \subseteq Nat \ {0}
  BY <1>1 DEF FindLf
<1> HIDE DEF S, k
<1>3. /\ k \in Nat /\ (k = 0 <=> S = {})
      /\ S # {} => k \in S /\ \A j \in S : k <= j
  BY <1>2, FirstIsLeast
<1> USE DEF S
<1>4. k = 0 => \A i \in from .. Len(s) : s[i] # "LF"
  BY <1>3
<1>5. k # 0 => k \in from .. Len(s) /\ s[k] = "LF"
  BY <1>3
<1>6. ASSUME k # 0, NEW i \in from .. k - 1 PROVE s[i] # "LF"
  <2>1. i \in from .. Len(s) /\ ~ (k <= i)
    BY <1>1, <1>5, <1>6
  <2> QED
    BY <1>3, <2>1
<1> QED
  BY <1>4, <1>5, <1>6 DEF k

(* Where a keyword is, when nothing before it looks like one.              *)
LEMMA KeywordIs ==
  ASSUME NEW s \in Seq(Bytes), NEW v, NEW w, NEW c \in 1 .. Len(s) - 1,
         s[c] = v, s[c + 1] = w,
         \A i \in 1 .. c - 1 : ~ (s[i] = v /\ s[i + 1] = w)
  PROVE  FindKeyword(s, <<v, w>>) = c
<1>1. PICK k : k = FindKeyword(s, <<v, w>>)
  OBVIOUS
<1>2. /\ k = 0 => \A i \in 1 .. Len(s) - 1 : ~ (s[i] = v /\ s[i + 1] = w)
      /\ k # 0 => /\ k \in 1 .. Len(s) - 1 /\ s[k] = v /\ s[k + 1] = w
                  /\ \A i \in 1 .. k - 1 : ~ (s[i] = v /\ s[i + 1] = w)
  BY <1>1, KeywordFound
<1>3. k # 0
  BY <1>2
<1>4. Len(s) \in Nat /\ k \in 1 .. Len(s) - 1
  BY <1>2, <1>3, LenProperties
<1>5. ~ (k < c)
  BY <1>2, <1>3, <1>4
<1>6. ~ (c < k)
  BY <1>2, <1>3, <1>4
<1> QED
  BY <1>1, <1>4, <1>5, <1>6

LEMMA LineEndIs ==
  ASSUME NEW s \in Seq(Bytes), NEW from \in Nat \ {0}, NEW e \in from .. Len(s),
         s[e] = "LF", \A i \in from .. e - 1 : s[i] # "LF"
  PROVE  FindLf(s, from) = e
<1>1. PICK k : k = FindLf(s, from)
  OBVIOUS
<1>2. /\ k = 0 => \A i \in from .. Len(s) : s[i] # "LF"
      /\ k # 0 => /\ k \in from .. Len(s) /\ s[k] = "LF"
                  /\ \A i \in from .. k - 1 : s[i] # "LF"
  BY <1>1, LineEndFound
<1>3. k # 0
  BY <1>2
<1>4. Len(s) \in Nat /\ k \in from .. Len(s)
  BY <1>2, <1>3, LenProperties
<1>5. ~ (k < e)
  BY <1>2, <1>3, <1>4
<1>6. ~ (e < k)
  BY <1>2, <1>3, <1>4
<1> QED
  BY <1>1, <1>4, <1>5, <1>6

(* All before place i is sent on, the rest is held back.                   *)
HoldsFrom(r, s, i, type, mode) ==
  /\ r.frames = Emit(type, UpTo(s, i - 1))
  /\ r.pending = From(s, i) /\ r.mode = mode

LEMMA HeldBack ==
  ASSUME NEW s, NEW i, NEW type, NEW mode
  PROVE  HoldsFrom(Held(s, i, type, mode), s, i, type, mode)
BY DEF HoldsFrom, Held

LEMMA TailHeld ==
  ASSUME NEW s \in Seq(Bytes), NEW words, s # <<>>
  PROVE  /\ PartialTail(s, words) \in {Len(s) - 1, Len(s)}
         /\ PartialTail(s, words) = Len(s) - 1 =>
              \E w \in words : s[Len(s)] = w[1]
         /\ (\E w \in words : s[Len(s)] = w[1]) =>
              PartialTail(s, words) = Len(s) - 1
<1>1. Len(s) \in Nat
  BY LenProperties
<1> QED
  BY <1>1 DEF PartialTail, Last

(* What modemd-ctrl makes of a text in command mode and in data mode, by   *)
(* what is in it: no keyword, one without its line end, a whole line.      *)
LEMMA CommandNoKeyword ==
  ASSUME NEW s \in Seq(Bytes), s # <<>>,
         \A j \in 1 .. Len(s) : s[j] \notin {"NO", "CON"}
  PROVE  HoldsFrom(CommandBytes(s), s, Len(s) + 1, "AT_RESPONSE", FALSE)
<1>1. Len(s) \in Nat \ {0} /\ Len(s) \in 1 .. Len(s)
  BY EmptySeq
<1>2. FindKeyword(s, <<"NO", "CARRIER">>) = 0
  <2>1. PICK k : k = FindKeyword(s, <<"NO", "CARRIER">>)
    OBVIOUS
  <2>2. k # 0 => k \in 1 .. Len(s) - 1 /\ s[k] = "NO"
    BY <2>1, KeywordFound
  <2> QED
    BY <1>1, <2>1, <2>2
<1>3. FindKeyword(s, <<"CON", "NECT">>) = 0
  <2>1. PICK k : k = FindKeyword(s, <<"CON", "NECT">>)
    OBVIOUS
  <2>2. k # 0 => k \in 1 .. Len(s) - 1 /\ s[k] = "CON"
    BY <2>1, KeywordFound
  <2> QED
    BY <1>1, <2>1, <2>2
<1>4. PartialTail(s, {NoCarrier, Connect}) = Len(s)
  BY <1>1, TailHeld DEF NoCarrier, Connect
<1>5. CommandBytes(s) = Held(s, Len(s) + 1, "AT_RESPONSE", FALSE)
  BY <1>2, <1>3, <1>4 DEF CommandBytes, NoCarrier, Connect
<1> QED
  BY <1>5, HeldBack

LEMMA CommandHalfConnect ==
  ASSUME NEW s \in Seq(Bytes), NEW c \in 1 .. Len(s), s[c] = "CON",
         \A j \in 1 .. Len(s) : s[j] # "NO",
         \A j \in 1 .. c - 1 : s[j] # "CON",
         c < Len(s) => s[c + 1] = "NECT",
         \A j \in c .. Len(s) : s[j] # "LF"
  PROVE  HoldsFrom(CommandBytes(s), s, c, "AT_RESPONSE", FALSE)
<1>1. Len(s) \in Nat /\ s # <<>> /\ Len(s) \in 1 .. Len(s)
  BY LenProperties, EmptySeq
<1>2. FindKeyword(s, <<"NO", "CARRIER">>) = 0
  <2>1. PICK k : k = FindKeyword(s, <<"NO", "CARRIER">>)
    OBVIOUS
  <2>2. k # 0 => k \in 1 .. Len(s) - 1 /\ s[k] = "NO"
    BY <2>1, KeywordFound
  <2> QED
    BY <1>1, <2>1, <2>2
<1>3. CASE c = Len(s)
  <2>1. FindKeyword(s, <<"CON", "NECT">>) = 0
    <3>1. PICK k : k = FindKeyword(s, <<"CON", "NECT">>)
      OBVIOUS
    <3>2. k # 0 => k \in 1 .. Len(s) - 1 /\ s[k] = "CON"
      BY <3>1, KeywordFound
    <3> QED
      BY <1>1, <1>3, <3>1, <3>2
  <2>2. PartialTail(s, {NoCarrier, Connect}) = Len(s) - 1
    <3>1. Connect \in {NoCarrier, Connect} /\ s[Len(s)] = Connect[1]
      BY <1>3 DEF Connect
    <3> QED
      BY <1>1, <3>1, TailHeld
  <2>3. PartialTail(s, {NoCarrier, Connect}) + 1 = c
    BY <1>1, <1>3, <2>2
  <2>4. CommandBytes(s) = Held(s, c, "AT_RESPONSE", FALSE)
    BY <1>2, <2>1, <2>3 DEF CommandBytes, NoCarrier, Connect
  <2> QED
    BY <2>4, HeldBack
<1>4. CASE c # Len(s)
  <2>1. c \in 1 .. Len(s) - 1 /\ s[c + 1] = "NECT" /\ c \in Nat \ {0} /\ c # 0
    BY <1>1, <1>4
  <2>2. FindKeyword(s, <<"CON", "NECT">>) = c
    BY <2>1, KeywordIs
  <2>3. FindLf(s, c) = 0
    <3>1. PICK k : k = FindLf(s, c)
      OBVIOUS
    <3>2. k # 0 => k \in c .. Len(s) /\ s[k] = "LF"
      BY <2>1, <3>1, LineEndFound
    <3> QED
      BY <3>1, <3>2
  <2>4. CommandBytes(s) = Held(s, c, "AT_RESPONSE", FALSE)
    BY <1>2, <2>1, <2>2, <2>3 DEF CommandBytes, NoCarrier, Connect
  <2> QED
    BY <2>4, HeldBack
<1> QED
  BY <1>3, <1>4

LEMMA CommandHalfNoCarrier ==
  ASSUME NEW s \in Seq(Bytes), NEW c \in 1 .. Len(s), s[c] = "NO",
         \A j \in 1 .. Len(s) : s[j] # "CON",
         \A j \in 1 .. c - 1 : s[j] # "NO",
         c < Len(s) => s[c + 1] = "CARRIER",
         \A j \in c .. Len(s) : s[j] # "LF"
  PROVE  HoldsFrom(CommandBytes(s), s, c, "AT_RESPONSE", FALSE)
<1>1. Len(s) \in Nat /\ s # <<>> /\ Len(s) \in 1 .. Len(s)
  BY LenProperties, EmptySeq
<1>2. FindKeyword(s, <<"CON", "NECT">>) = 0
  <2>1. PICK k : k = FindKeyword(s, <<"CON", "NECT">>)
    OBVIOUS
  <2>2. k # 0 => k \in 1 .. Len(s) - 1 /\ s[k] = "CON"
    BY <2>1, KeywordFound
  <2> QED
    BY <1>1, <2>1, <2>2
<1>3. CASE c = Len(s)
  <2>1. FindKeyword(s, <<"NO", "CARRIER">>) = 0
    <3>1. PICK k : k = FindKeyword(s, <<"NO", "CARRIER">>)
      OBVIOUS
    <3>2. k # 0 => k \in 1 .. Len(s) - 1 /\ s[k] = "NO"
      BY <3>1, KeywordFound
    <3> QED
      BY <1>1, <1>3, <3>1, <3>2
  <2>2. PartialTail(s, {NoCarrier, Connect}) = Len(s) - 1
    <3>1. NoCarrier \in {NoCarrier, Connect} /\ s[Len(s)] = NoCarrier[1]
      BY <1>3 DEF NoCarrier
    <3> QED
      BY <1>1, <3>1, TailHeld
  <2>3. PartialTail(s, {NoCarrier, Connect}) + 1 = c
    BY <1>1, <1>3, <2>2
  <2>4. CommandBytes(s) = Held(s, c, "AT_RESPONSE", FALSE)
    BY <1>2, <2>1, <2>3 DEF CommandBytes, NoCarrier, Connect
  <2> QED
    BY <2>4, HeldBack
<1>4. CASE c # Len(s)
  <2>1. c \in 1 .. Len(s) - 1 /\ s[c + 1] = "CARRIER" /\ c \in Nat \ {0} /\ c # 0
    BY <1>1, <1>4
  <2>2. FindKeyword(s, <<"NO", "CARRIER">>) = c
    BY <2>1, KeywordIs
  <2>3. FindLf(s, c) = 0
    <3>1. PICK k : k = FindLf(s, c)
      OBVIOUS
    <3>2. k # 0 => k \in c .. Len(s) /\ s[k] = "LF"
      BY <2>1, <3>1, LineEndFound
    <3> QED
      BY <3>1, <3>2
  <2>4. CommandBytes(s) = Held(s, c, "AT_RESPONSE", FALSE)
    BY <2>1, <2>2, <2>3 DEF CommandBytes, NoCarrier, Connect
  <2> QED
    BY <2>4, HeldBack
<1> QED
  BY <1>3, <1>4

LEMMA CommandConnect ==
  ASSUME NEW s \in Seq(Bytes), NEW c \in Nat \ {0}, NEW e \in c + 1 .. Len(s),
         s[c] = "CON", s[c + 1] = "NECT", s[e] = "LF",
         \A j \in 1 .. c - 1 : s[j] # "CON",
         \A j \in 1 .. Len(s) : s[j] # "CARRIER",
         \A j \in c .. e - 1 : s[j] # "LF"
  PROVE  CommandBytes(s)
           = [frames |-> Emit("AT_RESPONSE", UpTo(s, e))
                           \o Status("connect", RateOf(SubSeq(s, c, e)))
                           \o Emit("DATA_RX", From(s, e + 1)),
              pending |-> <<>>, mode |-> TRUE]
<1>1. Len(s) \in Nat /\ c \in 1 .. Len(s) - 1 /\ e \in c .. Len(s) /\ c # 0 /\ e # 0
  BY LenProperties
<1>2. FindKeyword(s, <<"NO", "CARRIER">>) = 0
  <2>1. PICK k : k = FindKeyword(s, <<"NO", "CARRIER">>)
    OBVIOUS
  <2>2. k # 0 => k \in 1 .. Len(s) - 1 /\ s[k + 1] = "CARRIER"
    BY <2>1, KeywordFound
  <2> QED
    BY <1>1, <2>1, <2>2
<1>3. FindKeyword(s, <<"CON", "NECT">>) = c
  BY <1>1, KeywordIs
<1>4. FindLf(s, c) = e
  BY <1>1, LineEndIs
<1> QED
  BY <1>1, <1>2, <1>3, <1>4 DEF CommandBytes, NoCarrier, Connect

LEMMA CommandNoCarrier ==
  ASSUME NEW s \in Seq(Bytes), NEW c \in Nat \ {0}, NEW e \in c + 1 .. Len(s),
         s[c] = "NO", s[c + 1] = "CARRIER", s[e] = "LF",
         \A j \in 1 .. c - 1 : s[j] # "NO",
         \A j \in c .. e - 1 : s[j] # "LF"
  PROVE  CommandBytes(s)
           = [frames |-> Emit("AT_RESPONSE", UpTo(s, e))
                           \o Status("nocarrier", 0)
                           \o Emit("AT_RESPONSE", From(s, e + 1)),
              pending |-> <<>>, mode |-> FALSE]
<1>1. Len(s) \in Nat /\ c \in 1 .. Len(s) - 1 /\ e \in c .. Len(s) /\ c # 0 /\ e # 0
  BY LenProperties
<1>2. FindKeyword(s, <<"NO", "CARRIER">>) = c
  BY <1>1, KeywordIs
<1>3. FindLf(s, c) = e
  BY <1>1, LineEndIs
<1> QED
  BY <1>1, <1>2, <1>3 DEF CommandBytes, NoCarrier, Connect

LEMMA DataHeld ==
  ASSUME NEW s \in Seq(Bytes), s # <<>>,
         \A j \in 1 .. Len(s) : s[j] # "CARRIER"
  PROVE  \E i \in {Len(s), Len(s) + 1} :
           /\ HoldsFrom(DataBytes(s), s, i, "DATA_RX", TRUE)
           /\ i = Len(s) => s[Len(s)] = "NO"
           /\ s[Len(s)] = "NO" => i = Len(s)
<1>1. Len(s) \in Nat \ {0}
  BY EmptySeq
<1>2. FindKeyword(s, <<"NO", "CARRIER">>) = 0
  <2>1. PICK k : k = FindKeyword(s, <<"NO", "CARRIER">>)
    OBVIOUS
  <2>2. k # 0 => k \in 1 .. Len(s) - 1 /\ s[k + 1] = "CARRIER"
    BY <2>1, KeywordFound
  <2> QED
    BY <1>1, <2>1, <2>2
<1>3. PICK i : i = PartialTail(s, {NoCarrier}) + 1
  OBVIOUS
<1>4. DataBytes(s) = Held(s, i, "DATA_RX", TRUE)
  BY <1>2, <1>3 DEF DataBytes, NoCarrier
<1>5. HoldsFrom(DataBytes(s), s, i, "DATA_RX", TRUE)
  BY <1>4, HeldBack
<1>6. PICK k : k = PartialTail(s, {NoCarrier})
  OBVIOUS
<1>7. /\ k \in {Len(s) - 1, Len(s)}
      /\ k = Len(s) - 1 => \E w \in {NoCarrier} : s[Len(s)] = w[1]
      /\ (\E w \in {NoCarrier} : s[Len(s)] = w[1]) => k = Len(s) - 1
  BY <1>6, TailHeld
<1>8. NoCarrier[1] = "NO"
  BY Words
<1>9. i = k + 1 /\ i \in {Len(s), Len(s) + 1}
  BY <1>1, <1>3, <1>6, <1>7
<1>10. s[Len(s)] = "NO" <=> \E w \in {NoCarrier} : s[Len(s)] = w[1]
  BY <1>8
<1>11. k = Len(s) - 1 <=> i = Len(s)
  BY <1>1, <1>7, <1>9
<1> QED
  BY <1>5, <1>7, <1>9, <1>10, <1>11

LEMMA DataHalfNoCarrier ==
  ASSUME NEW s \in Seq(Bytes), NEW c \in 1 .. Len(s) - 1,
         s[c] = "NO", s[c + 1] = "CARRIER",
         \A j \in 1 .. c : s[j] # "CARRIER",
         \A j \in c .. Len(s) : s[j] # "LF"
  PROVE  HoldsFrom(DataBytes(s), s, c, "DATA_RX", TRUE)
<1>1. Len(s) \in Nat /\ c \in Nat \ {0} /\ c # 0
  BY LenProperties
<1>2. \A j \in 1 .. c - 1 : ~ (s[j] = "NO" /\ s[j + 1] = "CARRIER")
  BY <1>1
<1>3. FindKeyword(s, <<"NO", "CARRIER">>) = c
  BY <1>2, KeywordIs
<1>4. FindLf(s, c) = 0
  <2>1. PICK k : k = FindLf(s, c)
    OBVIOUS
  <2>2. k # 0 => k \in c .. Len(s) /\ s[k] = "LF"
    BY <1>1, <2>1, LineEndFound
  <2> QED
    BY <2>1, <2>2
<1>5. DataBytes(s) = Held(s, c, "DATA_RX", TRUE)
  BY <1>1, <1>3, <1>4 DEF DataBytes, NoCarrier
<1> QED
  BY <1>5, HeldBack

LEMMA DataNoCarrier ==
  ASSUME NEW s \in Seq(Bytes), NEW c \in Nat \ {0}, NEW e \in c + 1 .. Len(s),
         s[c] = "NO", s[c + 1] = "CARRIER", s[e] = "LF",
         \A j \in 1 .. c : s[j] # "CARRIER",
         \A j \in c .. e - 1 : s[j] # "LF"
  PROVE  DataBytes(s)
           = [frames |-> Emit("DATA_RX", UpTo(s, c - 1))
                           \o Emit("AT_RESPONSE", SubSeq(s, c, e))
                           \o Status("nocarrier", 0)
                           \o Emit("AT_RESPONSE", From(s, e + 1)),
              pending |-> <<>>, mode |-> FALSE]
<1>1. Len(s) \in Nat /\ c \in 1 .. Len(s) - 1 /\ e \in c .. Len(s) /\ c # 0 /\ e # 0
  BY LenProperties
<1>2. \A j \in 1 .. c - 1 : ~ (s[j] = "NO" /\ s[j + 1] = "CARRIER")
  BY <1>1
<1>3. FindKeyword(s, <<"NO", "CARRIER">>) = c
  BY <1>1, <1>2, KeywordIs
<1>4. FindLf(s, c) = e
  BY <1>1, LineEndIs
<1> QED
  BY <1>1, <1>3, <1>4 DEF DataBytes, NoCarrier

-----------------------------------------------------------------------------
(* Cuts of what the modem wrote.                                           *)
LEMMA CutOfCut ==
  ASSUME NEW s \in Seq(Bytes), NEW m \in 0 .. Len(s), NEW i \in 1 .. m + 1
  PROVE  /\ From(UpTo(s, m), i) \o From(s, m + 1) = From(s, i)
         /\ UpTo(UpTo(s, m), i - 1) = UpTo(s, i - 1)
         /\ From(UpTo(s, m), i) \in Seq(Bytes)
         /\ Len(From(UpTo(s, m), i)) = m - i + 1
         /\ \A j \in 1 .. m - i + 1 : From(UpTo(s, m), i)[j] = s[i + j - 1]
<1>1. /\ Len(s) \in Nat /\ m + 1 \in 1 .. Len(s) + 1 /\ i \in 1 .. Len(s) + 1
      /\ i - 1 \in 0 .. Len(s) /\ i - 1 \in 0 .. m
  BY LenProperties
<1>2. PICK t : t = UpTo(s, m)
  OBVIOUS
<1>3. t \in Seq(Bytes) /\ Len(t) = m /\ \A j \in 1 .. m : t[j] = s[j]
  BY <1>2, UpToPlace
<1>4. PICK u : u = From(t, i)
  OBVIOUS
<1>5. /\ u \in Seq(Bytes) /\ Len(u) = m - i + 1
      /\ \A j \in 1 .. m - i + 1 : u[j] = t[i + j - 1]
  BY <1>3, <1>4, FromPlace
<1>6. \A j \in 1 .. m - i + 1 : i + j - 1 \in 1 .. m
  BY <1>1
<1>7. \A j \in 1 .. m - i + 1 : u[j] = s[i + j - 1]
  BY <1>3, <1>5, <1>6
<1>8. PICK v : v = From(s, m + 1)
  OBVIOUS
<1>9. /\ v \in Seq(Bytes) /\ Len(v) = Len(s) - (m + 1) + 1
      /\ \A j \in 1 .. Len(s) - (m + 1) + 1 : v[j] = s[(m + 1) + j - 1]
  BY <1>1, <1>8, FromPlace
<1>10. PICK w : w = From(s, i)
  OBVIOUS
<1>11. /\ w \in Seq(Bytes) /\ Len(w) = Len(s) - i + 1
       /\ \A j \in 1 .. Len(s) - i + 1 : w[j] = s[i + j - 1]
  BY <1>1, <1>10, FromPlace
<1>12. u \o v = w
  <2>1. /\ u \o v \in Seq(Bytes) /\ Len(u \o v) = Len(u) + Len(v)
        /\ \A j \in 1 .. Len(u) + Len(v) :
             (u \o v)[j] = IF j <= Len(u) THEN u[j] ELSE v[j - Len(u)]
    BY <1>5, <1>9, ConcatProperties
  <2>2. Len(u) + Len(v) = Len(s) - i + 1
    BY <1>1, <1>5, <1>9
  <2>3. ASSUME NEW j \in 1 .. Len(s) - i + 1 PROVE (u \o v)[j] = w[j]
    <3>1. CASE j <= m - i + 1
      BY <1>1, <1>5, <1>7, <1>11, <2>1, <2>2, <3>1
    <3>2. CASE ~ (j <= m - i + 1)
      <4>1. /\ j - Len(u) \in 1 .. Len(s) - (m + 1) + 1
            /\ (m + 1) + (j - Len(u)) - 1 = i + j - 1 /\ ~ (j <= Len(u))
        BY <1>1, <1>5, <3>2
      <4>2. (u \o v)[j] = v[j - Len(u)]
        BY <2>1, <2>2, <4>1
      <4>3. v[j - Len(u)] = s[i + j - 1]
        BY <1>9, <4>1
      <4> QED
        BY <1>11, <4>2, <4>3
    <3> QED
      BY <3>1, <3>2
  <2> QED
    BY <1>11, <2>1, <2>2, <2>3, SeqEqual
<1>13. UpTo(t, i - 1) = UpTo(s, i - 1)
  <2>1. PICK x : x = UpTo(t, i - 1)
    OBVIOUS
  <2>2. PICK y : y = UpTo(s, i - 1)
    OBVIOUS
  <2>3. x \in Seq(Bytes) /\ Len(x) = i - 1 /\ \A j \in 1 .. i - 1 : x[j] = t[j]
    BY <1>1, <1>3, <2>1, UpToPlace
  <2>4. y \in Seq(Bytes) /\ Len(y) = i - 1 /\ \A j \in 1 .. i - 1 : y[j] = s[j]
    BY <1>1, <2>2, UpToPlace
  <2>5. \A j \in 1 .. i - 1 : x[j] = y[j]
    BY <1>1, <1>3, <2>3, <2>4
  <2> QED
    BY <2>1, <2>2, <2>3, <2>4, <2>5, SeqEqual
<1> QED
  BY <1>2, <1>4, <1>5, <1>7, <1>8, <1>10, <1>12, <1>13

LEMMA CutOfJoin ==
  ASSUME NEW l \in Seq(Bytes), NEW d \in Seq(Bytes), NEW i \in 1 .. Len(l) + 1
  PROVE  /\ From(l \o d, i) = From(l, i) \o d
         /\ UpTo(l \o d, i - 1) = UpTo(l, i - 1)
<1>1. PICK s : s = l \o d
  OBVIOUS
<1>2. /\ s \in Seq(Bytes) /\ Len(s) = Len(l) + Len(d) /\ Len(l) \in Nat /\ Len(d) \in Nat
      /\ \A j \in 1 .. Len(l) : s[j] = l[j]
      /\ \A j \in 1 .. Len(d) : s[Len(l) + j] = d[j]
  BY <1>1, JoinedText
<1>3. /\ Len(l) \in 0 .. Len(s) /\ i \in 1 .. Len(l) + 1
      /\ Len(l) + 1 \in 1 .. Len(s) + 1
  BY <1>2
<1>4. UpTo(s, Len(l)) = l
  <2>1. PICK x : x = UpTo(s, Len(l))
    OBVIOUS
  <2>2. x \in Seq(Bytes) /\ Len(x) = Len(l) /\ \A j \in 1 .. Len(l) : x[j] = s[j]
    BY <1>2, <1>3, <2>1, UpToPlace
  <2>3. \A j \in 1 .. Len(l) : x[j] = l[j]
    BY <1>2, <2>2
  <2> QED
    BY <2>1, <2>2, <2>3, SeqEqual
<1>5. From(s, Len(l) + 1) = d
  <2>1. PICK x : x = From(s, Len(l) + 1)
    OBVIOUS
  <2>2. /\ x \in Seq(Bytes) /\ Len(x) = Len(s) - (Len(l) + 1) + 1
        /\ \A j \in 1 .. Len(s) - (Len(l) + 1) + 1 : x[j] = s[(Len(l) + 1) + j - 1]
    BY <1>2, <1>3, <2>1, FromPlace, ZenonT(30)
  <2>3. Len(x) = Len(d)
    BY <1>2, <2>2
  <2>4. \A j \in 1 .. Len(d) : x[j] = d[j]
    <3>1. \A j \in 1 .. Len(d) : /\ (Len(l) + 1) + j - 1 = Len(l) + j
                                 /\ j \in 1 .. Len(s) - (Len(l) + 1) + 1
      BY <1>2
    <3> QED
      BY <1>2, <2>2, <3>1
  <2> QED
    BY <2>1, <2>2, <2>3, <2>4, SeqEqual
<1>6. /\ From(UpTo(s, Len(l)), i) \o From(s, Len(l) + 1) = From(s, i)
      /\ UpTo(UpTo(s, Len(l)), i - 1) = UpTo(s, i - 1)
  <2>1. PICK m : m = Len(l)
    OBVIOUS
  <2>2. m \in 0 .. Len(s) /\ i \in 1 .. m + 1
    BY <1>3, <2>1
  <2>3. /\ From(UpTo(s, m), i) \o From(s, m + 1) = From(s, i)
        /\ UpTo(UpTo(s, m), i - 1) = UpTo(s, i - 1)
    BY <1>2, <2>2, CutOfCut
  <2> QED
    BY <2>1, <2>3
<1> QED
  BY <1>1, <1>4, <1>5, <1>6

(* What has been read, what is held back and what has not been read.       *)
LEMMA HeldAndUnread ==
  ASSUME NEW p \in Seq(Bytes), NEW t \in Seq(Bytes), NEW k \in 0 .. Len(t)
  PROVE  /\ p \o t \in Seq(Bytes) /\ Len(p) + k \in 0 .. Len(p \o t)
         /\ p \o UpTo(t, k) = UpTo(p \o t, Len(p) + k)
         /\ From(t, k + 1) = From(p \o t, Len(p) + k + 1)
         /\ From(t, k + 1) \in Seq(Bytes)
<1>1. PICK u : u = p \o t
  OBVIOUS
<1>2. /\ u \in Seq(Bytes) /\ Len(u) = Len(p) + Len(t) /\ Len(p) \in Nat /\ Len(t) \in Nat
      /\ \A j \in 1 .. Len(p) : u[j] = p[j]
      /\ \A j \in 1 .. Len(t) : u[Len(p) + j] = t[j]
  BY <1>1, JoinedText
<1>3. PICK m : m = Len(p) + k
  OBVIOUS
<1>4. m \in 0 .. Len(u) /\ m + 1 \in 1 .. Len(u) + 1 /\ k + 1 \in 1 .. Len(t) + 1
  BY <1>2, <1>3
<1>5. PICK x : x = UpTo(t, k)
  OBVIOUS
<1>6. x \in Seq(Bytes) /\ Len(x) = k /\ \A j \in 1 .. k : x[j] = t[j]
  BY <1>5, UpToPlace
<1>7. p \o x = UpTo(u, m)
  <2>1. /\ p \o x \in Seq(Bytes) /\ Len(p \o x) = Len(p) + Len(x)
        /\ \A j \in 1 .. Len(p) : (p \o x)[j] = p[j]
        /\ \A j \in 1 .. Len(x) : (p \o x)[Len(p) + j] = x[j]
    <3>1. x \in Seq(Bytes)
      BY <1>6
    <3> QED
      BY <3>1, JoinedText
  <2>2. PICK y : y = UpTo(u, m)
    OBVIOUS
  <2>3. y \in Seq(Bytes) /\ Len(y) = m /\ \A j \in 1 .. m : y[j] = u[j]
    BY <1>2, <1>4, <2>2, UpToPlace
  <2>4. PICK z : z = p \o x
    OBVIOUS
  <2>5. ASSUME NEW j \in 1 .. m PROVE z[j] = y[j]
    <3>1. CASE j <= Len(p)
      BY <1>2, <1>3, <2>1, <2>3, <2>4, <3>1
    <3>2. CASE ~ (j <= Len(p))
      <4>1. PICK h : h = j - Len(p)
        OBVIOUS
      <4>2. h \in 1 .. k /\ h \in 1 .. Len(t) /\ Len(p) + h = j
        BY <1>2, <1>3, <3>2, <4>1
      <4>3. z[j] = x[h] /\ u[j] = t[h] /\ x[h] = t[h]
        BY <1>2, <1>6, <2>1, <2>4, <4>2
      <4> QED
        BY <2>3, <4>3
    <3> QED
      BY <3>1, <3>2
  <2>6. Len(z) = m /\ z \in Seq(Bytes)
    BY <1>2, <1>3, <1>6, <2>1, <2>4
  <2> QED
    BY <2>2, <2>3, <2>4, <2>5, <2>6, SeqEqual
<1>8. From(t, k + 1) = From(u, m + 1)
  <2>1. PICK y : y = From(t, k + 1)
    OBVIOUS
  <2>2. PICK z : z = From(u, m + 1)
    OBVIOUS
  <2>3. /\ y \in Seq(Bytes) /\ Len(y) = Len(t) - (k + 1) + 1
        /\ \A j \in 1 .. Len(t) - (k + 1) + 1 : y[j] = t[(k + 1) + j - 1]
    BY <1>4, <2>1, FromPlace
  <2>4. /\ z \in Seq(Bytes) /\ Len(z) = Len(u) - (m + 1) + 1
        /\ \A j \in 1 .. Len(u) - (m + 1) + 1 : z[j] = u[(m + 1) + j - 1]
    BY <1>2, <1>4, <2>2, FromPlace, ZenonT(30)
  <2>5. Len(u) - (m + 1) + 1 = Len(t) - (k + 1) + 1
    BY <1>2, <1>3
  <2>6. ASSUME NEW j \in 1 .. Len(t) - (k + 1) + 1 PROVE y[j] = z[j]
    <3>1. PICK h : h = (k + 1) + j - 1
      OBVIOUS
    <3>2. h \in 1 .. Len(t) /\ Len(p) + h = (m + 1) + j - 1
      BY <1>2, <1>3, <3>1
    <3> QED
      BY <1>2, <2>3, <2>4, <2>5, <3>1, <3>2
  <2> QED
    BY <2>1, <2>2, <2>3, <2>4, <2>5, <2>6, SeqEqual
<1>9. From(t, k + 1) \in Seq(Bytes)
  BY <1>4, FromPlace
<1> QED
  BY <1>1, <1>2, <1>3, <1>4, <1>5, <1>7, <1>8, <1>9

-----------------------------------------------------------------------------
(* What the VM sends on leads the host further.                            *)
LEMMA TextOn ==
  ASSUME NEW a, NEW q \in Seq(Frames), NEW b \in Views, NEW t \in Seq(Bytes),
         Leads(a, q, b), b.phase = "before", \A i \in 1 .. Len(t) : t[i] \in Plain
  PROVE  /\ q \o Emit("AT_RESPONSE", t) \in Seq(Frames)
         /\ \E c \in Views :
              /\ Leads(a, q \o Emit("AT_RESPONSE", t), c)
              /\ c.phase = "before" /\ c.data = b.data /\ c.ends = b.ends + Ends(t)
              /\ t = <<>> => c.open = b.open
              /\ t # <<>> => c.open = (t[Len(t)] # "LF")
<1>1. Ends(t) \in Nat /\ b.ends \in Nat
  BY EndsFinite DEF Views
<1>2. CASE t = <<>>
  <2>1. q \o Emit("AT_RESPONSE", t) = q
    BY <1>2, ConcatEmptySeq DEF Emit
  <2>2. b.ends = b.ends + Ends(t)
    BY <1>1, <1>2, EndsOfNothing
  <2> QED
    BY <1>2, <2>1, <2>2
<1>3. CASE t # <<>>
  <2>1. PICK f : f = [type |-> "AT_RESPONSE", payload |-> t]
    OBVIOUS
  <2>2. f \in Frames /\ f.type = "AT_RESPONSE" /\ f.payload = t
    BY <2>1 DEF Frames
  <2>3. q \o Emit("AT_RESPONSE", t) = Append(q, f)
    BY <1>3, <2>1, <2>2, AppendIsConcat DEF Emit
  <2>4. Append(q, f) \in Seq(Frames)
    BY <2>2, AppendProperties
  <2>5. PICK c : c = [b EXCEPT !.open = (t[Len(t)] # "LF"), !.ends = @ + Ends(t)]
    OBVIOUS
  <2>6. /\ c \in Views /\ c.phase = "before" /\ c.data = b.data
        /\ c.ends = b.ends + Ends(t) /\ c.open = (t[Len(t)] # "LF")
    <3>1. /\ b.open \in BOOLEAN /\ b.bps \in Nat /\ b.ends \in Nat /\ b.data \in Seq(Bytes)
          /\ b.ends + Ends(t) \in Nat
      BY <1>1 DEF Views
    <3>2. PICK o \in BOOLEAN : o = (t[Len(t)] # "LF")
      OBVIOUS
    <3>3. c = [b EXCEPT !.open = o, !.ends = b.ends + Ends(t)]
      BY <2>5, <3>2
    <3>4. /\ c \in Views /\ c.phase = "before" /\ c.data = b.data
          /\ c.ends = b.ends + Ends(t) /\ c.open = o
      BY <3>1, <3>3 DEF Views
    <3> QED
      BY <3>2, <3>4
  <2>7. Passes(b, f, c)
    BY <1>3, <2>2, <2>5 DEF Passes, TextPasses
  <2>8. Leads(a, Append(q, f), c)
    BY <2>2, <2>6, <2>7, LeadsOn
  <2> QED
    BY <1>3, <2>3, <2>4, <2>6, <2>8
<1> QED
  BY <1>2, <1>3

DataGoes(a, q, b, t, c) ==
  /\ Leads(a, q \o Emit("DATA_RX", t), c)
  /\ c.phase = "online" /\ c.bps = b.bps /\ c.ends = b.ends
  /\ c.data = b.data \o t

LEMMA DataOn ==
  ASSUME NEW a, NEW q \in Seq(Frames), NEW b \in Views, NEW t \in Seq(Bytes),
         Leads(a, q, b), b.phase = "online"
  PROVE  /\ q \o Emit("DATA_RX", t) \in Seq(Frames)
         /\ \E c \in Views : DataGoes(a, q, b, t, c)
<1>1. b.data \in Seq(Bytes)
  BY DEF Views
<1>2. CASE t = <<>>
  <2>1. q \o Emit("DATA_RX", t) = q
    BY <1>2, ConcatEmptySeq DEF Emit
  <2>2. b.data = b.data \o t
    BY <1>1, <1>2, ConcatEmptySeq
  <2> QED
    BY <2>1, <2>2 DEF DataGoes
<1>3. CASE t # <<>>
  <2>1. PICK f : f = [type |-> "DATA_RX", payload |-> t]
    OBVIOUS
  <2>2. f \in Frames /\ f.type = "DATA_RX" /\ f.payload = t
    BY <2>1 DEF Frames
  <2>3. q \o Emit("DATA_RX", t) = Append(q, f)
    BY <1>3, <2>1, <2>2, AppendIsConcat DEF Emit
  <2>4. Append(q, f) \in Seq(Frames)
    BY <2>2, AppendProperties
  <2>5. PICK c : c = [b EXCEPT !.data = @ \o t]
    OBVIOUS
  <2>6. b.data \o t \in Seq(Bytes)
    BY <1>1, ConcatProperties
  <2>7. /\ c \in Views /\ c.phase = "online" /\ c.bps = b.bps /\ c.ends = b.ends
        /\ c.data = b.data \o t
    BY <2>5, <2>6 DEF Views
  <2>8. Passes(b, f, c)
    BY <2>2, <2>5 DEF Passes, DataPasses
  <2>9. Leads(a, Append(q, f), c)
    BY <2>2, <2>7, <2>8, LeadsOn
  <2> QED
    BY <2>3, <2>4, <2>7, <2>9 DEF DataGoes
<1> QED
  BY <1>2, <1>3

ConnectGoes(a, q, b, c) ==
  Leads(a, q \o Status("connect", b.bps), c) /\ c = [b EXCEPT !.phase = "online"]

LEMMA StatusOn ==
  ASSUME NEW a, NEW q \in Seq(Frames), NEW b \in Views, Leads(a, q, b)
  PROVE  /\ b.phase \in {"before", "after"} =>
              /\ q \o Status("nocarrier", 0) \in Seq(Frames)
              /\ Leads(a, q \o Status("nocarrier", 0), b)
         /\ b.phase = "line" =>
              /\ q \o Status("connect", b.bps) \in Seq(Frames)
              /\ \E c \in Views : ConnectGoes(a, q, b, c)
<1>1. ASSUME NEW e \in {"connect", "nocarrier"}, NEW n \in Nat, NEW c \in Views,
             \A f : (f.type = "MODEM_STATUS" /\ f.payload = <<e, n>>) => Passes(b, f, c)
      PROVE  q \o Status(e, n) \in Seq(Frames) /\ Leads(a, q \o Status(e, n), c)
  <2>1. PICK f : f = [type |-> "MODEM_STATUS", payload |-> <<e, n>>]
    OBVIOUS
  <2>2. f.type = "MODEM_STATUS" /\ f.payload = <<e, n>>
    BY <2>1
  <2>3. f \in Frames
    BY <2>1 DEF Frames
  <2>4. q \o Status(e, n) = Append(q, f)
    BY <2>1, <2>3, AppendIsConcat DEF Status
  <2>5. Passes(b, f, c)
    BY <1>1, <2>2
  <2> QED
    BY <2>3, <2>4, <2>5, LeadsOn, AppendProperties
<1>2. CASE b.phase \in {"before", "after"}
  <2>1. \A f : (f.type = "MODEM_STATUS" /\ f.payload = <<"nocarrier", 0>>) => Passes(b, f, b)
    BY <1>2 DEF Passes, EndPasses
  <2> QED
    BY <1>1, <1>2, <2>1
<1>3. CASE b.phase = "line"
  <2>1. PICK c : c = [b EXCEPT !.phase = "online"]
    OBVIOUS
  <2>2. c \in Views /\ b.bps \in Nat
    BY <2>1 DEF Views
  <2>3. \A f : (f.type = "MODEM_STATUS" /\ f.payload = <<"connect", b.bps>>) => Passes(b, f, c)
    BY <1>3, <2>1 DEF Passes, ConnectPasses
  <2> QED
    BY <1>1, <1>3, <2>1, <2>2, <2>3 DEF ConnectGoes
<1> QED
  BY <1>2, <1>3

LineGoes(a, q, b, t, n, c) ==
  /\ Leads(a, q \o Emit("AT_RESPONSE", t), c)
  /\ c.phase = "line" /\ c.bps = n /\ c.data = b.data
  /\ c.ends = b.ends + Ends(t)

LEMMA LineOn ==
  ASSUME NEW a, NEW q \in Seq(Frames), NEW b \in Views, NEW t \in Seq(Bytes), NEW i, NEW n,
         Leads(a, q, b), b.phase = "before", ConnectLine(t, i, n), i = 1 => ~b.open
  PROVE  /\ q \o Emit("AT_RESPONSE", t) \in Seq(Frames)
         /\ \E c \in Views : LineGoes(a, q, b, t, n, c)
<1>1. Ends(t) \in Nat /\ b.ends \in Nat /\ t # <<>> /\ n \in Nat
  BY EndsFinite, EmptySeq DEF Views, ConnectLine, Rates
<1>2. PICK f : f = [type |-> "AT_RESPONSE", payload |-> t]
  OBVIOUS
<1>3. f \in Frames /\ f.type = "AT_RESPONSE" /\ f.payload = t
  BY <1>2 DEF Frames
<1>4. q \o Emit("AT_RESPONSE", t) = Append(q, f)
  BY <1>1, <1>2, <1>3, AppendIsConcat DEF Emit
<1>5. Append(q, f) \in Seq(Frames)
  BY <1>3, AppendProperties
<1>6. PICK c : c = [b EXCEPT !.phase = "line", !.open = FALSE, !.bps = n,
                             !.ends = @ + Ends(t)]
  OBVIOUS
<1>7. /\ c \in Views /\ c.phase = "line" /\ c.bps = n /\ c.data = b.data
      /\ c.ends = b.ends + Ends(t)
  <2>1. /\ b.open \in BOOLEAN /\ b.bps \in Nat /\ b.ends \in Nat /\ b.data \in Seq(Bytes)
        /\ b.ends + Ends(t) \in Nat /\ n \in Nat
    BY <1>1 DEF Views
  <2>2. c = [b EXCEPT !.phase = "line", !.open = FALSE, !.bps = n, !.ends = b.ends + Ends(t)]
    BY <1>6
  <2> QED
    BY <2>1, <2>2 DEF Views
<1>8. LinePasses(b, f, c)
  BY <1>3, <1>6, <1>7 DEF LinePasses
<1>9. Leads(a, Append(q, f), c)
  BY <1>3, <1>7, <1>8, LeadsOn DEF Passes
<1> QED
  BY <1>4, <1>5, <1>7, <1>9 DEF LineGoes

DropGoes(a, q, b, c) ==
  /\ Leads(a, q \o Emit("AT_RESPONSE", NoCarrier \o Crlf), c)
  /\ c.phase = "after" /\ c.data = b.data /\ c.ends = b.ends + 1

LEMMA DropOn ==
  ASSUME NEW a, NEW q \in Seq(Frames), NEW b \in Views, Leads(a, q, b), b.phase = "online"
  PROVE  /\ q \o Emit("AT_RESPONSE", NoCarrier \o Crlf) \in Seq(Frames)
         /\ \E c \in Views : DropGoes(a, q, b, c)
<1>1. PICK t \in Seq(Bytes) : t = NoCarrier \o Crlf /\ t # <<>>
  <2>1. NoCarrier \o Crlf \in Seq(Bytes) /\ NoCarrier \o Crlf # <<>>
    BY Words, ConcatProperties, ConcatEqualIffEmpty, EmptySeq
  <2> QED
    BY <2>1
<1>2. PICK f : f = [type |-> "AT_RESPONSE", payload |-> t]
  OBVIOUS
<1>3. f \in Frames /\ f.type = "AT_RESPONSE" /\ f.payload = t
  BY <1>2 DEF Frames
<1>4. q \o Emit("AT_RESPONSE", t) = Append(q, f)
  BY <1>1, <1>2, <1>3, AppendIsConcat DEF Emit
<1>5. Append(q, f) \in Seq(Frames)
  BY <1>3, AppendProperties
<1>6. PICK c : c = [b EXCEPT !.phase = "after", !.ends = @ + 1]
  OBVIOUS
<1>7. /\ c \in Views /\ c.phase = "after" /\ c.data = b.data /\ c.ends = b.ends + 1
  <2>1. /\ b.open \in BOOLEAN /\ b.bps \in Nat /\ b.ends \in Nat /\ b.data \in Seq(Bytes)
        /\ b.ends + 1 \in Nat
    BY DEF Views
  <2>2. c = [b EXCEPT !.phase = "after", !.ends = b.ends + 1]
    BY <1>6
  <2> QED
    BY <2>1, <2>2 DEF Views
<1>8. Passes(b, f, c)
  BY <1>1, <1>3, <1>6 DEF Passes, DropPasses
<1>9. Leads(a, Append(q, f), c)
  BY <1>3, <1>7, <1>8, LeadsOn
<1> QED
  BY <1>1, <1>4, <1>5, <1>7, <1>9 DEF DropGoes

-----------------------------------------------------------------------------
(* What the VM has not sent on, u: what it holds back and what the modem   *)
(* wrote after that, where b is what the host will know by then.           *)
Coded == {"RING", "BUSY", "CR", "LF"}

Waiting(b, u) ==
  /\ b.phase = "before" /\ b.data = <<>>
  /\ \A i \in 1 .. Len(u) : u[i] \in Coded
  /\ u = <<>> => ~b.open
  /\ u # <<>> => u[Len(u)] = "LF"

Connecting(b, u, n, d) ==
  /\ b.phase = "before" /\ b.data = <<>>
  /\ \E l \in Seq(Bytes), c \in Nat :
       /\ ConnectLine(l, c, n) /\ \A i \in 1 .. c - 1 : l[i] \in Coded
       /\ c = 1 => ~b.open
       /\ u = l \o d

Failing(b, u) ==
  /\ b.phase = "before" /\ b.data = <<>>
  /\ \/ u = <<>>
     \/ \E t \in Seq(Bytes) : /\ \A i \in 1 .. Len(t) : t[i] \in Coded
                              /\ u = t \o (NoCarrier \o Crlf)

Carrying(b, u, n, d) ==
  b.phase = "online" /\ b.bps = n /\ b.data \o u = d

Ending(b, u, n, d) ==
  /\ b.phase = "online" /\ b.bps = n
  /\ \E t \in Seq(Bytes) : u = t \o (NoCarrier \o Crlf) /\ b.data \o t = d

Ended(b, u, d) == b.phase = "after" /\ u = <<>> /\ b.data = d

(* What is held back is part of a keyword's line.                          *)
Short(p) == p \in Seq(Bytes) /\ Len(p) <= 4 /\ \A i \in 1 .. Len(p) : p[i] # "LF"

(* The VM has read m bytes of u, and r is what it made of them.            *)
SentOn(a, q, b, u, m, r, c, v) ==
  /\ q \o r.frames \in Seq(Frames) /\ Leads(a, q \o r.frames, c)
  /\ Short(r.pending) /\ v = r.pending \o From(u, m + 1)
  /\ c.ends + Ends(v) <= b.ends + Ends(u)

HeldText(a, q, b, u, m, i, r, c) ==
  /\ SentOn(a, q, b, u, m, r, c, From(u, i))
  /\ c.phase = "before" /\ c.data = b.data
  /\ i = 1 => c.open = b.open
  /\ i > 1 => c.open = (u[i - 1] # "LF")

HeldData(a, q, b, u, m, i, r, c) ==
  /\ SentOn(a, q, b, u, m, r, c, From(u, i))
  /\ c.phase = "online" /\ c.bps = b.bps /\ c.data = b.data \o UpTo(u, i - 1)

(* Text and call data that are sent on, up to what is held back.           *)
LEMMA HeldTextOn ==
  ASSUME NEW a, NEW q \in Seq(Frames), NEW b \in Views, NEW u \in Seq(Bytes),
         NEW m \in 0 .. Len(u), NEW i \in 1 .. m + 1, NEW r,
         Leads(a, q, b), b.phase = "before",
         HoldsFrom(r, UpTo(u, m), i, "AT_RESPONSE", FALSE),
         \A j \in 1 .. i - 1 : u[j] \in Plain,
         \A j \in i .. m : u[j] # "LF", m - i + 1 <= 4
  PROVE  \E c \in Views : HeldText(a, q, b, u, m, i, r, c)
<1>1. /\ Len(u) \in Nat /\ i - 1 \in 0 .. Len(u) /\ i \in 1 .. Len(u) + 1 /\ m \in Nat
  BY LenProperties
<1>2. /\ From(UpTo(u, m), i) \o From(u, m + 1) = From(u, i)
      /\ UpTo(UpTo(u, m), i - 1) = UpTo(u, i - 1)
      /\ From(UpTo(u, m), i) \in Seq(Bytes)
      /\ Len(From(UpTo(u, m), i)) = m - i + 1
      /\ \A j \in 1 .. m - i + 1 : From(UpTo(u, m), i)[j] = u[i + j - 1]
  BY CutOfCut
<1>3. PICK t : t = UpTo(u, i - 1)
  OBVIOUS
<1>4. t \in Seq(Bytes) /\ Len(t) = i - 1 /\ \A j \in 1 .. i - 1 : t[j] = u[j]
  BY <1>1, <1>3, UpToPlace
<1>5. r.frames = Emit("AT_RESPONSE", t) /\ r.pending = From(UpTo(u, m), i)
  BY <1>2, <1>3 DEF HoldsFrom
<1>6. Short(r.pending)
  <2>1. \A j \in 1 .. m - i + 1 : i + j - 1 \in i .. m
    BY <1>1
  <2> QED
    BY <1>2, <1>5, <2>1 DEF Short
<1>7. From(u, i) = r.pending \o From(u, m + 1)
  BY <1>2, <1>5
<1>8. \A j \in 1 .. Len(t) : t[j] \in Plain
  BY <1>4
<1>9. PICK c \in Views :
        /\ Leads(a, q \o Emit("AT_RESPONSE", t), c)
        /\ c.phase = "before" /\ c.data = b.data /\ c.ends = b.ends + Ends(t)
        /\ t = <<>> => c.open = b.open
        /\ t # <<>> => c.open = (t[Len(t)] # "LF")
  BY <1>4, <1>8, TextOn, SMTT(30)
<1>10. q \o Emit("AT_RESPONSE", t) \in Seq(Frames)
  BY <1>4, <1>8, TextOn
<1>11. c.ends + Ends(From(u, i)) <= b.ends + Ends(u)
  <2>1. Ends(u) = Ends(t) + Ends(From(u, i))
    BY <1>1, <1>3, EndsOfCut
  <2>2. From(u, i) \in Seq(Bytes)
    BY <1>1, FromPlace
  <2>3. Ends(t) \in Nat /\ Ends(From(u, i)) \in Nat /\ b.ends \in Nat
    BY <1>4, <2>2, EndsFinite DEF Views
  <2> QED
    BY <1>9, <2>1, <2>3
<1>12. i = 1 => c.open = b.open
  BY <1>4, <1>9, EmptySeq
<1>13. i > 1 => c.open = (u[i - 1] # "LF")
  <2> SUFFICES ASSUME i > 1 PROVE c.open = (u[i - 1] # "LF")
    OBVIOUS
  <2>1. i - 1 \in 1 .. i - 1 /\ Len(t) = i - 1 /\ t # <<>>
    BY <1>1, <1>4, EmptySeq
  <2>2. t[Len(t)] = u[i - 1]
    BY <1>4, <2>1
  <2> QED
    BY <1>9, <2>1, <2>2
<1>14. SentOn(a, q, b, u, m, r, c, From(u, i))
  BY <1>5, <1>6, <1>7, <1>9, <1>10, <1>11 DEF SentOn
<1> QED
  BY <1>9, <1>12, <1>13, <1>14 DEF HeldText

LEMMA HeldDataOn ==
  ASSUME NEW a, NEW q \in Seq(Frames), NEW b \in Views, NEW u \in Seq(Bytes),
         NEW m \in 0 .. Len(u), NEW i \in 1 .. m + 1, NEW r,
         Leads(a, q, b), b.phase = "online",
         HoldsFrom(r, UpTo(u, m), i, "DATA_RX", TRUE),
         \A j \in i .. m : u[j] # "LF", m - i + 1 <= 4
  PROVE  \E c \in Views : HeldData(a, q, b, u, m, i, r, c)
<1>1. /\ Len(u) \in Nat /\ i - 1 \in 0 .. Len(u) /\ i \in 1 .. Len(u) + 1 /\ m \in Nat
  BY LenProperties
<1>2. /\ From(UpTo(u, m), i) \o From(u, m + 1) = From(u, i)
      /\ UpTo(UpTo(u, m), i - 1) = UpTo(u, i - 1)
      /\ From(UpTo(u, m), i) \in Seq(Bytes)
      /\ Len(From(UpTo(u, m), i)) = m - i + 1
      /\ \A j \in 1 .. m - i + 1 : From(UpTo(u, m), i)[j] = u[i + j - 1]
  BY CutOfCut
<1>3. PICK t : t = UpTo(u, i - 1)
  OBVIOUS
<1>4. t \in Seq(Bytes)
  BY <1>1, <1>3, UpToPlace
<1>5. r.frames = Emit("DATA_RX", t) /\ r.pending = From(UpTo(u, m), i)
  BY <1>2, <1>3 DEF HoldsFrom
<1>6. Short(r.pending)
  <2>1. \A j \in 1 .. m - i + 1 : i + j - 1 \in i .. m
    BY <1>1
  <2> QED
    BY <1>2, <1>5, <2>1 DEF Short
<1>7. From(u, i) = r.pending \o From(u, m + 1)
  BY <1>2, <1>5
<1>8. PICK c \in Views : DataGoes(a, q, b, t, c)
  BY <1>4, DataOn
<1>9. /\ Leads(a, q \o Emit("DATA_RX", t), c)
      /\ c.phase = "online" /\ c.bps = b.bps /\ c.ends = b.ends
      /\ c.data = b.data \o t
  BY <1>8 DEF DataGoes
<1>10. q \o Emit("DATA_RX", t) \in Seq(Frames)
  BY <1>4, DataOn
<1>11. c.ends + Ends(From(u, i)) <= b.ends + Ends(u)
  <2>1. Ends(u) = Ends(t) + Ends(From(u, i))
    BY <1>1, <1>3, EndsOfCut
  <2>2. From(u, i) \in Seq(Bytes)
    BY <1>1, FromPlace
  <2>3. Ends(t) \in Nat /\ Ends(From(u, i)) \in Nat /\ b.ends \in Nat
    BY <1>4, <2>2, EndsFinite DEF Views
  <2> QED
    BY <1>9, <2>1, <2>3
<1>12. SentOn(a, q, b, u, m, r, c, From(u, i))
  BY <1>5, <1>6, <1>7, <1>9, <1>10, <1>11 DEF SentOn
<1> QED
  BY <1>3, <1>9, <1>12 DEF HeldData

(* Before the modem has connected.                                         *)
LEMMA WaitingRead ==
  ASSUME NEW a, NEW q \in Seq(Frames), NEW b \in Views, NEW u \in Seq(Bytes),
         NEW m \in 1 .. Len(u), Leads(a, q, b), Waiting(b, u)
  PROVE  LET r == CommandBytes(UpTo(u, m))
             v == r.pending \o From(u, m + 1)
         IN r.mode = FALSE /\ \E c \in Views : SentOn(a, q, b, u, m, r, c, v) /\ Waiting(c, v)
<1>1. /\ Len(u) \in Nat /\ m \in 0 .. Len(u) /\ m + 1 \in 1 .. m + 1 /\ m + 1 > 1
      /\ m + 1 \in 1 .. Len(u) + 1 /\ m - (m + 1) + 1 <= 4 /\ m + 1 # 1
      /\ (m + 1) - 1 = m
  BY LenProperties
<1>2. PICK s : s = UpTo(u, m)
  OBVIOUS
<1>3. s \in Seq(Bytes) /\ Len(s) = m /\ \A j \in 1 .. m : s[j] = u[j]
  BY <1>1, <1>2, UpToPlace
<1>4. \A j \in 1 .. m : j \in 1 .. Len(u) /\ u[j] \in Coded
  BY <1>1 DEF Waiting
<1>5. s # <<>> /\ \A j \in 1 .. Len(s) : s[j] \notin {"NO", "CON"}
  BY <1>1, <1>3, <1>4, EmptySeq, SMTT(30) DEF Coded
<1>6. PICK r : r = CommandBytes(s)
  OBVIOUS
<1>7. HoldsFrom(r, s, m + 1, "AT_RESPONSE", FALSE)
  BY <1>3, <1>5, <1>6, CommandNoKeyword
<1>8. \A j \in 1 .. (m + 1) - 1 : u[j] \in Plain
  BY <1>1, <1>4 DEF Coded, Plain
<1>9. PICK i : i = m + 1
  OBVIOUS
<1>10. /\ i \in 1 .. m + 1 /\ m - i + 1 <= 4 /\ \A j \in i .. m : u[j] # "LF"
      /\ \A j \in 1 .. i - 1 : u[j] \in Plain
  BY <1>1, <1>8, <1>9
<1>11. HoldsFrom(r, UpTo(u, m), i, "AT_RESPONSE", FALSE) /\ b.phase = "before"
  BY <1>2, <1>7, <1>9 DEF Waiting
<1>12. PICK c \in Views : HeldText(a, q, b, u, m, i, r, c)
  BY <1>1, <1>10, <1>11, HeldTextOn
<1>13. /\ SentOn(a, q, b, u, m, r, c, From(u, m + 1))
      /\ c.phase = "before" /\ c.data = b.data
      /\ c.open = (u[m] # "LF")
  BY <1>1, <1>9, <1>12 DEF HeldText
<1>14. PICK v : v = From(u, m + 1)
  OBVIOUS
<1>15. /\ v \in Seq(Bytes) /\ Len(v) = Len(u) - (m + 1) + 1
       /\ \A j \in 1 .. Len(u) - (m + 1) + 1 : v[j] = u[(m + 1) + j - 1]
  BY <1>1, <1>14, FromPlace
<1>16. v = r.pending \o From(u, m + 1)
  BY <1>13, <1>14 DEF SentOn
<1>17. Waiting(c, v)
  <2>1. \A j \in 1 .. Len(v) : (m + 1) + j - 1 \in 1 .. Len(u)
    BY <1>1, <1>15
  <2>2. \A j \in 1 .. Len(v) : v[j] \in Coded
    BY <1>15, <2>1 DEF Waiting
  <2>3. u # <<>> /\ u[Len(u)] = "LF"
    BY <1>1, EmptySeq DEF Waiting
  <2>4. v = <<>> => ~c.open
    <3>1. v = <<>> => m = Len(u)
      BY <1>1, <1>15, EmptySeq
    <3> QED
      BY <1>1, <1>13, <2>3, <3>1
  <2>5. v # <<>> => v[Len(v)] = "LF"
    <3>1. v # <<>> => /\ Len(v) \in 1 .. Len(u) - (m + 1) + 1
                      /\ (m + 1) + Len(v) - 1 = Len(u)
      BY <1>1, <1>15, EmptySeq
    <3> QED
      BY <1>15, <2>3, <3>1
  <2>6. c.phase = "before" /\ c.data = <<>>
    BY <1>13 DEF Waiting
  <2> QED
    BY <2>2, <2>4, <2>5, <2>6 DEF Waiting
<1>18. r.mode = FALSE
  BY <1>7 DEF HoldsFrom
<1> QED
  BY <1>2, <1>6, <1>13, <1>14, <1>16, <1>17, <1>18

(* With a CONNECT written: cut before the line, within it, or after it.    *)
LEMMA ConnectingHeld ==
  ASSUME NEW a, NEW q \in Seq(Frames), NEW b \in Views, NEW l \in Seq(Bytes),
         NEW d \in Seq(Bytes), NEW c \in Nat, NEW n, NEW u \in Seq(Bytes),
         NEW m \in 1 .. Len(u), NEW i \in 1 .. m + 1, NEW r,
         Leads(a, q, b), b.phase = "before", b.data = <<>>, u = l \o d,
         ConnectLine(l, c, n), \A j \in 1 .. c - 1 : l[j] \in Coded,
         c = 1 => ~b.open, i <= c, i = 1 => i = c,
         HoldsFrom(r, UpTo(u, m), i, "AT_RESPONSE", FALSE),
         \A j \in i .. m : u[j] # "LF", m - i + 1 <= 4
  PROVE  \E k \in Views :
           SentOn(a, q, b, u, m, r, k, From(u, i)) /\ Connecting(k, From(u, i), n, d)
<1>1. /\ Len(u) \in Nat /\ Len(l) \in Nat /\ m \in Nat /\ i \in Nat /\ m \in 0 .. Len(u)
      /\ c \in 1 .. Len(l) /\ i \in 1 .. Len(l) + 1 /\ i \in 1 .. c
  BY LenProperties DEF ConnectLine
<1>2. \A j \in 1 .. Len(l) : u[j] = l[j]
  BY JoinedText
<1>3. \A j \in 1 .. i - 1 : u[j] \in Plain
  <2>1. \A j \in 1 .. i - 1 : j \in 1 .. c - 1 /\ j \in 1 .. Len(l)
    BY <1>1
  <2> QED
    BY <1>2, <2>1 DEF Coded, Plain
<1>4. PICK k \in Views : HeldText(a, q, b, u, m, i, r, k)
  BY <1>1, <1>3, HeldTextOn
<1>5. /\ SentOn(a, q, b, u, m, r, k, From(u, i))
      /\ k.phase = "before" /\ k.data = <<>>
      /\ i = 1 => k.open = b.open
      /\ i > 1 => k.open = (u[i - 1] # "LF")
  BY <1>4 DEF HeldText
<1>6. PICK x : x = From(l, i)
  OBVIOUS
<1>7. x \in Seq(Bytes) /\ \A j \in 1 .. Len(l) - i + 1 : x[j] = l[i + j - 1]
  BY <1>1, <1>6, FromPlace
<1>8. From(u, i) = x \o d
  BY <1>1, <1>6, CutOfJoin
<1>9. PICK e : e = c - i + 1
  OBVIOUS
<1>10. ConnectLine(x, e, n)
  BY <1>1, <1>6, <1>9, LineRest
<1>11. e \in Nat /\ \A j \in 1 .. e - 1 : x[j] \in Coded
  <2>1. e \in Nat /\ Len(l) \in Nat /\ c <= Len(l) /\ i \in Nat /\ i >= 1 /\ i <= c
    BY <1>1, <1>9
  <2>2. ASSUME NEW j \in 1 .. e - 1 PROVE x[j] \in Coded
    <3>1. j \in 1 .. Len(l) - i + 1 /\ i + j - 1 \in 1 .. c - 1
      BY <1>9, <2>1
    <3> QED
      BY <1>7, <3>1
  <2> QED
    BY <2>1, <2>2
<1>12. e = 1 => ~k.open
  <2>1. e = 1 => c = i
    BY <1>1, <1>9
  <2>2. i = 1 /\ c = i => ~k.open
    BY <1>5
  <2>3. i > 1 /\ c = i => ~k.open
    <3>1. i > 1 /\ c = i => i - 1 \in 1 .. Len(l) /\ l[i - 1] = "LF"
      BY <1>1 DEF ConnectLine
    <3> QED
      BY <1>2, <1>5, <3>1
  <2>4. i = 1 \/ i > 1
    BY <1>1
  <2> QED
    BY <2>1, <2>2, <2>3, <2>4
<1>13. Connecting(k, From(u, i), n, d)
  BY <1>5, <1>7, <1>8, <1>10, <1>11, <1>12 DEF Connecting
<1> QED
  BY <1>5, <1>13

LEMMA Framed ==
  ASSUME NEW t \in Seq(Bytes), NEW e \in {"connect", "nocarrier"}, NEW n \in Nat
  PROVE  /\ Emit("AT_RESPONSE", t) \in Seq(Frames) /\ Emit("DATA_RX", t) \in Seq(Frames)
         /\ Status(e, n) \in Seq(Frames)
<1>1. ASSUME NEW f \in Frames PROVE <<f>> \in Seq(Frames)
  OBVIOUS
<1>2. /\ [type |-> "AT_RESPONSE", payload |-> t] \in Frames
      /\ [type |-> "DATA_RX", payload |-> t] \in Frames
      /\ [type |-> "MODEM_STATUS", payload |-> <<e, n>>] \in Frames
  BY DEF Frames
<1>3. <<>> \in Seq(Frames)
  BY EmptySeq
<1> QED
  BY <1>1, <1>2, <1>3 DEF Emit, Status

Sent3(q, f, x, y, z) == q \o f = ((q \o x) \o y) \o z

LEMMA OneByOne ==
  ASSUME NEW S, NEW q \in Seq(S), NEW x \in Seq(S), NEW y \in Seq(S), NEW z \in Seq(S)
  PROVE  Sent3(q, x \o y \o z, x, y, z)
<1>1. x \o y \in Seq(S) /\ q \o x \in Seq(S)
  BY ConcatProperties
<1>2. (q \o (x \o y)) \o z = q \o ((x \o y) \o z)
  BY <1>1, ConcatAssociative, SMTT(30)
<1>3. (q \o x) \o y = q \o (x \o y)
  BY ConcatAssociative
<1> QED
  BY <1>2, <1>3 DEF Sent3

LEMMA ConnectTaken ==
  ASSUME NEW a, NEW q \in Seq(Frames), NEW b \in Views, NEW l \in Seq(Bytes),
         NEW d \in Seq(Bytes), NEW c \in Nat, NEW n, NEW u \in Seq(Bytes),
         NEW m \in 1 .. Len(u), NEW r,
         Leads(a, q, b), b.phase = "before", b.data = <<>>, u = l \o d,
         ConnectLine(l, c, n), \A j \in 1 .. c - 1 : l[j] \in Coded,
         c = 1 => ~b.open, Len(l) <= m,
         \A j \in 1 .. Len(d) : d[j] # "CARRIER",
         r = CommandBytes(UpTo(u, m))
  PROVE  /\ r.mode = TRUE
         /\ \E k \in Views : /\ SentOn(a, q, b, u, m, r, k, From(u, m + 1))
                             /\ Carrying(k, From(u, m + 1), n, d)
<1>1. PICK e : e = Len(l)
  OBVIOUS
<1>2. /\ Len(u) \in Nat /\ e \in Nat /\ m \in Nat /\ m \in 0 .. Len(u) /\ e \in 1 .. Len(u)
      /\ c \in 1 .. e /\ c \in Nat \ {0} /\ e \in c + 1 .. m /\ e + 1 \in 1 .. m + 1
      /\ e + 1 \in 1 .. Len(l) + 1 /\ m + 1 \in 1 .. Len(u) + 1 /\ (e + 1) - 1 = e
      /\ (m + 1) - 1 = m /\ Len(d) \in Nat /\ Len(u) = e + Len(d)
  <2>1. Len(u) = e + Len(d) /\ Len(u) \in Nat /\ Len(d) \in Nat /\ e \in Nat
    BY <1>1, JoinedText
  <2>2. c \in 1 .. e /\ e >= c + 1
    BY <1>1, <2>1 DEF ConnectLine
  <2> QED
    BY <1>1, <2>1, <2>2
<1>3. /\ c \in Nat /\ e \in Nat /\ m \in Nat /\ Len(d) \in Nat
      /\ 1 <= c /\ c + 1 <= e /\ e <= m /\ m <= e + Len(d)
  BY <1>2
<1>4. PICK s : s = UpTo(u, m)
  OBVIOUS
<1>5. s \in Seq(Bytes) /\ Len(s) = m /\ \A j \in 1 .. m : s[j] = u[j]
  BY <1>2, <1>4, UpToPlace, ZenonT(30)
<1>6. /\ \A j \in 1 .. e : u[j] = l[j]
      /\ \A j \in 1 .. Len(d) : u[e + j] = d[j]
  BY <1>1, JoinedText
<1>7. /\ s[c] = "CON" /\ s[c + 1] = "NECT" /\ s[e] = "LF"
      /\ \A j \in c .. e - 1 : s[j] # "LF"
  <2>1. l[c] = "CON" /\ l[c + 1] = "NECT" /\ l[e] = "LF"
    BY <1>1, <1>3 DEF ConnectLine
  <2>3. ASSUME NEW j \in c .. e - 1 PROVE l[j] # "LF"
    <3>1. j = c \/ j = c + 1 \/ j = c + 2 \/ (n # 0 /\ j = c + 3)
      BY <1>1, <1>3 DEF ConnectLine
    <3> QED
      BY <3>1 DEF ConnectLine
  <2>2. /\ c \in 1 .. m /\ c + 1 \in 1 .. m /\ e \in 1 .. m
        /\ c \in 1 .. e /\ c + 1 \in 1 .. e /\ e \in 1 .. e
        /\ \A j \in c .. e - 1 : j \in 1 .. m /\ j \in 1 .. e
    BY <1>3
  <2> QED
    BY <1>5, <1>6, <2>1, <2>2, <2>3
<1>8. \A j \in 1 .. c - 1 : s[j] # "CON"
  <2>1. \A j \in 1 .. c - 1 : j \in 1 .. m /\ j \in 1 .. e
    BY <1>2
  <2> QED
    BY <1>5, <1>6, <2>1 DEF Coded
<1>9. \A j \in 1 .. Len(s) : s[j] # "CARRIER"
  <2>1. ASSUME NEW j \in 1 .. e PROVE l[j] # "CARRIER"
    <3>1. j \in 1 .. c - 1 \/ j = c \/ j = c + 1 \/ j = c + 2 \/ j = c + 3
            \/ (n # 0 /\ j = c + 4)
      BY <1>1, <1>3 DEF ConnectLine
    <3> QED
      BY <3>1 DEF ConnectLine, Coded
  <2>2. ASSUME NEW j \in 1 .. Len(s) PROVE s[j] # "CARRIER"
    <3> j \in 1 .. m
      BY <1>5
    <3>1. CASE j <= e
      <4>1. j \in 1 .. e
        BY <1>3, <3>1
      <4> QED
        BY <1>5, <1>6, <2>1, <4>1
    <3>2. CASE j > e
      <4>1. j - e \in 1 .. Len(d) /\ e + (j - e) = j /\ j \in 1 .. m
        BY <1>3, <3>2
      <4>2. u[e + (j - e)] = d[j - e]
        BY <1>6, <4>1
      <4> QED
        BY <1>5, <4>1, <4>2
    <3> QED
      BY <1>3, <3>1, <3>2
  <2> QED
    BY <2>2
<1>10. PICK x : x = From(s, e + 1)
  OBVIOUS
<1>11. PICK v : v = From(u, m + 1)
  OBVIOUS
<1>12. /\ x \o v = From(u, e + 1) /\ UpTo(s, e) = UpTo(u, e) /\ x \in Seq(Bytes)
  <2>1. PICK i : i = e + 1
    OBVIOUS
  <2>2. i \in 1 .. m + 1 /\ i - 1 = e
    BY <1>2, <2>1
  <2>3. /\ From(UpTo(u, m), i) \o From(u, m + 1) = From(u, i)
        /\ UpTo(UpTo(u, m), i - 1) = UpTo(u, i - 1)
        /\ From(UpTo(u, m), i) \in Seq(Bytes)
    BY <1>2, <2>2, CutOfCut
  <2> QED
    BY <1>4, <1>10, <1>11, <2>1, <2>2, <2>3
<1>13. v \in Seq(Bytes)
  BY <1>2, <1>11, FromPlace
<1>14. From(u, e + 1) = d /\ UpTo(u, e) = l
  <2>1. PICK i : i = e + 1
    OBVIOUS
  <2>2. i \in 1 .. Len(l) + 1 /\ i - 1 = e
    BY <1>2, <2>1
  <2>3. From(u, i) = From(l, i) \o d /\ UpTo(u, e) = UpTo(l, e)
    BY <2>2, CutOfJoin
  <2>4. From(l, i) = <<>>
    <3>1. From(l, i) \in Seq(Bytes) /\ Len(From(l, i)) = Len(l) - i + 1
      BY <2>2, FromPlace
    <3>2. Len(From(l, i)) = 0
      BY <1>1, <1>3, <2>1, <3>1
    <3> QED
      BY <3>1, <3>2, EmptySeq
  <2>5. UpTo(l, e) = l
    BY <1>1, <1>2, SubSeqFull DEF UpTo
  <2> QED
    BY <2>1, <2>3, <2>4, <2>5, ConcatEmptySeq
<1>15. RateOf(SubSeq(s, c, e)) = n
  <2>1. PICK w : w = SubSeq(s, c, e)
    OBVIOUS
  <2>2. /\ DOMAIN w = 1 .. e - c + 1
        /\ \A j \in 1 .. e - c + 1 : w[j] = l[c + j - 1]
    <3>1. /\ c \in 1 .. Len(s) + 1 /\ e \in c - 1 .. Len(s)
      BY <1>2, <1>5
    <3>2. w \in Seq(Bytes) /\ Len(w) = e - c + 1
          /\ \A j \in 1 .. e - c + 1 : w[j] = s[c + j - 1]
      BY <1>2, <1>5, <2>1, <3>1, SubSeqProperties
    <3>3. \A j \in 1 .. e - c + 1 : c + j - 1 \in 1 .. m /\ c + j - 1 \in 1 .. e
      BY <1>3
    <3> QED
      BY <1>5, <1>6, <3>2, <3>3, LenProperties
  <2>3. CASE n = 0
    <3>1. e = c + 3 /\ \A j \in c .. e : l[j] # "RATE"
      BY <1>1, <1>2, <2>3, SMTT(30) DEF ConnectLine
    <3>2. ASSUME NEW j \in DOMAIN w PROVE w[j] # "RATE"
      <4>1. j \in 1 .. e - c + 1
        BY <2>2
      <4>2. c + j - 1 \in c .. e
        BY <1>3, <4>1
      <4> QED
        BY <2>2, <3>1, <4>1, <4>2
    <3>3. RateOf(w) = 0
      BY <3>2 DEF RateOf
    <3> QED
      BY <2>1, <2>3, <3>3
  <2>4. CASE n # 0
    <3>1. e = c + 4 /\ l[c + 2] = "RATE" /\ n = 9600
      BY <1>1, <2>4 DEF ConnectLine, Rates
    <3>2. 3 \in 1 .. e - c + 1 /\ c + 3 - 1 = c + 2
      BY <1>3, <3>1, SMTT(30)
    <3>3. w[3] = l[c + 2]
      BY <2>2, <3>2
    <3> QED
      BY <2>1, <2>2, <3>1, <3>2, <3>3 DEF RateOf
  <2> QED
    BY <2>3, <2>4
<1>16. r = [frames |-> Emit("AT_RESPONSE", l) \o Status("connect", n) \o Emit("DATA_RX", x),
            pending |-> <<>>, mode |-> TRUE]
  <2>1. e \in c + 1 .. Len(s)
    BY <1>2, <1>5
  <2>2. CommandBytes(s)
           = [frames |-> Emit("AT_RESPONSE", UpTo(s, e))
                           \o Status("connect", RateOf(SubSeq(s, c, e)))
                           \o Emit("DATA_RX", From(s, e + 1)),
              pending |-> <<>>, mode |-> TRUE]
    BY <1>2, <1>5, <1>7, <1>8, <1>9, <2>1, CommandConnect
  <2> QED
    BY <1>4, <1>10, <1>12, <1>14, <1>15, <2>2
<1>17. n \in Nat
  BY SMTT(30) DEF ConnectLine, Rates
<1>18. PICK q1 : q1 = q \o Emit("AT_RESPONSE", l)
  OBVIOUS
<1>19. PICK b1 \in Views : LineGoes(a, q, b, l, n, b1)
  BY LineOn
<1>20. /\ Leads(a, q1, b1) /\ b1.phase = "line" /\ b1.bps = n
       /\ b1.data = b.data /\ b1.ends = b.ends + Ends(l)
  BY <1>18, <1>19 DEF LineGoes
<1>21. q1 \in Seq(Frames)
  BY <1>18, LineOn, Zenon
<1>22. PICK q2 : q2 = q1 \o Status("connect", n)
  OBVIOUS
<1>23. PICK b2 \in Views : ConnectGoes(a, q1, b1, b2)
  BY <1>20, <1>21, StatusOn
<1>24. Leads(a, q2, b2) /\ b2 = [b1 EXCEPT !.phase = "online"]
  BY <1>20, <1>22, <1>23 DEF ConnectGoes
<1>25. q2 \in Seq(Frames)
  BY <1>20, <1>21, <1>22, StatusOn
<1>26. b2.phase = "online" /\ b2.bps = n /\ b2.data = <<>> /\ b2.ends = b.ends + Ends(l)
  BY <1>20, <1>24 DEF Views
<1>27. PICK k \in Views : DataGoes(a, q2, b2, x, k)
  BY <1>12, <1>24, <1>25, <1>26, DataOn
<1>28. q2 \o Emit("DATA_RX", x) \in Seq(Frames)
  BY <1>12, <1>24, <1>25, <1>26, DataOn
<1>29. q \o r.frames = q2 \o Emit("DATA_RX", x)
  <2>1. PICK f1, f2, f3 : /\ f1 = Emit("AT_RESPONSE", l) /\ f2 = Status("connect", n)
                          /\ f3 = Emit("DATA_RX", x)
    OBVIOUS
  <2>2. f1 \in Seq(Frames) /\ f2 \in Seq(Frames) /\ f3 \in Seq(Frames)
    BY <1>12, <1>17, <2>1, Framed
  <2>3. r.frames = f1 \o f2 \o f3
    BY <1>16, <2>1
  <2>4. Sent3(q, r.frames, f1, f2, f3)
    <3>1. Sent3(q, f1 \o f2 \o f3, f1, f2, f3)
      BY <2>2, OneByOne
    <3> QED
      BY <2>3, <3>1
  <2> QED
    BY <1>18, <1>22, <2>1, <2>4 DEF Sent3
<1>30. k.phase = "online" /\ k.bps = n /\ k.ends = b.ends + Ends(l) /\ k.data = x
  <2>1. <<>> \o x = x
    BY <1>12, ConcatEmptySeq
  <2> QED
    BY <1>26, <1>27, <2>1 DEF DataGoes
<1>31. r.pending = <<>> /\ v = r.pending \o v
  <2>1. r.pending = <<>>
    BY <1>16
  <2>2. v = <<>> \o v
    BY <1>13, ConcatEmptySeq
  <2> QED
    BY <2>1, <2>2
<1>32. k.ends + Ends(v) <= b.ends + Ends(u)
  <2>1. Ends(u) = Ends(l) + Ends(d)
    BY EndsOfTwo
  <2>2. d = x \o v
    BY <1>12, <1>14
  <2>3. Ends(d) = Ends(x) + Ends(v)
    BY <1>12, <1>13, <2>2, EndsOfTwo
  <2>4. /\ Ends(l) \in Nat /\ Ends(x) \in Nat /\ Ends(v) \in Nat /\ Ends(d) \in Nat
        /\ b.ends \in Nat
    BY <1>12, <1>13, EndsFinite DEF Views
  <2> QED
    BY <1>30, <2>1, <2>3, <2>4, SMTT(30)
<1>33. Short(<<>>)
  BY EmptySeq DEF Short
<1>34. SentOn(a, q, b, u, m, r, k, v)
  BY <1>11, <1>27, <1>28, <1>29, <1>31, <1>32, <1>33 DEF SentOn, DataGoes
<1>35. Carrying(k, v, n, d)
  BY <1>12, <1>14, <1>30 DEF Carrying
<1>36. r.mode = TRUE
  BY <1>16
<1> QED
  BY <1>11, <1>34, <1>35, <1>36

LEMMA ConnectingRead ==
  ASSUME NEW a, NEW q \in Seq(Frames), NEW b \in Views, NEW u \in Seq(Bytes), NEW n,
         NEW d \in Seq(Bytes), NEW m \in 1 .. Len(u), Leads(a, q, b),
         Connecting(b, u, n, d), \A j \in 1 .. Len(d) : d[j] # "CARRIER"
  PROVE  LET r == CommandBytes(UpTo(u, m))
             v == r.pending \o From(u, m + 1)
         IN /\ r.mode \in BOOLEAN
            /\ \E c \in Views :
                 /\ SentOn(a, q, b, u, m, r, c, v)
                 /\ IF r.mode THEN Carrying(c, v, n, d) ELSE Connecting(c, v, n, d)
<1>1. PICK l \in Seq(Bytes), c \in Nat :
        /\ ConnectLine(l, c, n) /\ \A i \in 1 .. c - 1 : l[i] \in Coded
        /\ c = 1 => ~b.open
        /\ u = l \o d
  BY DEF Connecting
<1>2. b.phase = "before" /\ b.data = <<>>
  BY DEF Connecting
<1>3. PICK s : s = UpTo(u, m)
  OBVIOUS
<1>4. PICK r : r = CommandBytes(s)
  OBVIOUS
<1>5. PICK e : e = Len(l)
  OBVIOUS
<1>6. /\ e \in Nat /\ m \in Nat /\ m \in 0 .. Len(u) /\ Len(u) \in Nat /\ Len(d) \in Nat
      /\ c \in Nat /\ 1 <= c /\ c + 1 < e /\ e <= c + 4
      /\ Len(u) = e + Len(d) /\ m >= 1 /\ m <= Len(u)
  <2>1. Len(u) = e + Len(d) /\ Len(d) \in Nat /\ e \in Nat
    BY <1>1, <1>5, JoinedText
  <2>2. 1 <= c /\ c + 1 < e /\ e <= c + 4
    BY <1>1, <1>5, <2>1 DEF ConnectLine
  <2> QED
    BY <2>1, <2>2
<1>7. s \in Seq(Bytes) /\ Len(s) = m /\ \A j \in 1 .. m : s[j] = u[j]
  BY <1>3, <1>6, UpToPlace
<1>8. \A j \in 1 .. e : u[j] = l[j]
  BY <1>1, <1>5, JoinedText
<1>9. ASSUME NEW i \in 1 .. m + 1, i <= c, i = 1 => i = c,
             HoldsFrom(r, s, i, "AT_RESPONSE", FALSE),
             \A j \in i .. m : u[j] # "LF", m - i + 1 <= 4
      PROVE  /\ r.mode = FALSE
             /\ \E k \in Views :
                  /\ SentOn(a, q, b, u, m, r, k, r.pending \o From(u, m + 1))
                  /\ Connecting(k, r.pending \o From(u, m + 1), n, d)
  <2>1. HoldsFrom(r, UpTo(u, m), i, "AT_RESPONSE", FALSE)
    BY <1>3, <1>9
  <2>2. PICK k \in Views :
           SentOn(a, q, b, u, m, r, k, From(u, i)) /\ Connecting(k, From(u, i), n, d)
    BY <1>1, <1>2, <1>9, <2>1, ConnectingHeld
  <2>3. From(u, i) = r.pending \o From(u, m + 1)
    BY <2>2 DEF SentOn
  <2> QED
    BY <1>9, <2>2, <2>3 DEF HoldsFrom
<1>10. CASE m < c
  <2>1. ASSUME NEW j \in 1 .. m PROVE s[j] \notin {"NO", "CON"}
    <3>1. j \in 1 .. c - 1 /\ j \in 1 .. e
      BY <1>6, <1>10
    <3> QED
      BY <1>1, <1>7, <1>8, <3>1 DEF Coded
  <2>2. s # <<>>
    BY <1>6, <1>7, EmptySeq
  <2>3. HoldsFrom(r, s, m + 1, "AT_RESPONSE", FALSE)
    BY <1>4, <1>7, <2>1, <2>2, CommandNoKeyword
  <2>4. PICK i : i = m + 1
    OBVIOUS
  <2>5. /\ i \in 1 .. m + 1 /\ i <= c /\ (i = 1 => i = c) /\ m - i + 1 <= 4
        /\ \A j \in i .. m : u[j] # "LF"
    BY <1>6, <1>10, <2>4
  <2>6. HoldsFrom(r, s, i, "AT_RESPONSE", FALSE)
    BY <2>3, <2>4
  <2>7. /\ r.mode = FALSE
        /\ \E k \in Views :
             /\ SentOn(a, q, b, u, m, r, k, r.pending \o From(u, m + 1))
             /\ Connecting(k, r.pending \o From(u, m + 1), n, d)
    BY <1>9, <2>5, <2>6
  <2> QED
    BY <1>3, <1>4, <2>7
<1>11. CASE c <= m /\ m < e
  <2>1. /\ c \in 1 .. m + 1 /\ c \in 1 .. m /\ c \in 1 .. e /\ m - c + 1 <= 4
        /\ c + 1 \in 1 .. e
    BY <1>6, <1>11
  <2>2. s[c] = "CON"
    BY <1>1, <1>7, <1>8, <2>1 DEF ConnectLine
  <2>3. c < m => s[c + 1] = "NECT"
    <3>1. c < m => c + 1 \in 1 .. m
      BY <1>6
    <3> QED
      BY <1>1, <1>7, <1>8, <2>1, <3>1 DEF ConnectLine
  <2>4. ASSUME NEW j \in 1 .. c - 1 PROVE s[j] # "CON" /\ s[j] # "NO"
    <3>1. j \in 1 .. m /\ j \in 1 .. e
      BY <1>6, <1>11
    <3> QED
      BY <1>1, <1>7, <1>8, <3>1 DEF Coded
  <2>5. ASSUME NEW j \in c .. m PROVE s[j] # "LF" /\ s[j] # "NO" /\ u[j] # "LF"
    <3>1. j \in 1 .. m /\ j \in 1 .. e
      BY <1>6, <1>11
    <3>2. j = c \/ j = c + 1 \/ j = c + 2 \/ (n # 0 /\ j = c + 3)
      BY <1>1, <1>5, <1>6, <1>11 DEF ConnectLine
    <3>3. l[j] # "LF" /\ l[j] # "NO"
      BY <1>1, <3>2 DEF ConnectLine
    <3> QED
      BY <1>7, <1>8, <3>1, <3>3
  <2>6. \A j \in 1 .. m : j \in 1 .. c - 1 \/ j \in c .. m
    BY <1>6
  <2>7. \A j \in 1 .. m : s[j] # "NO"
    BY <2>4, <2>5, <2>6
  <2>8. HoldsFrom(r, s, c, "AT_RESPONSE", FALSE)
    BY <1>4, <1>7, <2>1, <2>2, <2>3, <2>4, <2>5, <2>7, CommandHalfConnect
  <2>9. (c = 1 => c = c) /\ c <= c
    BY <1>6
  <2>10. /\ r.mode = FALSE
         /\ \E k \in Views :
              /\ SentOn(a, q, b, u, m, r, k, r.pending \o From(u, m + 1))
              /\ Connecting(k, r.pending \o From(u, m + 1), n, d)
    BY <1>9, <2>1, <2>5, <2>8, <2>9
  <2> QED
    BY <1>3, <1>4, <2>10
<1>12. CASE e <= m
  <2>1. r = CommandBytes(UpTo(u, m)) /\ Len(l) <= m
    BY <1>3, <1>4, <1>5, <1>12
  <2>2. r.mode = TRUE
    BY <1>1, <1>2, <2>1, ConnectTaken
  <2>3. PICK k \in Views : SentOn(a, q, b, u, m, r, k, From(u, m + 1))
                             /\ Carrying(k, From(u, m + 1), n, d)
    BY <1>1, <1>2, <2>1, ConnectTaken
  <2>4. From(u, m + 1) = r.pending \o From(u, m + 1)
    BY <2>3 DEF SentOn
  <2> QED
    BY <1>3, <1>4, <2>2, <2>3, <2>4
<1> QED
  BY <1>6, <1>10, <1>11, <1>12

(* The line NO CARRIER.                                                    *)
DropLine(d) == /\ d \in Seq(Bytes) /\ Len(d) = 4 /\ d = NoCarrier \o Crlf
               /\ d[1] = "NO" /\ d[2] = "CARRIER" /\ d[3] = "CR" /\ d[4] = "LF"

LEMMA ItsLine == DropLine(NoCarrier \o Crlf)
<1>1. PICK d : d = NoCarrier \o Crlf
  OBVIOUS
<1>2. /\ d \in Seq(Bytes) /\ Len(d) = 2 + 2
      /\ \A i \in 1 .. 2 : d[i] = NoCarrier[i]
      /\ \A i \in 1 .. 2 : d[2 + i] = Crlf[i]
  <2>1. PICK v, w : v = NoCarrier /\ w = Crlf
    OBVIOUS
  <2>2. Len(v) = 2 /\ Len(w) = 2
    BY <2>1, Words
  <2> v \in Seq(Bytes) /\ w \in Seq(Bytes)
    BY <2>1, Words
  <2>3. d = v \o w
    BY <1>1, <2>1
  <2>4. d \in Seq(Bytes) /\ Len(d) = Len(v) + Len(w)
    BY <2>3, Joined
  <2>5. \A i \in 1 .. Len(v) : d[i] = v[i]
    BY <2>3, Joined
  <2>6. \A i \in 1 .. Len(w) : d[Len(v) + i] = w[i]
    BY <2>3, Joined
  <2> QED
    BY <2>1, <2>2, <2>4, <2>5, <2>6
<1>3. 1 \in 1 .. 2 /\ 2 \in 1 .. 2 /\ 2 + 1 = 3 /\ 2 + 2 = 4
  OBVIOUS
<1>4. d[1] = "NO" /\ d[2] = "CARRIER" /\ d[3] = "CR" /\ d[4] = "LF"
  BY <1>2, <1>3, Words
<1> QED
  BY <1>1, <1>2, <1>3, <1>4 DEF DropLine

(* A text that ends with it.                                               *)
DropAfter(u, t, d) ==
  /\ u \in Seq(Bytes) /\ Len(t) \in Nat /\ Len(u) = Len(t) + 4
  /\ \A j \in 1 .. Len(t) : u[j] = t[j]
  /\ u[Len(t) + 1] = "NO" /\ u[Len(t) + 2] = "CARRIER"
  /\ u[Len(t) + 3] = "CR" /\ u[Len(t) + 4] = "LF"
  /\ From(u, Len(t) + 1) = d

LEMMA DropText ==
  ASSUME NEW t \in Seq(Bytes), NEW d, DropLine(d), NEW u, u = t \o d
  PROVE  DropAfter(u, t, d)
<1>1. d \in Seq(Bytes) /\ Len(d) = 4
  BY DEF DropLine
<1>2. /\ u \in Seq(Bytes) /\ Len(t) \in Nat /\ Len(u) = Len(t) + 4
      /\ \A j \in 1 .. Len(t) : u[j] = t[j]
      /\ \A j \in 1 .. 4 : u[Len(t) + j] = d[j]
  <2> d \in Seq(Bytes)
    BY DEF DropLine
  <2>1. u \in Seq(Bytes) /\ Len(u) = Len(t) + Len(d) /\ Len(t) \in Nat
    BY Joined
  <2>2. \A i \in 1 .. Len(t) : u[i] = t[i]
    BY Joined
  <2>3. \A i \in 1 .. Len(d) : u[Len(t) + i] = d[i]
    BY Joined
  <2> QED
    BY <1>1, <2>1, <2>2, <2>3
<1>3. u[Len(t) + 1] = "NO" /\ u[Len(t) + 2] = "CARRIER"
      /\ u[Len(t) + 3] = "CR" /\ u[Len(t) + 4] = "LF"
  <2>1. 1 \in 1 .. 4 /\ 2 \in 1 .. 4 /\ 3 \in 1 .. 4 /\ 4 \in 1 .. 4
    OBVIOUS
  <2> QED
    BY <1>2, <2>1 DEF DropLine
<1>4. From(u, Len(t) + 1) = d
  <2>1. PICK i : i = Len(t) + 1
    OBVIOUS
  <2>2. i \in 1 .. Len(t) + 1
    BY <1>2, <2>1
  <2>3. From(u, i) = From(t, i) \o d
    BY <1>1, <2>2, CutOfJoin
  <2>4. From(t, i) \in Seq(Bytes) /\ Len(From(t, i)) = Len(t) - i + 1
    BY <2>2, FromPlace
  <2>5. Len(From(t, i)) = 0
    BY <1>2, <2>1, <2>4
  <2>6. From(t, i) = <<>>
    BY <2>4, <2>5, EmptySeq
  <2> QED
    BY <1>1, <2>1, <2>3, <2>6, ConcatEmptySeq
<1> QED
  BY <1>2, <1>3, <1>4 DEF DropAfter

(* The modem gave up while it trained.                                     *)
FailSent(r, u, m) ==
  /\ r.frames = Emit("AT_RESPONSE", UpTo(u, m)) \o Status("nocarrier", 0)
                   \o Emit("AT_RESPONSE", From(u, m + 1))
  /\ r.pending = <<>>

FailGone(a, q, b, u, m, r, c) ==
  /\ <<>> = r.pending \o From(u, m + 1)
  /\ SentOn(a, q, b, u, m, r, c, <<>>)
  /\ c.phase = "before" /\ c.data = b.data

LEMMA FailTaken ==
  ASSUME NEW a, NEW q \in Seq(Frames), NEW b \in Views, NEW u \in Seq(Bytes),
         NEW m, m = Len(u), NEW r, u # <<>>,
         Leads(a, q, b), b.phase = "before",
         \A j \in 1 .. Len(u) : u[j] \in Plain,
         FailSent(r, u, m)
  PROVE  \E c \in Views : FailGone(a, q, b, u, m, r, c)
<1>1. m \in Nat /\ m + 1 \in 1 .. Len(u) + 1 /\ UpTo(u, m) = u
  BY LenProperties, SubSeqFull DEF UpTo
<1>2. From(u, m + 1) = <<>>
  <2>1. PICK i : i = m + 1
    OBVIOUS
  <2>2. From(u, i) \in Seq(Bytes) /\ Len(From(u, i)) = Len(u) - i + 1
    BY <1>1, <2>1, FromPlace
  <2>3. Len(From(u, i)) = 0
    BY <1>1, <2>1, <2>2
  <2> QED
    BY <2>1, <2>2, <2>3, EmptySeq
<1>3. PICK q1 : q1 = q \o Emit("AT_RESPONSE", u)
  OBVIOUS
<1>4. PICK c \in Views :
        /\ Leads(a, q \o Emit("AT_RESPONSE", u), c)
        /\ c.phase = "before" /\ c.data = b.data /\ c.ends = b.ends + Ends(u)
        /\ u = <<>> => c.open = b.open
        /\ u # <<>> => c.open = (u[Len(u)] # "LF")
  BY TextOn
<1>5. q1 \in Seq(Frames)
  BY <1>3, TextOn
<1>6. PICK q2 : q2 = q1 \o Status("nocarrier", 0)
  OBVIOUS
<1>7. q2 \in Seq(Frames) /\ Leads(a, q2, c)
  BY <1>3, <1>4, <1>5, <1>6, StatusOn
<1>8. q \o r.frames = q2
  <2>1. PICK f1, f2, f3 : /\ f1 = Emit("AT_RESPONSE", u) /\ f2 = Status("nocarrier", 0)
                          /\ f3 = Emit("AT_RESPONSE", <<>>)
    OBVIOUS
  <2>2. <<>> \in Seq(Bytes)
    BY EmptySeq
  <2>3. f1 \in Seq(Frames) /\ f2 \in Seq(Frames) /\ f3 \in Seq(Frames)
    BY <2>1, <2>2, Framed
  <2>4. Sent3(q, r.frames, f1, f2, f3)
    <3>1. Sent3(q, f1 \o f2 \o f3, f1, f2, f3)
      BY <2>3, OneByOne
    <3>2. r.frames = f1 \o f2 \o f3
      BY <1>1, <1>2, <2>1 DEF FailSent
    <3> QED
      BY <3>1, <3>2
  <2>5. f3 = <<>>
    BY <2>1 DEF Emit
  <2>6. q2 \o <<>> = q2
    BY <1>7, ConcatEmptySeq
  <2> QED
    BY <1>3, <1>6, <2>1, <2>4, <2>5, <2>6 DEF Sent3
<1>9. <<>> = r.pending \o From(u, m + 1)
  <2>1. <<>> \in Seq(Bytes)
    BY EmptySeq
  <2>2. <<>> \o <<>> = <<>>
    BY <2>1, ConcatEmptySeq
  <2> QED
    BY <1>2, <2>2 DEF FailSent
<1>10. c.ends + Ends(<<>>) <= b.ends + Ends(u)
  <2>1. Ends(u) \in Nat /\ b.ends \in Nat
    BY EndsFinite DEF Views
  <2> QED
    BY <1>4, <2>1, EndsOfNothing
<1>11. Short(<<>>)
  BY EmptySeq DEF Short
<1>12. SentOn(a, q, b, u, m, r, c, <<>>)
  BY <1>7, <1>8, <1>9, <1>10, <1>11 DEF SentOn, FailSent
<1> QED
  BY <1>4, <1>9, <1>12 DEF FailGone

LEMMA FailingRead ==
  ASSUME NEW a, NEW q \in Seq(Frames), NEW b \in Views, NEW u \in Seq(Bytes),
         NEW m \in 1 .. Len(u), Leads(a, q, b), Failing(b, u)
  PROVE  LET r == CommandBytes(UpTo(u, m))
             v == r.pending \o From(u, m + 1)
         IN r.mode = FALSE /\ \E c \in Views : SentOn(a, q, b, u, m, r, c, v) /\ Failing(c, v)
<1>1. PICK d : DropLine(d) /\ d = NoCarrier \o Crlf
  BY ItsLine
<1>2. PICK t \in Seq(Bytes) : (\A i \in 1 .. Len(t) : t[i] \in Coded) /\ u = t \o d
  <2>1. u # <<>>
    BY LenProperties, EmptySeq
  <2> QED
    BY <1>1, <2>1 DEF Failing
<1>3. /\ Len(t) \in Nat /\ Len(u) = Len(t) + 4
      /\ \A j \in 1 .. Len(t) : u[j] = t[j]
      /\ u[Len(t) + 1] = "NO" /\ u[Len(t) + 2] = "CARRIER"
      /\ u[Len(t) + 3] = "CR" /\ u[Len(t) + 4] = "LF"
      /\ From(u, Len(t) + 1) = d
  <2>1. DropAfter(u, t, d)
    BY <1>1, <1>2, DropText
  <2> QED
    BY <2>1 DEF DropAfter
<1>4. b.phase = "before" /\ b.data = <<>>
  BY DEF Failing
<1>5. PICK s : s = UpTo(u, m)
  OBVIOUS
<1>6. PICK r : r = CommandBytes(s)
  OBVIOUS
<1>7. PICK c : c = Len(t) + 1
  OBVIOUS
<1>8. /\ m \in Nat /\ m \in 0 .. Len(u) /\ c \in Nat /\ 1 <= c /\ Len(u) = c + 3
      /\ m >= 1 /\ m <= Len(u)
  BY <1>3, <1>7
<1>9. s \in Seq(Bytes) /\ Len(s) = m /\ \A j \in 1 .. m : s[j] = u[j]
  BY <1>5, <1>8, UpToPlace
<1>10. /\ u[c] = "NO" /\ u[c + 1] = "CARRIER" /\ u[c + 2] = "CR" /\ u[c + 3] = "LF"
       /\ \A j \in 1 .. c - 1 : u[j] \in Coded
  BY <1>2, <1>3, <1>7
<1>11. ASSUME NEW i \in 1 .. m + 1, i <= c, HoldsFrom(r, s, i, "AT_RESPONSE", FALSE),
              \A j \in i .. m : u[j] # "LF", m - i + 1 <= 4
       PROVE  /\ r.mode = FALSE
              /\ \E k \in Views :
                   /\ SentOn(a, q, b, u, m, r, k, r.pending \o From(u, m + 1))
                   /\ Failing(k, r.pending \o From(u, m + 1))
  <2>1. HoldsFrom(r, UpTo(u, m), i, "AT_RESPONSE", FALSE)
    BY <1>5, <1>11
  <2>2. \A j \in 1 .. i - 1 : u[j] \in Plain
    <3>1. \A j \in 1 .. i - 1 : j \in 1 .. c - 1
      BY <1>8, <1>11
    <3> QED
      BY <1>10, <3>1 DEF Coded, Plain
  <2>3. PICK k \in Views : HeldText(a, q, b, u, m, i, r, k)
    BY <1>4, <1>8, <1>11, <2>1, <2>2, HeldTextOn
  <2>4. SentOn(a, q, b, u, m, r, k, From(u, i)) /\ k.phase = "before" /\ k.data = <<>>
    BY <1>4, <2>3 DEF HeldText
  <2>5. From(u, i) = r.pending \o From(u, m + 1)
    BY <2>4 DEF SentOn
  <2>6. PICK x : x = From(t, i)
    OBVIOUS
  <2>7. i \in 1 .. Len(t) + 1 /\ d \in Seq(Bytes)
    BY <1>1, <1>3, <1>7, <1>8, <1>11 DEF DropLine
  <2>8. From(u, i) = x \o d
    BY <1>2, <2>6, <2>7, CutOfJoin
  <2>9. x \in Seq(Bytes) /\ \A j \in 1 .. Len(x) : x[j] \in Coded
    <3>1. /\ x \in Seq(Bytes) /\ Len(x) = Len(t) - i + 1
          /\ \A j \in 1 .. Len(t) - i + 1 : x[j] = t[i + j - 1]
      BY <2>6, <2>7, FromPlace
    <3>2. \A j \in 1 .. Len(t) - i + 1 : i + j - 1 \in 1 .. Len(t)
      BY <1>3, <2>7
    <3> QED
      BY <1>2, <3>1, <3>2
  <2>10. Failing(k, From(u, i))
    BY <1>1, <2>4, <2>8, <2>9 DEF Failing
  <2> QED
    BY <1>11, <2>4, <2>5, <2>10 DEF HoldsFrom
<1>12. CASE m < c
  <2>1. ASSUME NEW j \in 1 .. m PROVE s[j] \notin {"NO", "CON"}
    <3>1. j \in 1 .. c - 1
      BY <1>8, <1>12
    <3> QED
      BY <1>9, <1>10, <3>1 DEF Coded
  <2>2. s # <<>>
    BY <1>8, <1>9, EmptySeq
  <2>3. HoldsFrom(r, s, m + 1, "AT_RESPONSE", FALSE)
    BY <1>6, <1>9, <2>1, <2>2, CommandNoKeyword
  <2>4. PICK i : i = m + 1
    OBVIOUS
  <2>5. /\ i \in 1 .. m + 1 /\ i <= c /\ m - i + 1 <= 4
        /\ \A j \in i .. m : u[j] # "LF"
    BY <1>8, <1>12, <2>4
  <2>6. HoldsFrom(r, s, i, "AT_RESPONSE", FALSE)
    BY <2>3, <2>4
  <2>7. /\ r.mode = FALSE
        /\ \E k \in Views :
             /\ SentOn(a, q, b, u, m, r, k, r.pending \o From(u, m + 1))
             /\ Failing(k, r.pending \o From(u, m + 1))
    BY <1>11, <2>5, <2>6
  <2> QED
    BY <1>5, <1>6, <2>7
<1>13. CASE c <= m /\ m < c + 3
  <2>1. /\ c \in 1 .. m + 1 /\ c \in 1 .. m /\ m - c + 1 <= 4 /\ c <= c
    BY <1>8, <1>13
  <2>2. s[c] = "NO"
    BY <1>9, <1>10, <2>1
  <2>3. c < m => s[c + 1] = "CARRIER"
    <3>1. c < m => c + 1 \in 1 .. m
      BY <1>8
    <3> QED
      BY <1>9, <1>10, <3>1
  <2>4. ASSUME NEW j \in 1 .. c - 1 PROVE s[j] # "CON" /\ s[j] # "NO"
    <3>1. j \in 1 .. m
      BY <1>8, <1>13
    <3> QED
      BY <1>9, <1>10, <3>1 DEF Coded
  <2>5. ASSUME NEW j \in c .. m PROVE s[j] # "LF" /\ s[j] # "CON" /\ u[j] # "LF"
    <3>1. j \in 1 .. m
      BY <1>8, <1>13
    <3>2. j = c \/ j = c + 1 \/ j = c + 2
      BY <1>8, <1>13
    <3> QED
      BY <1>9, <1>10, <3>1, <3>2
  <2>6. \A j \in 1 .. m : j \in 1 .. c - 1 \/ j \in c .. m
    BY <1>8
  <2>7. \A j \in 1 .. m : s[j] # "CON"
    BY <2>4, <2>5, <2>6
  <2>8. HoldsFrom(r, s, c, "AT_RESPONSE", FALSE)
    BY <1>6, <1>9, <2>1, <2>2, <2>3, <2>4, <2>5, <2>7, CommandHalfNoCarrier
  <2>9. /\ r.mode = FALSE
        /\ \E k \in Views :
             /\ SentOn(a, q, b, u, m, r, k, r.pending \o From(u, m + 1))
             /\ Failing(k, r.pending \o From(u, m + 1))
    BY <1>11, <2>1, <2>5, <2>8
  <2> QED
    BY <1>5, <1>6, <2>9
<1>14. CASE m = c + 3
  <2>1. s = u /\ m = Len(u)
    BY <1>5, <1>8, <1>14, SubSeqFull DEF UpTo
  <2>2. PICK e : e = c + 3
    OBVIOUS
  <2>3. /\ c \in Nat \ {0} /\ e \in c + 1 .. Len(s) /\ e = m
        /\ s[c] = "NO" /\ s[c + 1] = "CARRIER" /\ s[e] = "LF"
    BY <1>8, <1>10, <1>14, <2>1, <2>2
  <2>4. \A j \in 1 .. c - 1 : s[j] # "NO"
    BY <1>10, <2>1 DEF Coded
  <2>5. ASSUME NEW j \in c .. e - 1 PROVE s[j] # "LF"
    <3>1. j = c \/ j = c + 1 \/ j = c + 2
      BY <1>8, <2>2
    <3> QED
      BY <1>10, <2>1, <3>1
  <2>6. CommandBytes(s)
           = [frames |-> Emit("AT_RESPONSE", UpTo(s, e))
                           \o Status("nocarrier", 0)
                           \o Emit("AT_RESPONSE", From(s, e + 1)),
              pending |-> <<>>, mode |-> FALSE]
    BY <1>9, <2>3, <2>4, <2>5, CommandNoCarrier
  <2>7. FailSent(r, u, m) /\ r.mode = FALSE
    BY <1>6, <2>1, <2>3, <2>6, SMTT(30) DEF FailSent
  <2>8. ASSUME NEW j \in 1 .. Len(u) PROVE u[j] \in Plain
    <3>1. j \in 1 .. c - 1 \/ j = c \/ j = c + 1 \/ j = c + 2 \/ j = c + 3
      BY <1>8
    <3> QED
      BY <1>10, <3>1 DEF Coded, Plain
  <2>9. u # <<>>
    BY <1>8, EmptySeq
  <2> m = Len(u) /\ b.phase = "before" /\ u # <<>>
    BY <1>4, <2>1, <2>9
  <2>13. \A j \in 1 .. Len(u) : u[j] \in Plain
    BY <2>8
  <2>14. PICK k \in Views : FailGone(a, q, b, u, m, r, k)
    BY <2>7, <2>13, FailTaken
  <2>10. <<>> = r.pending \o From(u, m + 1)
    BY <2>14 DEF FailGone
  <2>11. /\ SentOn(a, q, b, u, m, r, k, <<>>)
         /\ k.phase = "before" /\ k.data = b.data
    BY <2>14 DEF FailGone
  <2>12. Failing(k, <<>>)
    BY <1>4, <2>11 DEF Failing
  <2> QED
    BY <1>5, <1>6, <2>7, <2>10, <2>11, <2>12
<1>15. m < c \/ (c <= m /\ m < c + 3) \/ m = c + 3
  BY <1>8
<1> QED
  BY <1>12, <1>13, <1>14, <1>15

(* Call data, which may look as if NO CARRIER were to follow.              *)
LEMMA CutData ==
  ASSUME NEW x \in Seq(Bytes), NEW t \in Seq(Bytes), NEW i \in 1 .. Len(t) + 1
  PROVE  (x \o UpTo(t, i - 1)) \o From(t, i) = x \o t
<1>1. PICK v, w : v = UpTo(t, i - 1) /\ w = From(t, i)
  OBVIOUS
<1>2. v \in Seq(Bytes) /\ w \in Seq(Bytes) /\ t = v \o w
  BY <1>1, CutText
<1>3. (x \o v) \o w = x \o (v \o w)
  <2> v \in Seq(Bytes) /\ w \in Seq(Bytes)
    BY <1>2
  <2> QED
    BY ConcatAssociative, SMTT(30)
<1> QED
  BY <1>1, <1>2, <1>3

LEMMA CarryingRead ==
  ASSUME NEW a, NEW q \in Seq(Frames), NEW b \in Views, NEW u \in Seq(Bytes), NEW n, NEW d,
         NEW m \in 1 .. Len(u), Leads(a, q, b), Carrying(b, u, n, d),
         \A j \in 1 .. Len(u) : u[j] # "CARRIER"
  PROVE  LET r == DataBytes(UpTo(u, m))
             v == r.pending \o From(u, m + 1)
         IN r.mode = TRUE /\ \E c \in Views : SentOn(a, q, b, u, m, r, c, v) /\ Carrying(c, v, n, d)
<1>1. m \in Nat /\ m \in 0 .. Len(u) /\ m >= 1 /\ m <= Len(u) /\ Len(u) \in Nat
  BY LenProperties
<1>2. PICK s : s = UpTo(u, m)
  OBVIOUS
<1>3. PICK r : r = DataBytes(s)
  OBVIOUS
<1>4. s \in Seq(Bytes) /\ Len(s) = m /\ \A j \in 1 .. m : s[j] = u[j]
  BY <1>1, <1>2, UpToPlace
<1>5. s # <<>> /\ \A j \in 1 .. Len(s) : s[j] # "CARRIER"
  <2>1. \A j \in 1 .. m : j \in 1 .. Len(u)
    BY <1>1
  <2> QED
    BY <1>1, <1>4, <2>1, EmptySeq
<1>6. PICK i \in {Len(s), Len(s) + 1} :
        /\ HoldsFrom(r, s, i, "DATA_RX", TRUE)
        /\ i = Len(s) => s[Len(s)] = "NO"
        /\ s[Len(s)] = "NO" => i = Len(s)
  BY <1>3, <1>4, <1>5, DataHeld
<1>7. /\ i \in 1 .. m + 1 /\ m - i + 1 <= 4 /\ i \in 1 .. Len(u) + 1
      /\ (i = m \/ i = m + 1)
  BY <1>1, <1>4, <1>6
<1>8. ASSUME NEW j \in i .. m PROVE u[j] # "LF"
  <2>1. j = m /\ i = m
    BY <1>1, <1>7
  <2> QED
    BY <1>1, <1>4, <1>6, <2>1
<1>9. b.phase = "online" /\ b.bps = n /\ b.data \o u = d
  BY DEF Carrying
<1>10. HoldsFrom(r, UpTo(u, m), i, "DATA_RX", TRUE)
  BY <1>2, <1>6
<1>11. PICK c \in Views : HeldData(a, q, b, u, m, i, r, c)
  BY <1>1, <1>7, <1>8, <1>9, <1>10, HeldDataOn
<1>12. /\ SentOn(a, q, b, u, m, r, c, From(u, i))
       /\ c.phase = "online" /\ c.bps = n /\ c.data = b.data \o UpTo(u, i - 1)
  BY <1>9, <1>11 DEF HeldData
<1>13. From(u, i) = r.pending \o From(u, m + 1)
  BY <1>12 DEF SentOn
<1>14. c.data \o From(u, i) = d
  <2>1. b.data \in Seq(Bytes)
    BY DEF Views
  <2>2. (b.data \o UpTo(u, i - 1)) \o From(u, i) = b.data \o u
    BY <1>7, <2>1, CutData
  <2> QED
    BY <1>9, <1>12, <2>2
<1>15. Carrying(c, From(u, i), n, d)
  BY <1>12, <1>14 DEF Carrying
<1>16. r.mode = TRUE
  BY <1>6 DEF HoldsFrom
<1> QED
  BY <1>2, <1>3, <1>12, <1>13, <1>15, <1>16

(* The call has dropped: data, then the line.                              *)
DropTaken(r, x, u, c, d) ==
  /\ r.frames = Emit("DATA_RX", x) \o Emit("AT_RESPONSE", d)
                  \o Status("nocarrier", 0) \o Emit("AT_RESPONSE", <<>>)
  /\ r.pending = <<>>

DropGone(a, q, b, x, u, m, r, c) ==
  /\ <<>> = r.pending \o From(u, m + 1)
  /\ SentOn(a, q, b, u, m, r, c, <<>>)
  /\ c.phase = "after" /\ c.data = b.data \o x

LEMMA DropGoesOn ==
  ASSUME NEW a, NEW q \in Seq(Frames), NEW b \in Views, NEW u \in Seq(Bytes),
         NEW m, m = Len(u), NEW r, NEW t \in Seq(Bytes), NEW d, DropLine(d), u = t \o d,
         Leads(a, q, b), b.phase = "online",
         DropTaken(r, t, u, m, d)
  PROVE  \E c \in Views : DropGone(a, q, b, t, u, m, r, c)
<1>1. From(u, m + 1) = <<>>
  <2>1. PICK i : i = m + 1
    OBVIOUS
  <2>4. i \in 1 .. Len(u) + 1
    BY <2>1, LenProperties
  <2>2. From(u, i) \in Seq(Bytes) /\ Len(From(u, i)) = Len(u) - i + 1
    BY <2>4, FromPlace
  <2>3. Len(From(u, i)) = 0
    BY <2>1, <2>2, LenProperties
  <2> QED
    BY <2>1, <2>2, <2>3, EmptySeq
<1>2. PICK q1 : q1 = q \o Emit("DATA_RX", t)
  OBVIOUS
<1>3. PICK c1 \in Views : DataGoes(a, q, b, t, c1)
  BY DataOn
<1>4. /\ Leads(a, q1, c1) /\ c1.phase = "online" /\ c1.ends = b.ends
      /\ c1.data = b.data \o t
  BY <1>2, <1>3 DEF DataGoes
<1>5. q1 \in Seq(Frames)
  BY <1>2, DataOn
<1>6. PICK q2 : q2 = q1 \o Emit("AT_RESPONSE", d)
  OBVIOUS
<1>7. PICK c2 \in Views : DropGoes(a, q1, c1, c2)
  BY <1>4, <1>5, DropOn
<1>8. d \in Seq(Bytes) /\ d = NoCarrier \o Crlf
  BY DEF DropLine
<1>9. /\ Leads(a, q2, c2) /\ c2.phase = "after" /\ c2.data = b.data \o t
      /\ c2.ends = b.ends + 1
  BY <1>4, <1>6, <1>7, <1>8 DEF DropGoes
<1>10. q2 \in Seq(Frames)
  <2>1. q1 \o Emit("AT_RESPONSE", NoCarrier \o Crlf) \in Seq(Frames)
    BY <1>4, <1>5, DropOn
  <2> QED
    BY <1>6, <1>8, <2>1
<1>11. PICK q3 : q3 = q2 \o Status("nocarrier", 0)
  OBVIOUS
<1>12. q3 \in Seq(Frames) /\ Leads(a, q3, c2)
  BY <1>9, <1>10, <1>11, StatusOn
<1>13. q \o r.frames = q3
  <2>1. PICK f1, f2, f3 : /\ f1 = Emit("DATA_RX", t) /\ f2 = Emit("AT_RESPONSE", d)
                          /\ f3 = Status("nocarrier", 0)
    OBVIOUS
  <2>2. f1 \in Seq(Frames) /\ f2 \in Seq(Frames) /\ f3 \in Seq(Frames)
    BY <1>8, <2>1, Framed
  <2>3. Sent3(q, f1 \o f2 \o f3, f1, f2, f3)
    BY <2>2, OneByOne
  <2>4. r.frames = (f1 \o f2 \o f3) \o <<>>
    BY <2>1 DEF DropTaken, Emit
  <2>5. (f1 \o f2 \o f3) \in Seq(Frames)
    <3>1. f1 \o f2 \in Seq(Frames)
      BY <2>2, ConcatProperties
    <3> QED
      BY <2>2, <3>1, ConcatProperties
  <2>6. r.frames = f1 \o f2 \o f3
    <3>1. PICK f : f = f1 \o f2 \o f3
      OBVIOUS
    <3>2. f \in Seq(Frames) /\ f \o <<>> = f
      BY <2>5, <3>1, ConcatEmptySeq
    <3> QED
      BY <2>4, <3>1, <3>2
  <2> QED
    BY <1>2, <1>6, <1>11, <2>1, <2>3, <2>6 DEF Sent3
<1>14. <<>> = r.pending \o From(u, m + 1)
  <2>1. <<>> \in Seq(Bytes)
    BY EmptySeq
  <2>2. <<>> \o <<>> = <<>>
    BY <2>1, ConcatEmptySeq
  <2> QED
    BY <1>1, <2>2 DEF DropTaken
<1>15. c2.ends + Ends(<<>>) <= b.ends + Ends(u)
  <2>1. Ends(u) = Ends(t) + Ends(d)
    BY <1>8, EndsOfTwo
  <2>2. Ends(d) >= 1
    <3>2. Len(d) = 4 /\ d[2] = "CARRIER" /\ 2 \in 1 .. 4
      BY DEF DropLine
    <3>1. 2 \in EndsAt(d)
      BY <3>2 DEF EndsAt
    <3> QED
      BY <1>8, <3>1, EndsFinite
  <2>3. Ends(t) \in Nat /\ Ends(d) \in Nat /\ b.ends \in Nat
    BY <1>8, EndsFinite DEF Views
  <2> QED
    BY <1>9, <2>1, <2>2, <2>3, EndsOfNothing
<1>16. Short(<<>>)
  BY EmptySeq DEF Short
<1>17. SentOn(a, q, b, u, m, r, c2, <<>>)
  BY <1>12, <1>13, <1>14, <1>15, <1>16 DEF SentOn, DropTaken
<1> QED
  BY <1>9, <1>14, <1>17 DEF DropGone

LEMMA EndingRead ==
  ASSUME NEW a, NEW q \in Seq(Frames), NEW b \in Views, NEW u \in Seq(Bytes), NEW n,
         NEW d \in Seq(Bytes), NEW m \in 1 .. Len(u), Leads(a, q, b), Ending(b, u, n, d),
         \A j \in 1 .. Len(d) : d[j] # "CARRIER"
  PROVE  LET r == DataBytes(UpTo(u, m))
             v == r.pending \o From(u, m + 1)
         IN /\ r.mode \in BOOLEAN
            /\ \E c \in Views :
                 /\ SentOn(a, q, b, u, m, r, c, v)
                 /\ IF r.mode THEN Ending(c, v, n, d) ELSE Ended(c, v, d)
<1>1. PICK w : DropLine(w) /\ w = NoCarrier \o Crlf
  BY ItsLine
<1>2. PICK t \in Seq(Bytes) : u = t \o w /\ b.data \o t = d
  BY <1>1 DEF Ending
<1>3. /\ Len(t) \in Nat /\ Len(u) = Len(t) + 4
      /\ \A j \in 1 .. Len(t) : u[j] = t[j]
      /\ u[Len(t) + 1] = "NO" /\ u[Len(t) + 2] = "CARRIER"
      /\ u[Len(t) + 3] = "CR" /\ u[Len(t) + 4] = "LF"
      /\ From(u, Len(t) + 1) = w
  <2>1. DropAfter(u, t, w)
    BY <1>1, <1>2, DropText
  <2> QED
    BY <2>1 DEF DropAfter
<1>4. b.phase = "online" /\ b.bps = n /\ b.data \in Seq(Bytes)
  BY DEF Ending, Views
<1>5. \A j \in 1 .. Len(t) : t[j] # "CARRIER"
  <2>1. PICK x : x = b.data
    OBVIOUS
  <2> x \in Seq(Bytes) /\ d = x \o t
    BY <1>2, <1>4, <2>1
  <2>2. Len(d) = Len(x) + Len(t) /\ Len(x) \in Nat /\ Len(t) \in Nat
    BY Joined
  <2>3. \A j \in 1 .. Len(t) : d[Len(x) + j] = t[j]
    BY Joined
  <2>4. \A j \in 1 .. Len(t) : Len(x) + j \in 1 .. Len(d)
    BY <2>2
  <2> QED
    BY <2>3, <2>4
<1>6. PICK s : s = UpTo(u, m)
  OBVIOUS
<1>7. PICK r : r = DataBytes(s)
  OBVIOUS
<1>8. PICK c : c = Len(t) + 1
  OBVIOUS
<1>9. /\ m \in Nat /\ m \in 0 .. Len(u) /\ c \in Nat /\ 1 <= c /\ Len(u) = c + 3
      /\ m >= 1 /\ m <= c + 3 /\ Len(t) = c - 1
  BY <1>3, <1>8
<1>10. s \in Seq(Bytes) /\ Len(s) = m /\ \A j \in 1 .. m : s[j] = u[j]
  BY <1>6, <1>9, UpToPlace
<1>11. /\ u[c] = "NO" /\ u[c + 1] = "CARRIER" /\ u[c + 2] = "CR" /\ u[c + 3] = "LF"
       /\ \A j \in 1 .. c : u[j] # "CARRIER"
  <2>1. u[c] = "NO" /\ u[c + 1] = "CARRIER" /\ u[c + 2] = "CR" /\ u[c + 3] = "LF"
    BY <1>3, <1>8
  <2>2. ASSUME NEW j \in 1 .. c PROVE u[j] # "CARRIER"
    <3>1. j \in 1 .. Len(t) \/ j = c
      BY <1>9
    <3> QED
      BY <1>3, <1>5, <2>1, <3>1
  <2> QED
    BY <2>1, <2>2
<1>12. ASSUME NEW i \in 1 .. m + 1, i <= c, HoldsFrom(r, s, i, "DATA_RX", TRUE),
              \A j \in i .. m : u[j] # "LF", m - i + 1 <= 4
       PROVE  /\ r.mode = TRUE
              /\ \E k \in Views :
                   /\ SentOn(a, q, b, u, m, r, k, r.pending \o From(u, m + 1))
                   /\ Ending(k, r.pending \o From(u, m + 1), n, d)
  <2>1. HoldsFrom(r, UpTo(u, m), i, "DATA_RX", TRUE)
    BY <1>6, <1>12
  <2>2. PICK k \in Views : HeldData(a, q, b, u, m, i, r, k)
    BY <1>4, <1>9, <1>12, <2>1, HeldDataOn
  <2>3. /\ SentOn(a, q, b, u, m, r, k, From(u, i)) /\ k.phase = "online" /\ k.bps = n
        /\ k.data = b.data \o UpTo(u, i - 1)
    BY <1>4, <2>2 DEF HeldData
  <2>4. From(u, i) = r.pending \o From(u, m + 1)
    BY <2>3 DEF SentOn
  <2>5. PICK x : x = From(t, i)
    OBVIOUS
  <2>6. i \in 1 .. Len(t) + 1 /\ w \in Seq(Bytes)
    BY <1>1, <1>9, <1>12 DEF DropLine
  <2>7. From(u, i) = x \o w /\ UpTo(u, i - 1) = UpTo(t, i - 1)
    BY <1>2, <2>5, <2>6, CutOfJoin
  <2>8. x \in Seq(Bytes)
    BY <2>5, <2>6, FromPlace
  <2>9. k.data \o x = d
    <3>1. (b.data \o UpTo(t, i - 1)) \o From(t, i) = b.data \o t
      BY <1>4, <2>6, CutData
    <3> QED
      BY <1>2, <2>3, <2>5, <2>7, <3>1
  <2>10. Ending(k, From(u, i), n, d)
    BY <1>1, <2>3, <2>7, <2>8, <2>9 DEF Ending
  <2>11. r.mode = TRUE
    BY <1>12 DEF HoldsFrom
  <2> QED
    BY <2>3, <2>4, <2>10, <2>11
<1>13. CASE m <= c
  <2>1. s # <<>>
    BY <1>9, <1>10, EmptySeq
  <2>2. \A j \in 1 .. Len(s) : s[j] # "CARRIER"
    <3>1. \A j \in 1 .. m : j \in 1 .. c
      BY <1>9, <1>13
    <3> QED
      BY <1>10, <1>11, <3>1
  <2>3. PICK i \in {Len(s), Len(s) + 1} :
          /\ HoldsFrom(r, s, i, "DATA_RX", TRUE)
          /\ i = Len(s) => s[Len(s)] = "NO"
          /\ s[Len(s)] = "NO" => i = Len(s)
    BY <1>7, <1>10, <2>1, <2>2, DataHeld
  <2>4. m \in 1 .. m /\ s[m] = u[m]
    BY <1>9, <1>10
  <2>5. i = m \/ (i = m + 1 /\ m # c)
    BY <1>10, <1>11, <2>3, <2>4
  <2>6. i \in 1 .. m + 1 /\ i <= c /\ m - i + 1 <= 4
    BY <1>9, <1>13, <2>5, SMTT(30)
  <2>7. ASSUME NEW j \in i .. m PROVE u[j] # "LF"
    <3>1. j = m /\ i = m
      BY <1>9, <2>5
    <3> QED
      BY <1>10, <2>3, <2>4, <3>1
  <2>8. /\ r.mode = TRUE
        /\ \E k \in Views :
             /\ SentOn(a, q, b, u, m, r, k, r.pending \o From(u, m + 1))
             /\ Ending(k, r.pending \o From(u, m + 1), n, d)
    BY <1>12, <2>3, <2>6, <2>7
  <2> QED
    BY <1>6, <1>7, <2>8
<1>14. CASE c < m /\ m < c + 3
  <2>1. /\ c \in 1 .. m + 1 /\ c \in 1 .. m - 1 /\ c \in 1 .. m /\ c + 1 \in 1 .. m
        /\ m - c + 1 <= 4 /\ c <= c
    BY <1>9, <1>14
  <2>2. c \in 1 .. Len(s) - 1 /\ s[c] = "NO" /\ s[c + 1] = "CARRIER"
    BY <1>10, <1>11, <2>1
  <2>3. \A j \in 1 .. c : s[j] # "CARRIER"
    <3>1. \A j \in 1 .. c : j \in 1 .. m
      BY <1>9, <1>14
    <3> QED
      BY <1>10, <1>11, <3>1
  <2>4. ASSUME NEW j \in c .. m PROVE u[j] # "LF"
    <3>1. j = c \/ j = c + 1 \/ j = c + 2
      BY <1>9, <1>14
    <3> QED
      BY <1>11, <3>1
  <2>5. \A j \in c .. Len(s) : s[j] # "LF"
    <3>1. \A j \in c .. m : j \in 1 .. m
      BY <1>9
    <3> QED
      BY <1>10, <2>4, <3>1
  <2>6. HoldsFrom(r, s, c, "DATA_RX", TRUE)
    BY <1>7, <1>10, <2>2, <2>3, <2>5, DataHalfNoCarrier
  <2>7. /\ r.mode = TRUE
        /\ \E k \in Views :
             /\ SentOn(a, q, b, u, m, r, k, r.pending \o From(u, m + 1))
             /\ Ending(k, r.pending \o From(u, m + 1), n, d)
    BY <1>12, <2>1, <2>4, <2>6
  <2> QED
    BY <1>6, <1>7, <2>7
<1>15. CASE m = c + 3
  <2>1. s = u /\ m = Len(u)
    BY <1>6, <1>9, <1>15, SubSeqFull DEF UpTo
  <2>2. PICK e : e = c + 3
    OBVIOUS
  <2>3. /\ c \in Nat \ {0} /\ e \in c + 1 .. Len(s) /\ e = m /\ e = Len(s)
        /\ s[c] = "NO" /\ s[c + 1] = "CARRIER" /\ s[e] = "LF"
    BY <1>9, <1>10, <1>11, <1>15, <2>1, <2>2
  <2>4. \A j \in 1 .. c : s[j] # "CARRIER"
    BY <1>11, <2>1
  <2>5. ASSUME NEW j \in c .. e - 1 PROVE s[j] # "LF"
    <3>1. j = c \/ j = c + 1 \/ j = c + 2
      BY <1>9, <2>2
    <3> QED
      BY <1>11, <2>1, <3>1
  <2>6. DataBytes(s)
           = [frames |-> Emit("DATA_RX", UpTo(s, c - 1))
                           \o Emit("AT_RESPONSE", SubSeq(s, c, e))
                           \o Status("nocarrier", 0)
                           \o Emit("AT_RESPONSE", From(s, e + 1)),
              pending |-> <<>>, mode |-> FALSE]
    BY <1>10, <2>3, <2>4, <2>5, DataNoCarrier
  <2>7. UpTo(s, c - 1) = t
    <3>1. c \in 1 .. Len(t) + 1 /\ w \in Seq(Bytes)
      BY <1>1, <1>9 DEF DropLine
    <3>2. UpTo(t \o w, c - 1) = UpTo(t, c - 1)
      BY <3>1, CutOfJoin
    <3>3. UpTo(t, c - 1) = t
      BY <1>9, SubSeqFull DEF UpTo
    <3> QED
      BY <1>2, <2>1, <3>2, <3>3
  <2>8. SubSeq(s, c, e) = w
    BY <1>3, <1>8, <2>1, <2>3 DEF From
  <2>9. From(s, e + 1) = <<>>
    <3>1. PICK i : i = e + 1
      OBVIOUS
    <3>2. i \in 1 .. Len(s) + 1
      BY <1>9, <2>2, <2>3, <3>1
    <3>3. From(s, i) \in Seq(Bytes) /\ Len(From(s, i)) = Len(s) - i + 1
      BY <1>10, <3>2, FromPlace
    <3>4. Len(From(s, i)) = 0
      BY <1>9, <2>2, <2>3, <3>1, <3>3
    <3> QED
      BY <3>1, <3>3, <3>4, EmptySeq
  <2>10. DropTaken(r, t, u, m, w) /\ r.mode = FALSE
    BY <1>7, <2>6, <2>7, <2>8, <2>9 DEF DropTaken
  <2>11. PICK k \in Views : DropGone(a, q, b, t, u, m, r, k)
    <3> m = Len(u) /\ b.phase = "online" /\ DropLine(w) /\ u = t \o w
      BY <1>1, <1>2, <1>4, <2>1
    <3> QED
      BY <2>10, DropGoesOn
  <2>12. /\ <<>> = r.pending \o From(u, m + 1) /\ SentOn(a, q, b, u, m, r, k, <<>>)
         /\ k.phase = "after" /\ k.data = d
    BY <1>2, <2>11 DEF DropGone
  <2>13. Ended(k, <<>>, d)
    BY <2>12 DEF Ended
  <2> QED
    BY <1>6, <1>7, <2>10, <2>12, <2>13
<1>16. m <= c \/ (c < m /\ m < c + 3) \/ m = c + 3
  BY <1>9
<1> QED
  BY <1>13, <1>14, <1>15, <1>16

(* What the modem writes now is what it was foreseen to write.             *)
LEMMA FewEnds ==
  ASSUME NEW s \in Seq(Bytes)
  PROVE  /\ EndsAt(s) = {} => Ends(s) = 0
         /\ \A i : EndsAt(s) \subseteq {i} => Ends(s) <= 1
<1>1. EndsAt(s) = {} => Ends(s) = 0
  BY FS_EmptySet DEF Ends
<1>2. ASSUME NEW i, EndsAt(s) \subseteq {i} PROVE Ends(s) <= 1
  <2>1. IsFiniteSet({i}) /\ Cardinality({i}) = 1
    BY FS_Singleton
  <2>2. Cardinality(EndsAt(s)) <= Cardinality({i})
    BY <1>2, <2>1, FS_Subset
  <2> QED
    BY <2>1, <2>2 DEF Ends
<1> QED
  BY <1>1, <1>2

CodeLine(x) == /\ x \in Seq(Bytes) /\ Len(x) = 3 /\ x[1] \in {"RING", "BUSY"}
               /\ x[2] = "CR" /\ x[3] = "LF"

LEMMA ItsCode ==
  ASSUME NEW c \in {"RING", "BUSY"}
  PROVE  CodeLine(<<c>> \o Crlf) /\ Ends(<<c>> \o Crlf) <= 1
<1>1. PICK x : x = <<c>> \o Crlf
  OBVIOUS
<1>2. PICK v : v = <<c>>
  OBVIOUS
<1>3. Len(v) = 1 /\ v[1] = c
  BY <1>2
<1> v \in Seq(Bytes) /\ Crlf \in Seq(Bytes)
  BY <1>2, Words DEF Bytes
<1> x = v \o Crlf
  BY <1>1, <1>2
<1>4. x \in Seq(Bytes) /\ Len(x) = Len(v) + Len(Crlf)
  BY Joined
<1>5. \A i \in 1 .. Len(v) : x[i] = v[i]
  BY Joined
<1>6. \A i \in 1 .. Len(Crlf) : x[Len(v) + i] = Crlf[i]
  BY Joined
<1>7. Len(x) = 3 /\ x[1] = c /\ x[2] = "CR" /\ x[3] = "LF"
  <2>1. 1 \in 1 .. Len(v) /\ 1 \in 1 .. Len(Crlf) /\ 2 \in 1 .. Len(Crlf)
        /\ Len(v) + 1 = 2 /\ Len(v) + 2 = 3
    BY <1>3, Words
  <2>2. x[Len(v) + 1] = Crlf[1] /\ x[Len(v) + 2] = Crlf[2] /\ x[1] = v[1]
    BY <1>5, <1>6, <2>1
  <2> QED
    BY <1>3, <1>4, <2>1, <2>2, Words
<1>8. EndsAt(x) \subseteq {1}
  <2>1. ASSUME NEW i \in EndsAt(x) PROVE i = 1
    <3>1. i \in 1 .. 3 /\ x[i] \in {"BUSY", "CARRIER"}
      BY <1>7, <2>1 DEF EndsAt
    <3>2. i = 1 \/ i = 2 \/ i = 3
      BY <3>1
    <3> QED
      BY <1>7, <3>1, <3>2
  <2> QED
    BY <2>1
<1>9. Ends(x) <= 1
  BY <1>4, <1>8, FewEnds
<1> QED
  BY <1>1, <1>4, <1>7, <1>9 DEF CodeLine

LEMMA ItsConnect ==
  ASSUME NEW n \in Rates
  PROVE  ConnectLine(Connect \o Rate(n) \o Crlf, 1, n)
         /\ Ends(Connect \o Rate(n) \o Crlf) = 0
         /\ Connect \o Rate(n) \o Crlf \in Seq(Bytes)
<1>1. PICK v, w : v = Connect /\ w = Rate(n)
  OBVIOUS
<1>2. PICK y : y = v \o w
  OBVIOUS
<1>3. PICK x : x = y \o Crlf
  OBVIOUS
<1>4. v \in Seq(Bytes) /\ w \in Seq(Bytes) /\ Crlf \in Seq(Bytes)
  <2>1. <<"CON", "NECT">> \in Seq(Bytes)
    BY DEF Bytes
  <2>2. <<"RATE">> \in Seq(Bytes)
    BY DEF Bytes
  <2>3. <<>> \in Seq(Bytes)
    BY EmptySeq
  <2> QED
    BY <1>1, <2>1, <2>2, <2>3, Words DEF Connect, Rate
<1>5. y \in Seq(Bytes) /\ Len(y) = Len(v) + Len(w)
  BY <1>2, <1>4, Joined
<1>6. \A i \in 1 .. Len(v) : y[i] = v[i]
  BY <1>2, <1>4, Joined
<1>7. \A i \in 1 .. Len(w) : y[Len(v) + i] = w[i]
  BY <1>2, <1>4, Joined
<1>8. Len(v) = 2 /\ v[1] = "CON" /\ v[2] = "NECT"
  BY <1>1 DEF Connect
<1>9. IF n = 0 THEN Len(w) = 0 ELSE Len(w) = 1 /\ w[1] = "RATE"
  BY <1>1 DEF Rate
<1>10. y[1] = "CON" /\ y[2] = "NECT"
  <2>1. 1 \in 1 .. Len(v) /\ 2 \in 1 .. Len(v)
    BY <1>8
  <2> QED
    BY <1>6, <1>8, <2>1
<1>11. IF n = 0 THEN Len(y) = 2 ELSE Len(y) = 3 /\ y[3] = "RATE"
  <2>1. n = 0 => Len(y) = 2
    BY <1>5, <1>8, <1>9
  <2>2. CASE n # 0
    <3>1. Len(w) = 1 /\ w[1] = "RATE" /\ Len(v) = 2
      BY <1>8, <1>9, <2>2
    <3>2. Len(y) = 3 /\ 1 \in 1 .. Len(w) /\ Len(v) + 1 = 3
      BY <1>5, <3>1
    <3>3. y[Len(v) + 1] = w[1]
      BY <1>7, <3>2
    <3> QED
      BY <2>2, <3>1, <3>2, <3>3
  <2> QED
    BY <2>1, <2>2
<1>12. Len(Crlf) = 2 /\ Crlf[1] = "CR" /\ Crlf[2] = "LF"
  BY Words
<1>13. x \in Seq(Bytes) /\ Len(x) = Len(y) + Len(Crlf)
  <2> y \in Seq(Bytes) /\ Crlf \in Seq(Bytes)
    BY <1>4, <1>5
  <2> QED
    BY <1>3, Joined
<1>14. \A i \in 1 .. Len(y) : x[i] = y[i]
  BY <1>3, <1>4, <1>5, Joined
<1>15. \A i \in 1 .. Len(Crlf) : x[Len(y) + i] = Crlf[i]
  <2> y \in Seq(Bytes) /\ Crlf \in Seq(Bytes)
    BY <1>4, <1>5
  <2> QED
    BY <1>3, Joined
<1>16. 1 \in 1 .. Len(y) /\ 2 \in 1 .. Len(y) /\ 1 \in 1 .. Len(Crlf) /\ 2 \in 1 .. Len(Crlf)
  BY <1>11, <1>12
<1>17. x[1] = "CON" /\ x[2] = "NECT" /\ x[Len(y) + 1] = "CR" /\ x[Len(y) + 2] = "LF"
  BY <1>10, <1>12, <1>14, <1>15, <1>16
<1>18. n # 0 => x[3] = "RATE"
  <2>1. n # 0 => 3 \in 1 .. Len(y)
    BY <1>11
  <2> QED
    BY <1>11, <1>14, <2>1
<1>19. n = 0 => ConnectLine(x, 1, n) /\ EndsAt(x) = {}
  <2> SUFFICES ASSUME n = 0 PROVE ConnectLine(x, 1, n) /\ EndsAt(x) = {}
    OBVIOUS
  <2>1. Len(y) = 2
    BY <1>11
  <2>2. Len(x) = 4 /\ Len(y) + 1 = 3 /\ Len(y) + 2 = 4
    BY <1>12, <1>13, <2>1
  <2>3. x[1] = "CON" /\ x[2] = "NECT" /\ x[3] = "CR" /\ x[4] = "LF"
    BY <1>17, <2>2
  <2>4. ConnectLine(x, 1, n)
    BY <2>2, <2>3 DEF ConnectLine, Rates
  <2>5. ASSUME NEW i \in 1 .. Len(x) PROVE x[i] \notin {"BUSY", "CARRIER"}
    <3>1. i = 1 \/ i = 2 \/ i = 3 \/ i = 4
      BY <2>2
    <3> QED
      BY <2>3, <3>1
  <2> QED
    BY <2>4, <2>5 DEF EndsAt
<1>20. n # 0 => ConnectLine(x, 1, n) /\ EndsAt(x) = {}
  <2> SUFFICES ASSUME n # 0 PROVE ConnectLine(x, 1, n) /\ EndsAt(x) = {}
    OBVIOUS
  <2>1. Len(y) = 3
    BY <1>11
  <2>2. Len(x) = 5 /\ Len(y) + 1 = 4 /\ Len(y) + 2 = 5
    BY <1>12, <1>13, <2>1
  <2>3. /\ x[1] = "CON" /\ x[2] = "NECT" /\ x[3] = "RATE" /\ x[4] = "CR"
        /\ x[5] = "LF"
    BY <1>17, <1>18, <2>2
  <2>4. ConnectLine(x, 1, n)
    BY <2>2, <2>3 DEF ConnectLine
  <2>5. ASSUME NEW i \in 1 .. Len(x) PROVE x[i] \notin {"BUSY", "CARRIER"}
    <3>1. i = 1 \/ i = 2 \/ i = 3 \/ i = 4 \/ i = 5
      BY <2>2
    <3> QED
      BY <2>3, <3>1
  <2> QED
    BY <2>4, <2>5 DEF EndsAt
<1>21. ConnectLine(x, 1, n) /\ EndsAt(x) = {}
  BY <1>19, <1>20
<1>22. x = Connect \o Rate(n) \o Crlf
  BY <1>1, <1>2, <1>3
<1> QED
  BY <1>13, <1>21, <1>22, FewEnds

LEMMA WaitingMore ==
  ASSUME NEW b \in Views, NEW u \in Seq(Bytes), NEW x, Waiting(b, u), CodeLine(x)
  PROVE  Waiting(b, u \o x)
<1> x \in Seq(Bytes)
  BY DEF CodeLine
<1>1. PICK v : v = u \o x
  OBVIOUS
<1>2. v \in Seq(Bytes) /\ Len(v) = Len(u) + Len(x) /\ Len(u) \in Nat
  BY <1>1, Joined
<1>3. \A i \in 1 .. Len(u) : v[i] = u[i]
  BY <1>1, Joined
<1>4. \A i \in 1 .. Len(x) : v[Len(u) + i] = x[i]
  BY <1>1, Joined
<1>5. /\ Len(x) = 3 /\ x[1] \in {"RING", "BUSY"} /\ x[2] = "CR" /\ x[3] = "LF"
      /\ 1 \in 1 .. Len(x) /\ 2 \in 1 .. Len(x) /\ 3 \in 1 .. Len(x)
  BY DEF CodeLine
<1>6. /\ v[Len(u) + 1] \in {"RING", "BUSY"} /\ v[Len(u) + 2] = "CR"
      /\ v[Len(u) + 3] = "LF" /\ Len(v) = Len(u) + 3
  BY <1>2, <1>4, <1>5
<1>7. ASSUME NEW i \in 1 .. Len(v) PROVE v[i] \in Coded
  <2>1. i \in 1 .. Len(u) \/ i = Len(u) + 1 \/ i = Len(u) + 2 \/ i = Len(u) + 3
    BY <1>2, <1>6
  <2> QED
    BY <1>3, <1>6, <2>1 DEF Waiting, Coded
<1>8. v # <<>> /\ v[Len(v)] = "LF"
  BY <1>2, <1>6, EmptySeq
<1>9. Waiting(b, v)
  BY <1>7, <1>8 DEF Waiting
<1> QED
  BY <1>1, <1>9

LEMMA WaitingConnect ==
  ASSUME NEW b \in Views, NEW u \in Seq(Bytes), NEW x \in Seq(Bytes), NEW n,
         Waiting(b, u), ConnectLine(x, 1, n)
  PROVE  Connecting(b, u \o x, n, <<>>)
<1>1. PICK v : v = u \o x
  OBVIOUS
<1>2. v \in Seq(Bytes) /\ Len(v) = Len(u) + Len(x) /\ Len(u) \in Nat /\ Len(x) \in Nat
  BY <1>1, Joined
<1>3. \A i \in 1 .. Len(u) : v[i] = u[i]
  BY <1>1, Joined
<1>4. \A i \in 1 .. Len(x) : v[Len(u) + i] = x[i]
  BY <1>1, Joined
<1>5. PICK c : c = Len(u) + 1
  OBVIOUS
<1>6. /\ x[1] = "CON" /\ x[2] = "NECT" /\ n \in Rates
      /\ IF n = 0 THEN /\ Len(x) = 4
                       /\ x[3] = "CR" /\ x[4] = "LF"
                  ELSE /\ Len(x) = 5
                       /\ x[3] = "RATE" /\ x[4] = "CR" /\ x[5] = "LF"
  BY <1>2 DEF ConnectLine
<1>7. /\ v[Len(u) + 1] = x[1] /\ v[Len(u) + 2] = x[2]
      /\ v[Len(u) + 3] = x[3] /\ v[Len(u) + 4] = x[4]
      /\ n # 0 => v[Len(u) + 5] = x[5]
  <2>1. /\ 1 \in 1 .. Len(x) /\ 2 \in 1 .. Len(x) /\ 3 \in 1 .. Len(x) /\ 4 \in 1 .. Len(x)
    BY <1>6
  <2>3. n # 0 => Len(x) = 5
    BY <1>6
  <2>2. Len(x) = 5 => 5 \in 1 .. Len(x)
    OBVIOUS
  <2>4. v[Len(u) + 1] = x[1] /\ v[Len(u) + 2] = x[2] /\ v[Len(u) + 3] = x[3]
        /\ v[Len(u) + 4] = x[4]
    BY <1>4, <2>1
  <2>5. Len(x) = 5 => v[Len(u) + 5] = x[5]
    BY <1>4, <2>2
  <2> QED
    BY <2>3, <2>4, <2>5
<1>8. /\ c \in Nat /\ c + 1 = Len(u) + 2 /\ c + 2 = Len(u) + 3 /\ c + 3 = Len(u) + 4
      /\ c + 4 = Len(u) + 5 /\ c - 1 = Len(u)
  BY <1>2, <1>5
<1>9. \A i \in 1 .. c - 1 : v[i] \in Coded
  BY <1>3, <1>8 DEF Waiting
<1>10. c > 1 => v[c - 1] = "LF"
  <2>1. c > 1 => u # <<>> /\ Len(u) \in 1 .. Len(u)
    BY <1>2, <1>8, EmptySeq
  <2> QED
    BY <1>3, <1>8, <2>1 DEF Waiting
<1>11. c = 1 => ~b.open
  <2>1. c = 1 => u = <<>>
    BY <1>2, <1>8, EmptySeq
  <2> QED
    BY <2>1 DEF Waiting
<1>12. c \in 1 .. Len(v) /\ IF n = 0 THEN Len(v) = c + 3 ELSE Len(v) = c + 4
  <2>1. IF n = 0 THEN Len(x) = 4 ELSE Len(x) = 5
    BY <1>6
  <2>2. Len(x) = 4 => Len(v) = c + 3 /\ c \in 1 .. Len(v)
    BY <1>2, <1>5
  <2>3. Len(x) = 5 => Len(v) = c + 4 /\ c \in 1 .. Len(v)
    BY <1>2, <1>5
  <2> QED
    BY <2>1, <2>2, <2>3
<1>13. /\ v[c] = "CON" /\ v[c + 1] = "NECT"
       /\ IF n = 0 THEN v[c + 2] = "CR" /\ v[c + 3] = "LF"
          ELSE v[c + 2] = "RATE" /\ v[c + 3] = "CR" /\ v[c + 4] = "LF"
  BY <1>5, <1>6, <1>7, <1>8
<1>14. \A i \in 1 .. c - 1 : v[i] \in Plain
  BY <1>9 DEF Coded, Plain
<1>15. ConnectLine(v, c, n)
  BY <1>6, <1>10, <1>12, <1>13, <1>14 DEF ConnectLine
<1>16. v = v \o <<>>
  BY <1>2, ConcatEmptySeq
<1>17. Connecting(b, v, n, <<>>)
  BY <1>2, <1>8, <1>9, <1>11, <1>15, <1>16 DEF Connecting, Waiting
<1> QED
  BY <1>1, <1>17

LEMMA ConnectingMore ==
  ASSUME NEW b \in Views, NEW u, NEW n, NEW d \in Seq(Bytes),
         NEW x \in Seq(Bytes), Connecting(b, u, n, d)
  PROVE  Connecting(b, u \o x, n, d \o x)
<1>1. PICK l \in Seq(Bytes), c \in Nat :
        /\ ConnectLine(l, c, n) /\ \A i \in 1 .. c - 1 : l[i] \in Coded
        /\ c = 1 => ~b.open
        /\ u = l \o d
  BY DEF Connecting
<1>2. (l \o d) \o x = l \o (d \o x)
  BY ConcatAssociative
<1> QED
  BY <1>1, <1>2 DEF Connecting

LEMMA CarryingMore ==
  ASSUME NEW b \in Views, NEW u \in Seq(Bytes), NEW n, NEW d,
         NEW x \in Seq(Bytes), Carrying(b, u, n, d)
  PROVE  Carrying(b, u \o x, n, d \o x)
<1>1. PICK y : y = b.data
  OBVIOUS
<1> y \in Seq(Bytes)
  BY <1>1 DEF Views
<1>2. (y \o u) \o x = y \o (u \o x)
  BY ConcatAssociative
<1> QED
  BY <1>1, <1>2 DEF Carrying

LEMMA CarryingDrops ==
  ASSUME NEW b \in Views, NEW u \in Seq(Bytes), NEW n, NEW d, Carrying(b, u, n, d)
  PROVE  Ending(b, u \o (Crlf \o (NoCarrier \o Crlf)), n, d \o Crlf)
<1>1. PICK w : w = NoCarrier \o Crlf /\ DropLine(w)
  BY ItsLine
<1> w \in Seq(Bytes) /\ Crlf \in Seq(Bytes)
  BY <1>1, Words DEF DropLine
<1>2. (u \o Crlf) \o w = u \o (Crlf \o w)
  BY ConcatAssociative, SMTT(30)
<1>3. u \o Crlf \in Seq(Bytes)
  BY ConcatProperties
<1>4. PICK y : y = b.data
  OBVIOUS
<1> y \in Seq(Bytes)
  BY <1>4 DEF Views
<1>5. (y \o u) \o Crlf = y \o (u \o Crlf)
  BY ConcatAssociative
<1>6. PICK t : t = u \o Crlf
  OBVIOUS
<1>7. /\ t \in Seq(Bytes) /\ u \o (Crlf \o (NoCarrier \o Crlf)) = t \o (NoCarrier \o Crlf)
      /\ b.data \o t = d \o Crlf
  BY <1>1, <1>2, <1>3, <1>4, <1>5, <1>6 DEF Carrying
<1> QED
  BY <1>7 DEF Ending, Carrying

LEMMA WaitingFails ==
  ASSUME NEW b \in Views, NEW u \in Seq(Bytes), Waiting(b, u)
  PROVE  Failing(b, u \o (NoCarrier \o Crlf))
BY DEF Waiting, Failing

-----------------------------------------------------------------------------
(* The invariant.  a is what the host knows, b what it will know when it   *)
(* has read toHost; pending \o pty is what the modem wrote beyond that.    *)
SentText(d) == d \in Seq(Bytes) /\ \A i \in 1 .. Len(d) : d[i] \in {"d", "NO", "CR", "LF"}

Past ==
  /\ modem \in {"idle", "training"} => ~made /\ ~dataMode /\ sent = <<>>
  /\ modem = "online" => made
  /\ dataMode => made /\ modem \in {"online", "over"}
  /\ SentText(sent)

Foreseen(b, u, mo, ma, n, d, dm, k) ==
  /\ b.ends + Ends(u) <= k + (IF mo = "over" THEN 1 ELSE 0)
  /\ (mo \in {"idle", "training"}) => Waiting(b, u)
  /\ (mo = "online" /\ ~dm) => Connecting(b, u, n, d)
  /\ (mo = "over" /\ ~dm /\ ~ma) => Failing(b, u)
  /\ (mo = "online" /\ dm) => Carrying(b, u, n, d)
  /\ (mo = "over" /\ dm) => Ending(b, u, n, d)
  /\ (mo = "over" /\ ~dm /\ ma) => Ended(b, u, d)

Known(a, b) ==
  /\ Sees(a, host, lineBuf) /\ Leads(a, toHost, b)
  /\ Foreseen(b, pending \o pty, modem, made, rate, sent, dataMode, codes)

IInv ==
  /\ TypeOK /\ toHost \in Seq(Frames) /\ Short(pending) /\ Past /\ NoJunkCommands
  /\ \E a, b \in Views : Known(a, b)

(* The invariant holds at first, and every step keeps it.                  *)
LEMMA InitKnown == Init => IInv
<1> SUFFICES ASSUME Init PROVE IInv
  OBVIOUS
<1>1. <<>> \in Seq(Bytes) /\ <<>> \in Seq(Frames) /\ Len(<<>>) = 0
  BY EmptySeq
<1>2. host \in Host
  BY <1>1 DEF Init, Host
<1>3. TypeOK
  <2>1. 0 \in 0 .. CodeMax
    BY ControlAssumption
  <2>2. codes \in 0 .. CodeMax /\ rate \in Rates /\ Len(pending) <= 5
    BY <1>1, <2>1 DEF Init, Rates
  <2>3. sent \in Seq(Bytes) /\ pty \in Seq(Bytes) /\ pending \in Seq(Bytes)
        /\ lineBuf \in Seq(Bytes)
    BY <1>1 DEF Init
  <2> QED
    BY <1>2, <2>2, <2>3 DEF Init, TypeOK
<1>4. Short(pending) /\ Past /\ NoJunkCommands /\ toHost \in Seq(Frames)
  BY <1>1 DEF Init, Short, Past, NoJunkCommands, SentText
<1>5. PICK b : b = [phase |-> "before", open |-> FALSE, bps |-> 0, ends |-> 0, data |-> <<>>]
  OBVIOUS
<1>6. b \in Views
  BY <1>1, <1>5 DEF Views
<1>7. Sees(b, host, lineBuf)
  BY <1>1, <1>5, EndsOfNothing DEF Init, Sees
<1>8. Leads(b, toHost, b)
  BY <1>6, LeadsNowhere DEF Init
<1>9. pending \o pty = <<>>
  BY <1>1, ConcatEmptySeq DEF Init
<1>10. Foreseen(b, <<>>, modem, made, rate, sent, dataMode, codes)
  <2>1. Waiting(b, <<>>)
    BY <1>1, <1>5 DEF Waiting
  <2>2. b.ends = 0
    BY <1>5
  <2> QED
    BY <2>1, <2>2, EndsOfNothing DEF Init, Foreseen
<1>11. Known(b, b)
  BY <1>7, <1>8, <1>9, <1>10 DEF Known
<1> QED
  BY <1>3, <1>4, <1>6, <1>11 DEF IInv

LEMMA SentMore ==
  ASSUME NEW d, NEW x, SentText(d), SentText(x)
  PROVE  SentText(d \o x)
<1> d \in Seq(Bytes) /\ x \in Seq(Bytes)
  BY DEF SentText
<1>1. PICK v : v = d \o x
  OBVIOUS
<1>2. v \in Seq(Bytes) /\ Len(v) = Len(d) + Len(x) /\ Len(d) \in Nat /\ Len(x) \in Nat
  BY <1>1, Joined
<1>3. \A i \in 1 .. Len(d) : v[i] = d[i]
  BY <1>1, Joined
<1>4. \A i \in 1 .. Len(x) : v[Len(d) + i] = x[i]
  BY <1>1, Joined
<1>5. ASSUME NEW i \in 1 .. Len(v) PROVE v[i] \in {"d", "NO", "CR", "LF"}
  <2>1. i \in 1 .. Len(d) \/ (i - Len(d) \in 1 .. Len(x) /\ Len(d) + (i - Len(d)) = i)
    BY <1>2
  <2> QED
    BY <1>3, <1>4, <2>1 DEF SentText
<1> QED
  BY <1>1, <1>2, <1>5 DEF SentText

(* What the modem writes is foreseen as well.                              *)
LEMMA ModemStep ==
  ASSUME NEW x \in Seq(Bytes), IInv, pty' = pty \o x,
         UNCHANGED <<pending, toHost, host, lineBuf, typed>>, TypeOK', Past',
         \A b \in Views :
           Foreseen(b, pending \o pty, modem, made, rate, sent, dataMode, codes) =>
             Foreseen(b, (pending \o pty) \o x, modem', made', rate', sent', dataMode', codes')
  PROVE  IInv'
<1>1. PICK a \in Views, b \in Views : Known(a, b)
  BY DEF IInv
<1>2. (pending \o pty) \o x = pending \o (pty \o x)
  <2> pending \in Seq(Bytes) /\ pty \in Seq(Bytes)
    BY DEF IInv, TypeOK
  <2> QED
    BY ConcatAssociative, SMTT(30)
<1>3. Foreseen(b, pending' \o pty', modem', made', rate', sent', dataMode', codes')
  BY <1>1, <1>2 DEF Known
<1>4. Sees(a, host', lineBuf') /\ Leads(a, toHost', b)
  BY <1>1 DEF Known
<1>5. Known(a, b)'
  BY <1>3, <1>4 DEF Known
<1>6. (toHost \in Seq(Frames))' /\ Short(pending)' /\ NoJunkCommands'
  BY DEF IInv, NoJunkCommands
<1> QED
  BY <1>5, <1>6 DEF IInv

LEMMA CodeKept ==
  ASSUME NEW c \in Codes, IInv, ModemCode(c)
  PROVE  IInv'
<1>1. PICK x : x = <<c>> \o Crlf
  OBVIOUS
<1>2. CodeLine(x) /\ Ends(x) <= 1
  BY <1>1, ItsCode, ControlAssumption
<1> x \in Seq(Bytes)
  BY <1>2 DEF CodeLine
<1>3. pty' = pty \o x
  BY <1>1 DEF ModemCode, Says
<1>4. /\ modem = "idle" /\ codes < CodeMax /\ codes' = codes + 1
      /\ UNCHANGED <<modem, made, rate, sent, vmVars, toHost, toVm, hostVars, ata, typed>>
  BY DEF ModemCode
<1>5. TypeOK' /\ codes \in Nat
  <2>1. codes' \in 0 .. CodeMax /\ codes \in Nat
    BY <1>4, ControlAssumption DEF IInv, TypeOK
  <2>2. pty' \in Seq(Bytes)
    BY <1>3, ConcatProperties DEF IInv, TypeOK
  <2> QED
    BY <1>4, <2>1, <2>2 DEF IInv, TypeOK, vmVars, hostVars
<1>6. Past'
  BY <1>4 DEF IInv, Past, vmVars
<1>7. ASSUME NEW b \in Views,
             Foreseen(b, pending \o pty, modem, made, rate, sent, dataMode, codes)
      PROVE  Foreseen(b, (pending \o pty) \o x, modem', made', rate', sent', dataMode', codes')
  <2>1. PICK u : u = pending \o pty
    OBVIOUS
  <2> u \in Seq(Bytes)
    BY <2>1, ConcatProperties DEF IInv, TypeOK
  <2>2. Waiting(b, u \o x)
    BY <1>2, <1>4, <1>7, <2>1, WaitingMore DEF Foreseen
  <2>3. b.ends + Ends(u \o x) <= codes'
    <3>1. Ends(u \o x) = Ends(u) + Ends(x)
      BY EndsOfTwo
    <3>2. Ends(u) \in Nat /\ Ends(x) \in Nat /\ b.ends \in Nat
      BY EndsFinite DEF Views
    <3>3. b.ends + Ends(u) <= codes
      BY <1>4, <1>5, <1>7, <2>1 DEF Foreseen
    <3> QED
      BY <1>2, <1>4, <1>5, <3>1, <3>2, <3>3
  <2>4. modem' = "idle" /\ codes' + 0 = codes'
    BY <1>4, <1>5
  <2> QED
    BY <2>1, <2>2, <2>3, <2>4 DEF Foreseen
<1> QED
  BY <1>3, <1>4, <1>5, <1>6, <1>7, ModemStep DEF vmVars, hostVars

LEMMA ConnectKept ==
  ASSUME NEW r \in Rates, IInv, ModemConnects(r)
  PROVE  IInv'
<1>1. PICK x : x = Connect \o Rate(r) \o Crlf
  OBVIOUS
<1>2. ConnectLine(x, 1, r) /\ Ends(x) = 0 /\ x \in Seq(Bytes)
  BY <1>1, ItsConnect
<1> x \in Seq(Bytes)
  BY <1>2
<1>3. pty' = pty \o x
  BY <1>1 DEF ModemConnects, Says
<1>4. /\ modem = "training" /\ modem' = "online" /\ made' = TRUE /\ rate' = r
      /\ UNCHANGED <<sent, codes, vmVars, toHost, toVm, hostVars, ata, typed>>
  BY DEF ModemConnects
<1>5. TypeOK'
  <2>1. pty' \in Seq(Bytes)
    BY <1>3, ConcatProperties DEF IInv, TypeOK
  <2> QED
    BY <1>4, <2>1 DEF IInv, TypeOK, vmVars, hostVars
<1>6. Past' /\ dataMode' = FALSE /\ sent' = <<>>
  BY <1>4 DEF IInv, Past, vmVars
<1>7. ASSUME NEW b \in Views,
             Foreseen(b, pending \o pty, modem, made, rate, sent, dataMode, codes)
      PROVE  Foreseen(b, (pending \o pty) \o x, modem', made', rate', sent', dataMode', codes')
  <2>1. PICK u : u = pending \o pty
    OBVIOUS
  <2> u \in Seq(Bytes)
    BY <2>1, ConcatProperties DEF IInv, TypeOK
  <2>2. Waiting(b, u)
    BY <1>4, <1>7, <2>1 DEF Foreseen
  <2>3. Connecting(b, u \o x, r, <<>>)
    BY <1>2, <2>2, WaitingConnect
  <2>4. b.ends + Ends(u \o x) <= codes
    <3>1. Ends(u \o x) = Ends(u) + Ends(x)
      BY EndsOfTwo
    <3>2. Ends(u) \in Nat /\ Ends(x) \in Nat /\ b.ends \in Nat /\ codes \in Nat
      BY EndsFinite DEF Views, IInv, TypeOK
    <3>3. b.ends + Ends(u) <= codes
      BY <1>4, <1>7, <2>1, <3>2 DEF Foreseen
    <3> QED
      BY <1>2, <3>1, <3>2, <3>3
  <2>5. codes' + 0 = codes' /\ codes' = codes
    BY <1>4 DEF IInv, TypeOK
  <2> QED
    BY <1>4, <1>6, <2>1, <2>3, <2>4, <2>5 DEF Foreseen
<1> QED
  BY <1>3, <1>4, <1>5, <1>6, <1>7, ModemStep DEF vmVars, hostVars

LEMMA FailKept ==
  ASSUME IInv, ModemFails
  PROVE  IInv'
<1>1. PICK x : x = NoCarrier \o Crlf /\ DropLine(x)
  BY ItsLine
<1> x \in Seq(Bytes)
  BY <1>1 DEF DropLine
<1>2. Ends(x) <= 1
  <2>1. ASSUME NEW i \in EndsAt(x) PROVE i = 2
    <3>1. Len(x) = 4 /\ x[1] = "NO" /\ x[2] = "CARRIER" /\ x[3] = "CR" /\ x[4] = "LF"
      BY <1>1 DEF DropLine
    <3>2. i \in 1 .. 4 /\ x[i] \in {"BUSY", "CARRIER"}
      BY <2>1, <3>1 DEF EndsAt
    <3>3. i = 1 \/ i = 2 \/ i = 3 \/ i = 4
      BY <3>2
    <3> QED
      BY <3>1, <3>2, <3>3
  <2>2. EndsAt(x) \subseteq {2}
    BY <2>1
  <2> QED
    BY <2>2, FewEnds
<1>3. pty' = pty \o x
  BY <1>1 DEF ModemFails, Says
<1>4. /\ modem = "training" /\ modem' = "over"
      /\ UNCHANGED <<made, rate, sent, codes, vmVars, toHost, toVm, hostVars, ata, typed>>
  BY DEF ModemFails
<1>5. TypeOK'
  <2>1. pty' \in Seq(Bytes)
    BY <1>3, ConcatProperties DEF IInv, TypeOK
  <2> QED
    BY <1>4, <2>1 DEF IInv, TypeOK, vmVars, hostVars
<1>6. Past' /\ dataMode' = FALSE /\ made' = FALSE
  BY <1>4 DEF IInv, Past, TypeOK, vmVars
<1>7. ASSUME NEW b \in Views,
             Foreseen(b, pending \o pty, modem, made, rate, sent, dataMode, codes)
      PROVE  Foreseen(b, (pending \o pty) \o x, modem', made', rate', sent', dataMode', codes')
  <2>1. PICK u : u = pending \o pty
    OBVIOUS
  <2> u \in Seq(Bytes)
    BY <2>1, ConcatProperties DEF IInv, TypeOK
  <2>2. Failing(b, u \o x)
    BY <1>1, <1>4, <1>7, <2>1, WaitingFails DEF Foreseen
  <2>3. b.ends + Ends(u \o x) <= codes + 1
    <3>1. Ends(u \o x) = Ends(u) + Ends(x)
      BY EndsOfTwo
    <3>2. Ends(u) \in Nat /\ Ends(x) \in Nat /\ b.ends \in Nat /\ codes \in Nat
      BY EndsFinite DEF Views, IInv, TypeOK
    <3>3. b.ends + Ends(u) <= codes
      BY <1>4, <1>7, <2>1, <3>2 DEF Foreseen
    <3> QED
      BY <1>2, <3>1, <3>2, <3>3
  <2> QED
    BY <1>4, <1>6, <2>1, <2>2, <2>3 DEF Foreseen
<1> QED
  BY <1>3, <1>4, <1>5, <1>6, <1>7, ModemStep DEF vmVars, hostVars

LEMMA CallerKept ==
  ASSUME NEW c \in CallerBytes, IInv, CallerSends(c)
  PROVE  IInv'
<1>1. PICK x : x = <<c>>
  OBVIOUS
<1>2. c \in {"d", "NO"}
  BY ControlAssumption
<1>3. x \in Seq(Bytes) /\ Len(x) = 1 /\ x[1] = c
  BY <1>1, <1>2 DEF Bytes
<1> x \in Seq(Bytes)
  BY <1>3
<1>4. Ends(x) = 0
  <2>1. EndsAt(x) = {}
    BY <1>2, <1>3 DEF EndsAt
  <2> QED
    BY <2>1, FewEnds
<1>5. /\ modem = "online" /\ pty' = pty \o x
      /\ UNCHANGED <<modem, made, rate, codes, vmVars, toHost, toVm, hostVars, ata, typed>>
  BY <1>1 DEF CallerSends, Says
<1>6. sent' = sent \o x
  BY <1>1, <1>2, AppendIsConcat DEF CallerSends, IInv, TypeOK, Bytes
<1>7. TypeOK'
  <2>1. pty' \in Seq(Bytes) /\ sent' \in Seq(Bytes)
    BY <1>5, <1>6, ConcatProperties DEF IInv, TypeOK
  <2> QED
    BY <1>5, <2>1 DEF IInv, TypeOK, vmVars, hostVars
<1>8. Past'
  <2>1. SentText(x)
    <3>1. \A i \in 1 .. 1 : i = 1
      OBVIOUS
    <3> QED
      BY <1>2, <1>3, <3>1 DEF SentText
  <2>2. SentText(sent \o x)
    BY <2>1, SentMore DEF IInv, Past
  <2>3. SentText(sent')
    BY <1>6, <2>2
  <2> QED
    BY <1>5, <2>3 DEF IInv, Past, vmVars
<1>9. ASSUME NEW b \in Views,
             Foreseen(b, pending \o pty, modem, made, rate, sent, dataMode, codes)
      PROVE  Foreseen(b, (pending \o pty) \o x, modem', made', rate', sent', dataMode', codes')
  <2>1. PICK u : u = pending \o pty
    OBVIOUS
  <2> u \in Seq(Bytes)
    BY <2>1, ConcatProperties DEF IInv, TypeOK
  <2>2. ~dataMode => Connecting(b, u \o x, rate, sent \o x)
    <3>1. sent \in Seq(Bytes)
      BY DEF IInv, TypeOK
    <3>2. ~dataMode => Connecting(b, u, rate, sent)
      BY <1>5, <1>9, <2>1 DEF Foreseen
    <3> QED
      BY <3>1, <3>2, ConnectingMore
  <2>3. dataMode => Carrying(b, u \o x, rate, sent \o x)
    <3>1. dataMode => Carrying(b, u, rate, sent)
      BY <1>5, <1>9, <2>1 DEF Foreseen
    <3> QED
      BY <3>1, CarryingMore
  <2>4. b.ends + Ends(u \o x) <= codes
    <3>1. Ends(u \o x) = Ends(u) + Ends(x)
      BY EndsOfTwo
    <3>2. Ends(u) \in Nat /\ Ends(x) \in Nat /\ b.ends \in Nat /\ codes \in Nat
      BY EndsFinite DEF Views, IInv, TypeOK
    <3>3. b.ends + Ends(u) <= codes
      BY <1>5, <1>9, <2>1, <3>2 DEF Foreseen
    <3> QED
      BY <1>4, <3>1, <3>2, <3>3
  <2>5. codes' + 0 = codes' /\ codes' = codes
    BY <1>5 DEF IInv, TypeOK
  <2> QED
    BY <1>5, <1>6, <2>1, <2>2, <2>3, <2>4, <2>5 DEF Foreseen, vmVars
<1> QED
  BY <1>5, <1>7, <1>8, <1>9, ModemStep DEF vmVars, hostVars

LEMMA DropKept ==
  ASSUME IInv, ModemDrops, Prompt
  PROVE  IInv'
<1>1. PICK w : w = NoCarrier \o Crlf /\ DropLine(w)
  BY ItsLine
<1> w \in Seq(Bytes) /\ Crlf \in Seq(Bytes)
  BY <1>1, Words DEF DropLine
<1>2. PICK x : x = Crlf \o w
  OBVIOUS
<1> x \in Seq(Bytes)
  BY <1>2, ConcatProperties
<1>3. Ends(x) <= 1
  <2>1. Ends(x) = Ends(Crlf) + Ends(w)
    BY <1>2, EndsOfTwo
  <2>2. Ends(Crlf) = 0
    <3>1. \A i \in 1 .. 2 : i = 1 \/ i = 2
      OBVIOUS
    <3>2. EndsAt(Crlf) = {}
      BY <3>1, Words DEF EndsAt
    <3> QED
      BY <3>2, FewEnds
  <2>3. Ends(w) <= 1
    <3>1. ASSUME NEW i \in EndsAt(w) PROVE i = 2
      <4>1. Len(w) = 4 /\ w[1] = "NO" /\ w[2] = "CARRIER" /\ w[3] = "CR" /\ w[4] = "LF"
        BY <1>1 DEF DropLine
      <4>2. i \in 1 .. 4 /\ w[i] \in {"BUSY", "CARRIER"}
        BY <3>1, <4>1 DEF EndsAt
      <4>3. i = 1 \/ i = 2 \/ i = 3 \/ i = 4
        BY <4>2
      <4> QED
        BY <4>1, <4>2, <4>3
    <3>2. EndsAt(w) \subseteq {2}
      BY <3>1
    <3> QED
      BY <3>2, FewEnds
  <2>4. Ends(w) \in Nat
    BY EndsFinite
  <2> QED
    BY <2>1, <2>2, <2>3, <2>4
<1>4. pty' = pty \o x
  <2>1. (Crlf \o NoCarrier) \o Crlf = Crlf \o (NoCarrier \o Crlf)
    <3> NoCarrier \in Seq(Bytes)
      BY Words
    <3> QED
      BY ConcatAssociative, SMTT(30)
  <2> QED
    BY <1>1, <1>2, <2>1 DEF ModemDrops, Says
<1>5. /\ modem = "online" /\ dataMode = TRUE /\ modem' = "over" /\ sent' = sent \o Crlf
      /\ UNCHANGED <<made, rate, codes, vmVars, toHost, toVm, hostVars, ata, typed>>
  BY DEF ModemDrops, IInv, TypeOK
<1>6. TypeOK'
  <2>1. pty' \in Seq(Bytes) /\ sent' \in Seq(Bytes)
    BY <1>4, <1>5, ConcatProperties DEF IInv, TypeOK
  <2> QED
    BY <1>5, <2>1 DEF IInv, TypeOK, vmVars, hostVars
<1>7. Past'
  <2>1. SentText(Crlf)
    <3>1. \A i \in 1 .. 2 : i = 1 \/ i = 2
      OBVIOUS
    <3> QED
      BY <3>1, Words DEF SentText
  <2>2. SentText(sent \o Crlf)
    BY <2>1, SentMore DEF IInv, Past
  <2>3. SentText(sent')
    BY <1>5, <2>2
  <2> QED
    BY <1>5, <2>3 DEF IInv, Past, vmVars
<1>8. ASSUME NEW b \in Views,
             Foreseen(b, pending \o pty, modem, made, rate, sent, dataMode, codes)
      PROVE  Foreseen(b, (pending \o pty) \o x, modem', made', rate', sent', dataMode', codes')
  <2>1. PICK u : u = pending \o pty
    OBVIOUS
  <2> u \in Seq(Bytes)
    BY <2>1, ConcatProperties DEF IInv, TypeOK
  <2>2. Carrying(b, u, rate, sent)
    BY <1>5, <1>8, <2>1 DEF Foreseen
  <2>3. Ending(b, u \o (Crlf \o (NoCarrier \o Crlf)), rate, sent \o Crlf)
    BY <2>2, CarryingDrops
  <2>4. Ending(b, u \o x, rate, sent \o Crlf)
    BY <1>1, <1>2, <2>3
  <2>5. b.ends + Ends(u \o x) <= codes + 1
    <3>1. Ends(u \o x) = Ends(u) + Ends(x)
      BY EndsOfTwo
    <3>2. Ends(u) \in Nat /\ Ends(x) \in Nat /\ b.ends \in Nat /\ codes \in Nat
      BY EndsFinite DEF Views, IInv, TypeOK
    <3>3. b.ends + Ends(u) <= codes
      BY <1>5, <1>8, <2>1, <3>2 DEF Foreseen
    <3> QED
      BY <1>3, <3>1, <3>2, <3>3
  <2> QED
    BY <1>5, <2>1, <2>4, <2>5 DEF Foreseen, vmVars
<1> QED
  BY <1>4, <1>5, <1>6, <1>7, <1>8, ModemStep DEF vmVars, hostVars

(* Whatever the VM reads, what it sends on is what was foreseen.           *)
ReadOn(a, q, b, u, m, r, mo, ma, n, d, k) ==
  /\ r.mode \in BOOLEAN
  /\ r.mode => mo \in {"online", "over"} /\ ma
  /\ \E c \in Views :
       /\ SentOn(a, q, b, u, m, r, c, r.pending \o From(u, m + 1))
       /\ Foreseen(c, r.pending \o From(u, m + 1), mo, ma, n, d, r.mode, k)

ToRead(a, q, b, u, m, r, mo, ma, n, d, dm, k) ==
  /\ Leads(a, q, b) /\ SentText(d) /\ Foreseen(b, u, mo, ma, n, d, dm, k)
  /\ mo \in {"idle", "training"} => ~dm
  /\ dm => ma
  /\ mo = "online" => ma
  /\ r = IF dm THEN DataBytes(UpTo(u, m)) ELSE CommandBytes(UpTo(u, m))

LEMMA EndsWithin ==
  ASSUME NEW x \in Nat, NEW y \in Nat, NEW z \in Nat, NEW w \in Nat, NEW k \in Nat,
         NEW mo, x + y <= z + w, z + w <= k + (IF mo = "over" THEN 1 ELSE 0)
  PROVE  x + y <= k + (IF mo = "over" THEN 1 ELSE 0)
OBVIOUS

LEMMA PtyRead ==
  ASSUME NEW a, NEW q \in Seq(Frames), NEW b \in Views, NEW u \in Seq(Bytes),
         NEW m \in 1 .. Len(u), NEW r, NEW mo \in {"idle", "training", "online", "over"},
         NEW ma \in BOOLEAN, NEW n, NEW d, NEW dm \in BOOLEAN, NEW k \in Nat
  PROVE  ToRead(a, q, b, u, m, r, mo, ma, n, d, dm, k) =>
           ReadOn(a, q, b, u, m, r, mo, ma, n, d, k)
<1> SUFFICES ASSUME Leads(a, q, b), SentText(d), (mo \in {"idle", "training"}) => ~dm,
                    dm => ma, mo = "online" => ma, Foreseen(b, u, mo, ma, n, d, dm, k),
                    r = IF dm THEN DataBytes(UpTo(u, m)) ELSE CommandBytes(UpTo(u, m))
             PROVE  ReadOn(a, q, b, u, m, r, mo, ma, n, d, k)
  BY DEF ToRead
<1>1. PICK v : v = r.pending \o From(u, m + 1)
  OBVIOUS
<1>2. ASSUME NEW c \in Views, SentOn(a, q, b, u, m, r, c, v)
      PROVE  c.ends + Ends(v) <= k + (IF mo = "over" THEN 1 ELSE 0)
  <2>1. v \in Seq(Bytes)
    <3>1. m + 1 \in 1 .. Len(u) + 1
      BY LenProperties
    <3>2. From(u, m + 1) \in Seq(Bytes)
      BY <3>1, FromPlace
    <3>3. r.pending \in Seq(Bytes)
      BY <1>2 DEF SentOn, Short
    <3> QED
      BY <1>1, <3>2, <3>3, ConcatProperties
  <2>2. c.ends + Ends(v) <= b.ends + Ends(u)
    BY <1>2 DEF SentOn
  <2>3. b.ends + Ends(u) <= k + (IF mo = "over" THEN 1 ELSE 0)
    BY DEF Foreseen
  <2>4. Ends(u) \in Nat /\ Ends(v) \in Nat /\ b.ends \in Nat /\ c.ends \in Nat
    BY <2>1, EndsFinite DEF Views
  <2> QED
    BY <2>2, <2>3, <2>4, EndsWithin, Zenon
<1>3. d \in Seq(Bytes) /\ \A j \in 1 .. Len(d) : d[j] # "CARRIER"
  BY DEF SentText
<1>4. CASE mo \in {"idle", "training"}
  <2>1. Waiting(b, u) /\ r = CommandBytes(UpTo(u, m))
    BY <1>4 DEF Foreseen
  <2>2. /\ r.mode = FALSE
        /\ \E c \in Views : SentOn(a, q, b, u, m, r, c, v) /\ Waiting(c, v)
    <3>1. LET s == CommandBytes(UpTo(u, m))
              w == s.pending \o From(u, m + 1)
          IN s.mode = FALSE /\ \E c \in Views : SentOn(a, q, b, u, m, s, c, w) /\ Waiting(c, w)
      <4> Waiting(b, u)
        BY <2>1
      <4> QED
        BY WaitingRead
    <3> QED
      BY <1>1, <2>1, <3>1
  <2>3. PICK c \in Views : SentOn(a, q, b, u, m, r, c, v) /\ Waiting(c, v)
    BY <2>2
  <2>4. Foreseen(c, v, mo, ma, n, d, r.mode, k)
    BY <1>2, <1>4, <2>2, <2>3 DEF Foreseen
  <2> QED
    BY <1>1, <2>2, <2>3, <2>4 DEF ReadOn
<1>5. CASE mo = "online" /\ ~dm
  <2>1. Connecting(b, u, n, d) /\ r = CommandBytes(UpTo(u, m))
    BY <1>5 DEF Foreseen
  <2>2. /\ r.mode \in BOOLEAN
        /\ \E c \in Views :
             /\ SentOn(a, q, b, u, m, r, c, v)
             /\ IF r.mode THEN Carrying(c, v, n, d) ELSE Connecting(c, v, n, d)
    BY <1>1, <1>3, <2>1, ConnectingRead
  <2>3. PICK c \in Views :
             /\ SentOn(a, q, b, u, m, r, c, v)
             /\ IF r.mode THEN Carrying(c, v, n, d) ELSE Connecting(c, v, n, d)
    BY <2>2
  <2>4. Foreseen(c, v, mo, ma, n, d, r.mode, k)
    BY <1>2, <1>5, <2>2, <2>3 DEF Foreseen
  <2> QED
    BY <1>1, <1>5, <2>2, <2>3, <2>4 DEF ReadOn
<1>6. CASE mo = "over" /\ ~dm /\ ~ma
  <2>1. Failing(b, u) /\ r = CommandBytes(UpTo(u, m))
    BY <1>6 DEF Foreseen
  <2>2. /\ r.mode = FALSE
        /\ \E c \in Views : SentOn(a, q, b, u, m, r, c, v) /\ Failing(c, v)
    <3>1. LET s == CommandBytes(UpTo(u, m))
              w == s.pending \o From(u, m + 1)
          IN s.mode = FALSE /\ \E c \in Views : SentOn(a, q, b, u, m, s, c, w) /\ Failing(c, w)
      <4> Failing(b, u)
        BY <2>1
      <4> QED
        BY FailingRead
    <3> QED
      BY <1>1, <2>1, <3>1
  <2>3. PICK c \in Views : SentOn(a, q, b, u, m, r, c, v) /\ Failing(c, v)
    BY <2>2
  <2>4. Foreseen(c, v, mo, ma, n, d, r.mode, k)
    BY <1>2, <1>6, <2>2, <2>3 DEF Foreseen
  <2> QED
    BY <1>1, <2>2, <2>3, <2>4 DEF ReadOn
<1>7. CASE mo = "over" /\ ~dm /\ ma
  <2>1. u = <<>>
    BY <1>7 DEF Foreseen, Ended
  <2> QED
    BY <2>1, EmptySeq
<1>8. CASE mo = "online" /\ dm
  <2>1. Carrying(b, u, n, d) /\ r = DataBytes(UpTo(u, m))
    BY <1>8 DEF Foreseen
  <2>2. \A j \in 1 .. Len(u) : u[j] # "CARRIER"
    <3>1. PICK x : x = b.data
      OBVIOUS
    <3> x \in Seq(Bytes) /\ d = x \o u
      BY <2>1, <3>1 DEF Carrying, Views
    <3>2. Len(d) = Len(x) + Len(u) /\ Len(x) \in Nat /\ Len(u) \in Nat
      BY Joined
    <3>3. \A j \in 1 .. Len(u) : d[Len(x) + j] = u[j]
      BY Joined
    <3>4. \A j \in 1 .. Len(u) : Len(x) + j \in 1 .. Len(d)
      BY <3>2
    <3> QED
      BY <1>3, <3>3, <3>4
  <2>3. /\ r.mode = TRUE
        /\ \E c \in Views : SentOn(a, q, b, u, m, r, c, v) /\ Carrying(c, v, n, d)
    BY <1>1, <2>1, <2>2, CarryingRead
  <2>4. PICK c \in Views : SentOn(a, q, b, u, m, r, c, v) /\ Carrying(c, v, n, d)
    BY <2>3
  <2>5. Foreseen(c, v, mo, ma, n, d, r.mode, k)
    BY <1>2, <1>8, <2>3, <2>4 DEF Foreseen
  <2> QED
    BY <1>1, <1>8, <2>3, <2>4, <2>5 DEF ReadOn
<1>9. CASE mo = "over" /\ dm
  <2>1. Ending(b, u, n, d) /\ r = DataBytes(UpTo(u, m)) /\ ma
    BY <1>9 DEF Foreseen
  <2>2. /\ r.mode \in BOOLEAN
        /\ \E c \in Views :
             /\ SentOn(a, q, b, u, m, r, c, v)
             /\ IF r.mode THEN Ending(c, v, n, d) ELSE Ended(c, v, d)
    BY <1>1, <1>3, <2>1, EndingRead
  <2>3. PICK c \in Views :
             /\ SentOn(a, q, b, u, m, r, c, v)
             /\ IF r.mode THEN Ending(c, v, n, d) ELSE Ended(c, v, d)
    BY <2>2
  <2>4. Foreseen(c, v, mo, ma, n, d, r.mode, k)
    BY <1>2, <1>9, <2>1, <2>2, <2>3 DEF Foreseen
  <2> QED
    BY <1>1, <1>9, <2>1, <2>2, <2>3, <2>4 DEF ReadOn
<1> QED
  BY <1>4, <1>5, <1>6, <1>7, <1>8, <1>9

LEMMA ReadKept ==
  ASSUME NEW k \in 1 .. Len(pty), IInv, VmReadsPty(k)
  PROVE  IInv'
<1>1. PICK a \in Views, b \in Views : Known(a, b)
  BY DEF IInv
<1>2. pending \in Seq(Bytes) /\ pty \in Seq(Bytes) /\ Len(pty) \in Nat /\ Len(pending) \in Nat
  BY LenProperties DEF IInv, TypeOK
<1>3. PICK u : u = pending \o pty
  OBVIOUS
<1>4. PICK m : m = Len(pending) + k
  OBVIOUS
<1>5. /\ u \in Seq(Bytes) /\ m \in 0 .. Len(u)
      /\ pending \o UpTo(pty, k) = UpTo(u, m)
      /\ From(pty, k + 1) = From(u, m + 1)
      /\ From(pty, k + 1) \in Seq(Bytes)
  <2>1. k \in 0 .. Len(pty)
    BY <1>2
  <2> QED
    BY <1>2, <1>3, <1>4, <2>1, HeldAndUnread
<1>6. m \in 1 .. Len(u)
  BY <1>2, <1>4, <1>5
<1>7. PICK r : r = IF dataMode THEN DataBytes(UpTo(u, m)) ELSE CommandBytes(UpTo(u, m))
  OBVIOUS
<1>8. /\ toHost' = toHost \o r.frames /\ pending' = r.pending /\ dataMode' = r.mode
      /\ pty' = From(u, m + 1)
      /\ UNCHANGED <<modem, made, rate, sent, codes, toVm, hostVars, ata, typed>>
  BY <1>5, <1>7 DEF VmReadsPty
<1>9. ReadOn(a, toHost, b, u, m, r, modem, made, rate, sent, codes)
  <2>1. /\ toHost \in Seq(Frames) /\ Leads(a, toHost, b)
        /\ modem \in {"idle", "training", "online", "over"} /\ made \in BOOLEAN
        /\ SentText(sent) /\ dataMode \in BOOLEAN /\ codes \in Nat
        /\ (modem \in {"idle", "training"} => ~dataMode) /\ (dataMode => made)
        /\ (modem = "online" => made)
    BY <1>1 DEF IInv, TypeOK, Past, Known
  <2>2. Foreseen(b, u, modem, made, rate, sent, dataMode, codes)
    BY <1>1, <1>3 DEF Known
  <2>3. PICK q, mo, ma, n, d, dm, o : /\ q = toHost /\ mo = modem /\ ma = made /\ n = rate
                                     /\ d = sent /\ dm = dataMode /\ o = codes
    OBVIOUS
  <2>4. /\ q \in Seq(Frames) /\ mo \in {"idle", "training", "online", "over"}
        /\ ma \in BOOLEAN /\ dm \in BOOLEAN /\ o \in Nat
    BY <2>1, <2>3
  <2>5. ToRead(a, q, b, u, m, r, mo, ma, n, d, dm, o)
    BY <1>7, <2>1, <2>2, <2>3 DEF ToRead
  <2>6. ReadOn(a, q, b, u, m, r, mo, ma, n, d, o)
    BY <1>5, <1>6, <2>4, <2>5, PtyRead
  <2> QED
    BY <2>3, <2>6
<1>10. PICK c \in Views :
         /\ SentOn(a, toHost, b, u, m, r, c, pending' \o pty')
         /\ Foreseen(c, pending' \o pty', modem, made, rate, sent, dataMode', codes)
  BY <1>8, <1>9 DEF ReadOn
<1>11. toHost' \in Seq(Frames) /\ Leads(a, toHost', c) /\ Short(pending')
  BY <1>8, <1>10 DEF SentOn
<1>12. Known(a, c)'
  BY <1>1, <1>8, <1>10, <1>11 DEF Known, hostVars
<1>13. TypeOK'
  <2>1. dataMode' \in BOOLEAN
    BY <1>8, <1>9 DEF ReadOn
  <2>2. pending' \in Seq(Bytes) /\ Len(pending') <= 5 /\ pty' \in Seq(Bytes)
    BY <1>5, <1>8, <1>11, LenProperties DEF Short
  <2> QED
    BY <1>8, <2>1, <2>2 DEF IInv, TypeOK, hostVars
<1>14. Past'
  <2>1. dataMode' => made /\ modem \in {"online", "over"}
    BY <1>8, <1>9 DEF ReadOn
  <2>2. modem \in {"idle", "training"} => ~dataMode'
    BY <2>1
  <2> QED
    BY <1>8, <2>1, <2>2 DEF IInv, Past
<1>15. NoJunkCommands'
  BY <1>8 DEF IInv, NoJunkCommands
<1> QED
  BY <1>11, <1>12, <1>13, <1>14, <1>15 DEF IInv

(* Frames to the VM, and what the host does with what it reads.            *)
LEMMA FrameKept ==
  ASSUME IInv, VmReadsFrame
  PROVE  IInv'
<1>1. PICK a \in Views, b \in Views : Known(a, b)
  BY DEF IInv
<1>2. UNCHANGED <<pty, made, rate, sent, codes, vmVars, toHost, hostVars, ata>>
  BY DEF VmReadsFrame
<1>3. modem' = modem \/ (modem = "idle" /\ modem' = "training")
  BY DEF VmReadsFrame
<1>4. Foreseen(b, pending \o pty, modem', made, rate, sent, dataMode, codes)
  <2>1. Foreseen(b, pending \o pty, modem, made, rate, sent, dataMode, codes)
    BY <1>1 DEF Known
  <2>2. CASE modem' = modem
    BY <2>1, <2>2
  <2>3. CASE modem = "idle" /\ modem' = "training"
    BY <2>1, <2>3 DEF Foreseen
  <2> QED
    BY <1>3, <2>2, <2>3
<1>5. Known(a, b)'
  BY <1>1, <1>2, <1>4 DEF Known, vmVars, hostVars
<1>6. Past'
  BY <1>2, <1>3 DEF IInv, Past, vmVars
<1>7. ASSUME dataMode PROVE Reaches \in {"online", "over"}
  <2>1. modem \in {"online", "over"}
    BY <1>7 DEF IInv, Past
  <2>2. CASE modem = "online"
    BY <2>2 DEF Reaches
  <2>3. CASE modem = "over"
    <3>1. PICK u : u = pending \o pty
      OBVIOUS
    <3>2. Ending(b, u, rate, sent)
      BY <1>1, <1>7, <2>3, <3>1 DEF Known, Foreseen
    <3>3. PICK w : DropLine(w) /\ w = NoCarrier \o Crlf
      BY ItsLine
    <3>4. PICK t \in Seq(Bytes) : u = t \o w
      BY <3>2, <3>3 DEF Ending
    <3>5. DropAfter(u, t, w)
      BY <3>3, <3>4, DropText
    <3>6. PICK c : c = Len(t) + 1
      OBVIOUS
    <3>7. /\ u \in Seq(Bytes) /\ c \in 1 .. Len(u) - 1 /\ u[c] = "NO" /\ u[c + 1] = "CARRIER"
      BY <3>5, <3>6 DEF DropAfter
    <3>8. FindKeyword(u, <<"NO", "CARRIER">>) # 0
      BY <3>7, KeywordFound
    <3> QED
      BY <2>3, <3>1, <3>8 DEF Reaches, NoCarrier
  <2> QED
    BY <2>1, <2>2, <2>3
<1>8. NoJunkCommands'
  <2>1. typed' = typed \/ (dataMode /\ typed' = typed \cup {Reaches})
    BY DEF VmReadsFrame, IInv, TypeOK
  <2> QED
    BY <1>7, <2>1 DEF IInv, NoJunkCommands
<1>9. TypeOK'
  <2>1. typed' \subseteq {"idle", "training", "online", "over", "told"}
    BY <1>8 DEF NoJunkCommands
  <2> QED
    BY <1>2, <1>3, <2>1 DEF IInv, TypeOK, vmVars, hostVars
<1> QED
  BY <1>2, <1>5, <1>6, <1>8, <1>9 DEF IInv, vmVars

LEMMA HostStep ==
  ASSUME IInv, NEW a \in Views, NEW b \in Views, Known(a, b), NEW c \in Views,
         UNCHANGED <<modemVars, vmVars, ata, typed>>,
         toHost' \in Seq(Frames), Leads(c, toHost', b),
         host' \in Host, lineBuf' \in Seq(Bytes), flushTimer' \in BOOLEAN,
         Sees(c, host', lineBuf')
  PROVE  IInv'
<1>1. Known(c, b)'
  BY DEF Known, modemVars, vmVars
<1>2. TypeOK'
  BY DEF IInv, TypeOK, modemVars, vmVars
<1>3. Past' /\ NoJunkCommands' /\ Short(pending)'
  BY DEF IInv, Past, NoJunkCommands, modemVars, vmVars
<1> QED
  BY <1>1, <1>2, <1>3 DEF IInv

LEMMA HostFrameKept ==
  ASSUME IInv, HostReadsFrame
  PROVE  IInv'
<1>1. PICK a \in Views, b \in Views : Known(a, b)
  BY DEF IInv
<1>2. /\ toHost # <<>> /\ toHost' = Tail(toHost)
      /\ UNCHANGED <<modemVars, vmVars, toVm, ata, typed>>
  BY DEF HostReadsFrame
<1>3. toHost \in Seq(Frames) /\ Leads(a, toHost, b) /\ Sees(a, host, lineBuf)
  BY <1>1 DEF IInv, Known
<1>4. PICK c \in Views : Passes(a, Head(toHost), c) /\ Leads(c, Tail(toHost), b)
  <2>1. PICK q : q = toHost
    OBVIOUS
  <2>2. q \in Seq(Frames) /\ q # <<>> /\ Leads(a, q, b)
    BY <1>2, <1>3, <2>1
  <2>3. \E c \in Views : Passes(a, Head(q), c) /\ Leads(c, Tail(q), b)
    BY <2>2, LeadsFirst
  <2> QED
    BY <2>1, <2>3
<1>5. toHost' \in Seq(Frames) /\ Leads(c, toHost', b)
  BY <1>2, <1>3, <1>4, HeadTailProperties
<1>6. PICK f, h, l : f = Head(toHost) /\ h = host /\ l = lineBuf
  OBVIOUS
<1>7. h \in Host /\ l \in Seq(Bytes) /\ Sees(a, h, l) /\ Passes(a, f, c)
  BY <1>3, <1>4, <1>6 DEF IInv, TypeOK
<1>8. f.type \in {"AT_RESPONSE", "DATA_RX", "MODEM_STATUS"}
  BY <1>7 DEF Passes, TextPasses, LinePasses, DropPasses, ConnectPasses, EndPasses, DataPasses
<1>9. CASE f.type = "AT_RESPONSE"
  <2>1. PICK g : g = Hear[l \o f.payload][h]
    OBVIOUS
  <2>2. host' = g.host /\ lineBuf' = g.rest /\ flushTimer' \in BOOLEAN
    BY <1>6, <1>9, <2>1 DEF HostReadsFrame, OnPtyText
  <2>3. TextPasses(a, f, c) \/ LinePasses(a, f, c) \/ DropPasses(a, f, c)
    BY <1>7, <1>9 DEF Passes, ConnectPasses, EndPasses, DataPasses
  <2>4. g.host \in Host /\ g.rest \in Seq(Bytes) /\ Sees(c, g.host, g.rest)
    BY <1>7, <2>1, <2>3, TextSeen, LineSeen, DropSeen
  <2> QED
    BY <1>1, <1>2, <1>5, <2>2, <2>4, HostStep
<1>10. CASE f.type = "DATA_RX"
  <2>1. PICK g : g = [h EXCEPT !.data = @ \o f.payload, !.early = @ \/ h.connects = 0]
    OBVIOUS
  <2>2. host' = g /\ lineBuf' = l /\ flushTimer' = flushTimer
    BY <1>6, <1>10, <2>1 DEF HostReadsFrame
  <2>3. DataPasses(a, f, c)
    BY <1>7, <1>10 DEF Passes, ConnectPasses, EndPasses, TextPasses, LinePasses, DropPasses
  <2>4. g \in Host /\ Sees(c, g, l)
    BY <1>7, <2>1, <2>3, DataSeen
  <2>5. flushTimer' \in BOOLEAN
    BY <2>2 DEF IInv, TypeOK
  <2> QED
    BY <1>1, <1>2, <1>5, <1>7, <2>2, <2>4, <2>5, HostStep
<1>11. CASE f.type = "MODEM_STATUS"
  <2>1. PICK g : g = OnStatus(h, f.payload[1], f.payload[2])
    OBVIOUS
  <2>2. host' = g /\ lineBuf' = l /\ flushTimer' = flushTimer
    BY <1>6, <1>11, <2>1 DEF HostReadsFrame
  <2>3. ConnectPasses(a, f, c) \/ EndPasses(a, f, c)
    BY <1>7, <1>11 DEF Passes, DataPasses, TextPasses, LinePasses, DropPasses
  <2>4. g \in Host /\ Sees(c, g, l)
    BY <1>7, <2>1, <2>3, StatusSeen
  <2>5. flushTimer' \in BOOLEAN
    BY <2>2 DEF IInv, TypeOK
  <2> QED
    BY <1>1, <1>2, <1>5, <1>7, <2>2, <2>4, <2>5, HostStep
<1> QED
  BY <1>8, <1>9, <1>10, <1>11

LEMMA FlushKept ==
  ASSUME IInv, FlushFires
  PROVE  IInv'
<1>1. PICK a \in Views, b \in Views : Known(a, b)
  BY DEF IInv
<1>2. PICK h, l : h = host /\ l = lineBuf
  OBVIOUS
<1>3. h \in Host /\ l \in Seq(Bytes) /\ Sees(a, h, l)
  BY <1>1, <1>2 DEF IInv, TypeOK, Known
<1>4. HandleLine(h, l) \in Host /\ Sees(a, HandleLine(h, l), <<>>)
  BY <1>3, LineTaken
<1>5. /\ flushTimer' = FALSE /\ lineBuf' = <<>> /\ host' = HandleLine(h, l)
      /\ UNCHANGED <<modemVars, vmVars, toHost, toVm, ata, typed>>
  BY <1>2 DEF FlushFires
<1>6. toHost' \in Seq(Frames) /\ Leads(a, toHost', b)
  BY <1>1, <1>5 DEF IInv, Known
<1>7. lineBuf' \in Seq(Bytes)
  BY <1>5, EmptySeq
<1>8. UNCHANGED <<modemVars, vmVars, ata, typed>>
  BY <1>5
<1> QED
  BY <1>1, <1>4, <1>5, <1>6, <1>7, <1>8, HostStep

LEMMA CommandKept ==
  ASSUME IInv, UNCHANGED <<modemVars, vmVars, toHost, hostVars, typed>>,
         ata' \in BOOLEAN
  PROVE  IInv'
<1>1. TypeOK' /\ Past' /\ NoJunkCommands' /\ Short(pending)' /\ (toHost \in Seq(Frames))'
  BY DEF IInv, TypeOK, Past, NoJunkCommands, modemVars, vmVars, hostVars
<1>2. PICK a \in Views, b \in Views : Known(a, b)
  BY DEF IInv
<1>3. Known(a, b)'
  BY <1>2 DEF Known, modemVars, vmVars, hostVars
<1> QED
  BY <1>1, <1>3 DEF IInv

(* Prompt is needed where the call drops: while the CONNECT line is        *)
(* unread, one read may see it and a part or the whole of NO CARRIER, and  *)
(* take the wrong one first.                                               *)
LEMMA StepKept ==
  ASSUME IInv, [Next]_vars, Prompt
  PROVE  IInv'
<1>1. CASE Modem
  BY <1>1, CodeKept, ConnectKept, FailKept, DropKept, CallerKept DEF Modem
<1>2. CASE VmReads
  BY <1>2, FrameKept, ReadKept DEF VmReads
<1>3. CASE HostReads
  BY <1>3, HostFrameKept, FlushKept DEF HostReads
<1>4. CASE SendAta
  BY <1>4, CommandKept DEF SendAta
<1>5. CASE Write
  <2>1. ata' \in BOOLEAN
    BY <1>5 DEF Write, IInv, TypeOK
  <2> QED
    BY <1>5, <2>1, CommandKept DEF Write
<1>6. CASE UNCHANGED vars
  <2>1. ata' \in BOOLEAN
    BY <1>6 DEF vars, IInv, TypeOK
  <2> QED
    BY <1>6, <2>1, CommandKept DEF vars
<1> QED
  BY <1>1, <1>2, <1>3, <1>4, <1>5, <1>6 DEF Next

-----------------------------------------------------------------------------
(* What the invariant says of the host now.                                *)
Begins(s, t) == Len(s) <= Len(t) /\ \A i \in 1 .. Len(s) : s[i] = t[i]

LEMMA JoinBegins ==
  ASSUME NEW s \in Seq(Bytes), NEW t \in Seq(Bytes), NEW u, s \o t = u
  PROVE  Begins(s, u)
<1>1. /\ Len(u) = Len(s) + Len(t) /\ Len(s) \in Nat /\ Len(t) \in Nat
      /\ \A i \in 1 .. Len(s) : u[i] = s[i]
  BY Joined
<1> QED
  BY <1>1 DEF Begins

LEMMA NothingBegins == ASSUME NEW u \in Seq(Bytes) PROVE Begins(<<>>, u)
<1>1. Len(u) \in Nat /\ Len(<<>>) = 0
  BY LenProperties
<1> QED
  BY <1>1 DEF Begins

LEMMA BeginsPrefix ==
  ASSUME NEW s \in Seq(Bytes), NEW t \in Seq(Bytes), Begins(s, t)
  PROVE  IsPrefix(s, t)
<1>1. Len(s) \in Nat /\ Len(t) \in Nat /\ Len(s) <= Len(t)
  BY LenProperties DEF Begins
<1>2. /\ SubSeq(s, 1, Len(s)) \in Seq(Bytes) /\ SubSeq(t, 1, Len(s)) \in Seq(Bytes)
      /\ Len(SubSeq(s, 1, Len(s))) = Len(s) /\ Len(SubSeq(t, 1, Len(s))) = Len(s)
      /\ \A i \in 1 .. Len(s) : SubSeq(s, 1, Len(s))[i] = s[i]
      /\ \A i \in 1 .. Len(s) : SubSeq(t, 1, Len(s))[i] = t[i]
  BY <1>1
<1>3. SubSeq(s, 1, Len(s)) = SubSeq(t, 1, Len(s))
  <2>1. PICK x \in Seq(Bytes), y \in Seq(Bytes) :
          x = SubSeq(s, 1, Len(s)) /\ y = SubSeq(t, 1, Len(s))
    BY <1>2
  <2>2. Len(x) = Len(y) /\ \A i \in 1 .. Len(x) : x[i] = y[i]
    BY <1>2, <2>1 DEF Begins
  <2>3. x = y
    BY <2>2, SeqEqual
  <2> QED
    BY <2>1, <2>3
<1> QED
  BY <1>1, <1>3 DEF IsPrefix

(* Whatever the phase of the call, the host cannot know more than it has   *)
(* been sent, and only of a call that was made.                            *)
LEMMA OnceMade ==
  ASSUME Past, TypeOK, NEW b \in Views, NEW u \in Seq(Bytes),
         Foreseen(b, u, modem, made, rate, sent, dataMode, codes)
  PROVE  /\ b.phase # "before" => made
         /\ Begins(b.data, sent)
<1>1. b.data \in Seq(Bytes) /\ sent \in Seq(Bytes)
  BY DEF Views, TypeOK
<1>2. b.data = <<>> => Begins(b.data, sent)
  BY <1>1, NothingBegins
<1>3. b.data = sent => Begins(b.data, sent)
  <2>1. Len(sent) \in Nat
    BY <1>1, LenProperties
  <2> QED
    BY <2>1 DEF Begins
<1>4. CASE modem \in {"idle", "training"}
  BY <1>2, <1>4 DEF Foreseen, Waiting
<1>5. CASE modem = "online" /\ ~dataMode
  BY <1>2, <1>5 DEF Foreseen, Connecting
<1>6. CASE modem = "over" /\ ~dataMode /\ ~made
  BY <1>2, <1>6 DEF Foreseen, Failing
<1>7. CASE modem = "online" /\ dataMode
  <2>1. Begins(b.data, sent)
    BY <1>1, <1>7, JoinBegins DEF Foreseen, Carrying
  <2> QED
    BY <1>7, <2>1 DEF Past
<1>8. CASE modem = "over" /\ dataMode
  <2>1. Ending(b, u, rate, sent) /\ made
    BY <1>8 DEF Foreseen, Past
  <2>2. PICK t \in Seq(Bytes) : b.data \o t = sent
    BY <2>1 DEF Ending
  <2> QED
    BY <1>1, <2>1, <2>2, JoinBegins
<1>9. CASE modem = "over" /\ ~dataMode /\ made
  BY <1>3, <1>9 DEF Foreseen, Ended
<1> QED
  BY <1>4, <1>5, <1>6, <1>7, <1>8, <1>9 DEF TypeOK

(* What is held back never holds a line whole, so with nothing to read the *)
(* call is in a phase all three agree on.                                  *)
LEMMA EndsWhole ==
  ASSUME NEW t \in Seq(Bytes), NEW x \in Seq(Bytes), NEW n \in 1 .. Len(x),
         NEW u, u = t \o x
  PROVE  u[Len(t) + n] = x[n] /\ Len(t) + n \in 1 .. Len(u)
<1>1. /\ Len(u) = Len(t) + Len(x) /\ Len(t) \in Nat /\ Len(x) \in Nat
      /\ \A i \in 1 .. Len(x) : u[Len(t) + i] = x[i]
  BY Joined
<1> QED
  BY <1>1

LEMMA HeldNeverWhole ==
  ASSUME NEW u, Short(u), NEW b, NEW n, NEW d
  PROVE  ~Connecting(b, u, n, d) /\ ~Ending(b, u, n, d)
<1>1. u \in Seq(Bytes) /\ Len(u) \in Nat /\ \A i \in 1 .. Len(u) : u[i] # "LF"
  BY LenProperties DEF Short
<1>2. ASSUME NEW l \in Seq(Bytes), NEW c \in Nat, ConnectLine(l, c, n), u = l \o d
      PROVE  FALSE
  <2>1. Len(l) \in Nat /\ Len(l) >= 1 /\ l[Len(l)] = "LF"
    BY <1>2, LenProperties DEF ConnectLine
  <2>2. u[Len(l)] = "LF" /\ Len(l) \in 1 .. Len(u)
    BY <1>1, <1>2, <2>1
  <2> QED
    BY <1>1, <2>2
<1>3. ASSUME NEW t \in Seq(Bytes), u = t \o (NoCarrier \o Crlf) PROVE FALSE
  <2>1. PICK x : DropLine(x) /\ u = t \o x
    BY <1>3, ItsLine
  <2>2. x \in Seq(Bytes) /\ x[4] = "LF" /\ 4 \in 1 .. Len(x)
    BY <2>1 DEF DropLine
  <2>3. u[Len(t) + 4] = x[4] /\ Len(t) + 4 \in 1 .. Len(u)
    BY <2>1, <2>2, EndsWhole
  <2> QED
    BY <1>1, <2>2, <2>3
<1> QED
  BY <1>2, <1>3 DEF Connecting, Ending

(* With no frame on the way, what the host knows is what it will know.     *)
LEMMA LeadsNoFarther ==
  ASSUME NEW a, NEW b, Leads(a, <<>>, b)
  PROVE  a = b
<1>1. Len(<<>>) = 0
  OBVIOUS
<1>2. PICK path \in [0 .. Len(<<>>) -> Views] : path[0] = a /\ path[Len(<<>>)] = b
  BY DEF Leads
<1> QED
  BY <1>1, <1>2

(* So the invariant says what the run checks.                              *)
LEMMA AllReported ==
  ASSUME IInv
  PROVE  ReportedOnce /\ DataInOrder
<1>1. PICK a \in Views, b \in Views : Known(a, b)
  BY DEF IInv
<1>2. PICK h, l : h = host /\ l = lineBuf
  OBVIOUS
<1>3. h \in Host /\ l \in Seq(Bytes) /\ Sees(a, h, l)
  BY <1>1, <1>2 DEF IInv, TypeOK, Known
<1>4. PICK u : u = pending \o pty
  OBVIOUS
<1>5. u \in Seq(Bytes) /\ Ends(u) \in Nat /\ Ends(l) \in Nat
  <2>1. pending \in Seq(Bytes) /\ pty \in Seq(Bytes)
    BY DEF IInv, TypeOK
  <2>2. u \in Seq(Bytes)
    BY <1>4, <2>1, ConcatProperties
  <2> QED
    BY <1>3, <2>2, EndsFinite
<1>6. Foreseen(b, u, modem, made, rate, sent, dataMode, codes)
  BY <1>1, <1>4 DEF Known
<1>7. (b.phase # "before" => made) /\ Begins(b.data, sent)
  BY <1>5, <1>6, OnceMade DEF IInv
<1>8. Onward(a, b)
  <2>1. PICK q \in Seq(Frames) : q = toHost
    BY DEF IInv
  <2>2. Leads(a, q, b)
    BY <1>1, <2>1 DEF Known
  <2> QED
    BY <2>2, LeadsOnward
<1>9. host.connects <= (IF made THEN 1 ELSE 0)
  <2>1. a.phase # "before" => made
    BY <1>7, <1>8 DEF Onward
  <2>2. a.phase = "before" => h.connects = 0
    BY <1>3 DEF Sees
  <2>3. a.phase # "before" => h.connects = 1
    BY <1>3 DEF Sees, Views
  <2> QED
    BY <1>2, <2>1, <2>2, <2>3
<1>10. host.hangups <= codes + (IF modem = "over" THEN 1 ELSE 0)
  <2>1. h.hangups + Ends(l) <= a.ends /\ a.ends <= b.ends
    BY <1>3, <1>8 DEF Sees, Onward
  <2>2. b.ends + Ends(u) <= codes + (IF modem = "over" THEN 1 ELSE 0)
    BY <1>6 DEF Foreseen
  <2>3. codes \in Nat
    BY ControlAssumption DEF IInv, TypeOK
  <2>4. h.hangups \in Nat /\ a.ends \in Nat /\ b.ends \in Nat
    BY <1>3 DEF Host, Views
  <2> QED
    BY <1>2, <1>5, <2>1, <2>2, <2>3, <2>4
<1>11. DataInOrder
  <2>1. a.data \in Seq(Bytes) /\ b.data \in Seq(Bytes) /\ sent \in Seq(Bytes)
    BY DEF Views, IInv, TypeOK
  <2>2. Begins(a.data, b.data)
    BY <1>8 DEF Onward, Begins
  <2>3. Begins(a.data, sent)
    <3>1. PICK x \in Seq(Bytes), y \in Seq(Bytes), z \in Seq(Bytes) :
            x = a.data /\ y = b.data /\ z = sent
      BY <2>1
    <3>2. Len(x) \in Nat /\ Len(y) \in Nat /\ Len(z) \in Nat
      BY LenProperties
    <3>3. Begins(x, y) /\ Begins(y, z)
      BY <1>7, <2>2, <3>1
    <3>4. Begins(x, z)
      BY <3>2, <3>3 DEF Begins
    <3> QED
      BY <3>1, <3>4
  <2>4. h.data = a.data /\ ~h.early
    BY <1>3 DEF Sees
  <2>5. IsPrefix(a.data, sent)
    <3>1. PICK x \in Seq(Bytes), z \in Seq(Bytes) : x = a.data /\ z = sent
      BY <2>1
    <3> QED
      BY <2>3, <3>1, BeginsPrefix
  <2> QED
    BY <1>2, <2>4, <2>5 DEF DataInOrder
<1> QED
  BY <1>9, <1>10, <1>11 DEF ReportedOnce

LEMMA AllAgree ==
  ASSUME IInv
  PROVE  ModesAgree
<1> SUFFICES ASSUME Quiet
             PROVE  /\ dataMode = (modem = "online")
                    /\ modem = "online" => host.bps = rate
                    /\ host.connected => dataMode
  BY DEF ModesAgree
<1>1. PICK a \in Views, b \in Views : Known(a, b)
  BY DEF IInv
<1>2. a = b
  <2>1. Leads(a, <<>>, b)
    BY <1>1 DEF Known, Quiet
  <2> QED
    BY <2>1, LeadsNoFarther
<1>3. pending \o pty = pending
  <2>1. pending \in Seq(Bytes) /\ pty = <<>>
    BY DEF IInv, TypeOK, Quiet
  <2> QED
    BY <2>1, ConcatEmptySeq
<1>4. Foreseen(b, pending, modem, made, rate, sent, dataMode, codes)
  BY <1>1, <1>3 DEF Known
<1>5. ~Connecting(b, pending, rate, sent) /\ ~Ending(b, pending, rate, sent)
  BY HeldNeverWhole DEF IInv
<1>6. modem = "online" => dataMode
  BY <1>4, <1>5 DEF Foreseen
<1>7. dataMode => modem = "online"
  BY <1>4, <1>5 DEF Foreseen, IInv, Past
<1>8. modem = "online" => b.phase = "online" /\ b.bps = rate
  BY <1>4, <1>6 DEF Foreseen, Carrying
<1>9. Sees(b, host, lineBuf)
  BY <1>1, <1>2 DEF Known
<1>10. modem = "online" => host.bps = rate
  BY <1>8, <1>9 DEF Sees
<1>11. ~dataMode => b.phase \in {"before", "after"}
  BY <1>4, <1>5 DEF Foreseen, Waiting, Failing, Ended, IInv, TypeOK
<1>12. host.connected => dataMode
  BY <1>9, <1>11 DEF Sees
<1>13. dataMode \in BOOLEAN
  BY DEF IInv, TypeOK
<1> QED
  BY <1>6, <1>7, <1>10, <1>12, <1>13

LEMMA ControlKnown == IInv => ControlSafe
<1> SUFFICES ASSUME IInv PROVE ControlSafe
  OBVIOUS
<1>1. TypeOK /\ NoJunkCommands
  BY DEF IInv
<1> QED
  BY <1>1, AllReported, AllAgree DEF ControlSafe

(* When the VM reads a CONNECT line before the call can drop, what the     *)
(* backend is told is what the modem did: each result once, the caller's   *)
(* bytes and nothing else, nothing written at the modem as a command, and  *)
(* one view of the call whenever nothing is on the way.  However the PTY   *)
(* is cut, whatever the order of line, status and timer, for any number of *)
(* bytes, codes and frames.                                                *)
THEOREM ControlSafeAlways == Prompt => (Spec => []ControlSafe)
<1> SUFFICES ASSUME Prompt PROVE Spec => []ControlSafe
  OBVIOUS
<1>1. Init => IInv
  BY InitKnown
<1>2. IInv /\ [Next]_vars => IInv'
  BY StepKept
<1>3. IInv => ControlSafe
  BY ControlKnown
<1> QED
  BY <1>1, <1>2, <1>3, PTL DEF Spec

-----------------------------------------------------------------------------
(* The telnet proxy.  Its handlers take a world, all of the proxy's state, *)
(* to the next; so does the proof.                                         *)

Proxies ==
  [state : {"MENU", "CONNECTING", "PROXYING", "CLOSING"},
   buf : Telnet!Texts \cup {"none"}, socket : Nat, timer : Nat, idle : Nat,
   beat : 0 .. Telnet!Off]

Worlds ==
  [p : Proxies,
   conn : [Telnet!Sockets -> {"new", "connecting", "open", "destroyed", "ended",
                              "closed"}],
   timers : SUBSET Nat, idles : SUBSET Nat]

Unused == {"new", "destroyed", "closed"}

(* The sockets are made in the order of their names.                       *)
Made(w, k) == \A s \in Telnet!Sockets : w.conn[s] # "new" <=> s <= k

(* No connection, and none that could come to life.                        *)
Resting(w) ==
  /\ w.p.socket = 0 /\ w.idles = {}
  /\ \A s \in Telnet!Sockets : w.conn[s] \in Unused

(* One is being made: its timer is the only one, and is remembered.        *)
Calling(w, k) ==
  /\ w.p.state = "CONNECTING" /\ k > 0 /\ w.p.socket = k
  /\ w.timers = {k} /\ w.p.timer = k /\ w.idles = {}
  /\ w.conn[k] = "connecting"
  /\ \A s \in Telnet!Sockets : s # k => w.conn[s] \in Unused

(* One is in use, and all before it have said that they are closed.        *)
Talking(w, k) ==
  /\ w.p.state = "PROXYING" /\ k > 0 /\ w.p.socket = k
  /\ w.timers = {} /\ w.idles \subseteq {k} /\ w.idles \subseteq {w.p.idle}
  /\ w.conn[k] \in {"open", "ended"}
  /\ \A s \in Telnet!Sockets : s # k => w.conn[s] \in {"new", "closed"}

(* After disconnect() a connect timer may still run, and bring the menu    *)
(* back.                                                                   *)
Stage(w, k, o) ==
  \/ ~o /\ w.p.state = "MENU" /\ Resting(w) /\ w.timers = {}
  \/ ~o /\ Calling(w, k)
  \/ ~o /\ Talking(w, k)
  \/ o /\ w.p.state \in {"MENU", "CLOSING"} /\ Resting(w)

Fits(w, k, o) ==
  /\ w \in Worlds /\ k \in 0 .. Connections /\ o \in BOOLEAN
  /\ w.p.timer <= Connections /\ w.p.idle <= Connections
  /\ w.timers \subseteq 1 .. Connections
  /\ Made(w, k) /\ Stage(w, k, o)
  /\ w.p.beat # Telnet!Off => w.p.state = "MENU"

TelnetInv ==
  /\ beats \in 0 .. MaxBeats
  /\ \E k \in 0 .. Connections : Fits(Telnet!World, k, over)

(* What returns to the menu: at most one connection, and its idle timer.   *)
Leaving(w, k) ==
  /\ w \in Worlds /\ k \in 0 .. Connections /\ Made(w, k)
  /\ w.p.timer <= Connections /\ w.p.idle <= Connections
  /\ w.timers \subseteq 1 .. Connections
  /\ w.p.socket \in 0 .. k /\ w.idles \subseteq {w.p.idle}
  /\ \A s \in Telnet!Sockets : s # w.p.socket => w.conn[s] \in Unused

LEMMA TelnetNumbers ==
  ASSUME Telnet!ConstantsOK
  PROVE  /\ Connections \in Nat /\ Telnet!Sockets = 1 .. Connections
         /\ Heartbeat \in Nat /\ Telnet!Off = Heartbeat + 1 /\ Telnet!Off \in Nat
         /\ MaxBeats \in Nat /\ Telnet!None = 0
BY DEF Telnet!ConstantsOK, Telnet!Sockets, Telnet!Off, Telnet!None

LEMMA Scheduled ==
  ASSUME Telnet!ConstantsOK, NEW w \in Worlds
  PROVE  LET v == Telnet!ScheduleHeartbeat(w) IN
         /\ v \in Worlds /\ v.conn = w.conn /\ v.timers = w.timers /\ v.idles = w.idles
         /\ v.p.state = w.p.state /\ v.p.buf = w.p.buf /\ v.p.socket = w.p.socket
         /\ v.p.timer = w.p.timer /\ v.p.idle = w.p.idle
         /\ v.p.beat # Telnet!Off => w.p.state = "MENU"
<1> DEFINE b == IF w.p.state = "MENU" /\ Heartbeat > 0 THEN Heartbeat ELSE Telnet!Off
           q == [w.p EXCEPT !.beat = b]
           v == [w EXCEPT !.p = q]
<1>1. b \in 0 .. Telnet!Off /\ (b # Telnet!Off => w.p.state = "MENU")
  BY TelnetNumbers
<1>2. w.p \in Proxies
  BY DEF Worlds
<1>3. Telnet!ScheduleHeartbeat(w) = v
  BY DEF Telnet!ScheduleHeartbeat, Worlds
<1> HIDE DEF b
<1>4. /\ q \in Proxies /\ q.beat = b /\ q.state = w.p.state /\ q.buf = w.p.buf
      /\ q.socket = w.p.socket /\ q.timer = w.p.timer /\ q.idle = w.p.idle
  BY <1>1, <1>2 DEF Proxies
<1> HIDE DEF q
<1>5. /\ v \in Worlds /\ v.p = q /\ v.conn = w.conn /\ v.timers = w.timers
      /\ v.idles = w.idles
  BY <1>4 DEF Worlds
<1> QED
  BY <1>1, <1>3, <1>4, <1>5

LEMMA SendFits ==
  ASSUME Telnet!ConstantsOK, NEW w, NEW k, NEW o, Fits(w, k, o)
  PROVE  Fits(Telnet!Send(w), k, o)
BY Scheduled DEF Telnet!Send, Fits, Stage, Made, Resting, Calling, Talking

LEMMA Closed ==
  ASSUME Telnet!ConstantsOK, NEW w, NEW k, Leaving(w, k)
  PROVE  LET v == Telnet!CloseConnection(w) IN
         /\ Leaving(v, k) /\ Resting(v) /\ v.p.state = w.p.state /\ v.timers = w.timers
         /\ v.p.beat = w.p.beat
<1> DEFINE s == w.p.socket
           q == [w.p EXCEPT !.idle = 0]
           r == [w.p EXCEPT !.idle = 0, !.socket = 0]
           c == [w.conn EXCEPT ![s] = IF @ = "closed" THEN @ ELSE "destroyed"]
           u == [w EXCEPT !.p = q, !.idles = {}]
           v == [w EXCEPT !.p = r, !.idles = {}, !.conn = c]
<1>1. w \in Worlds /\ w.p \in Proxies /\ w.idles \ {w.p.idle} = {}
  BY DEF Leaving, Worlds
<1>2. /\ q \in Proxies /\ q.state = w.p.state /\ q.beat = w.p.beat /\ q.timer = w.p.timer
      /\ q.idle = 0 /\ q.socket = w.p.socket
  BY <1>1 DEF Proxies
<1>3. /\ r \in Proxies /\ r.state = w.p.state /\ r.beat = w.p.beat /\ r.timer = w.p.timer
      /\ r.idle = 0 /\ r.socket = 0
  BY <1>1 DEF Proxies
<1>4. Telnet!CloseConnection(w) = IF s = 0 THEN u ELSE v
  BY <1>1, TelnetNumbers DEF Telnet!CloseConnection, Worlds, Proxies
<1> HIDE DEF q, r
<1>5. CASE s = 0
  <2>1. /\ u \in Worlds /\ u.p = q /\ u.idles = {} /\ u.conn = w.conn
        /\ u.timers = w.timers
    BY <1>1, <1>2 DEF Worlds
  <2> HIDE DEF u
  <2> QED
    BY <1>2, <1>4, <1>5, <2>1, TelnetNumbers DEF Leaving, Resting, Made
<1>6. CASE s # 0
  <2>1. s \in Telnet!Sockets /\ w.conn[s] # "new"
    BY <1>6, TelnetNumbers DEF Leaving, Made
  <2>2. /\ c \in [Telnet!Sockets -> {"new", "connecting", "open", "destroyed", "ended",
                                     "closed"}]
        /\ c[s] \in {"closed", "destroyed"}
        /\ \A t \in Telnet!Sockets : t # s => c[t] = w.conn[t]
    BY <1>1, <2>1 DEF Worlds
  <2> HIDE DEF c
  <2>3. v \in Worlds /\ v.p = r /\ v.idles = {} /\ v.conn = c /\ v.timers = w.timers
    BY <1>1, <1>3, <2>2 DEF Worlds
  <2> HIDE DEF v
  <2>4. \A t \in Telnet!Sockets : c[t] \in Unused /\ (c[t] # "new" <=> w.conn[t] # "new")
    BY <2>1, <2>2 DEF Leaving, Unused
  <2> QED
    BY <1>3, <1>4, <1>6, <2>3, <2>4, TelnetNumbers DEF Leaving, Resting, Made
<1> QED
  BY <1>5, <1>6

LEMMA Returned ==
  ASSUME Telnet!ConstantsOK, NEW w, NEW k, Leaving(w, k)
  PROVE  LET v == Telnet!ReturnToMenu(w) IN
         /\ Fits(v, k, TRUE) /\ v.p.state = "MENU"
         /\ w.timers = {} => Fits(v, k, FALSE)
<1> DEFINE q == [w.p EXCEPT !.state = "MENU", !.buf = "none"]
           u == [w EXCEPT !.p = q]
           v == Telnet!CloseConnection(u)
           x == Telnet!ScheduleHeartbeat(v)
<1>1. w \in Worlds /\ w.p \in Proxies
  BY DEF Leaving, Worlds
<1>2. /\ q \in Proxies /\ q.state = "MENU" /\ q.timer = w.p.timer /\ q.idle = w.p.idle
      /\ q.socket = w.p.socket
  BY <1>1 DEF Proxies
<1>3. Telnet!ReturnToMenu(w) = x
  BY <1>1 DEF Telnet!ReturnToMenu, Telnet!Send, Worlds, Proxies
<1> HIDE DEF q
<1>4. u \in Worlds /\ u.p = q /\ u.conn = w.conn /\ u.timers = w.timers /\ u.idles = w.idles
  BY <1>1, <1>2 DEF Worlds
<1> HIDE DEF u
<1>5. Leaving(u, k)
  BY <1>2, <1>4 DEF Leaving, Made
<1>6. Leaving(v, k) /\ Resting(v) /\ v.p.state = "MENU" /\ v.timers = w.timers
  BY <1>2, <1>4, <1>5, Closed
<1> HIDE DEF v
<1>7. /\ x \in Worlds /\ x.conn = v.conn /\ x.timers = v.timers /\ x.idles = v.idles
      /\ x.p.state = v.p.state /\ x.p.socket = v.p.socket
      /\ x.p.timer = v.p.timer /\ x.p.idle = v.p.idle
  BY <1>6, Scheduled DEF Leaving
<1> HIDE DEF x
<1> QED
  BY <1>3, <1>6, <1>7 DEF Fits, Stage, Leaving, Made, Resting

(* The proxy counts as everybody does.                                     *)
LEMMA Counted ==
  ASSUME NEW S
  PROVE  Telnet!Cardinality(S) = Cardinality(S)
BY DEF Telnet!Cardinality, Cardinality

LEMMA Named ==
  ASSUME Telnet!ConstantsOK, NEW w \in Worlds, NEW k \in 0 .. Connections, Made(w, k)
  PROVE  Telnet!NextSocket(w) = k + 1
<1>1. {s \in Telnet!Sockets : w.conn[s] # "new"} = 1 .. k
  BY TelnetNumbers DEF Made
<1>2. Cardinality(1 .. k) = k
  BY FS_Interval, TelnetNumbers
<1> QED
  BY <1>1, <1>2, Counted DEF Telnet!NextSocket

(* What the caller typed is remembered, or means nothing.                  *)
LEMMA Typed ==
  ASSUME Telnet!ConstantsOK, NEW w, NEW k, NEW o, Fits(w, k, o),
         NEW key \in Telnet!Tokens, key # "cr"
  PROVE  LET v == Telnet!Key(w, key) IN
         /\ Fits(v, k, o) /\ v.p.state = w.p.state
         /\ v.p.buf \in {key, w.p.buf}
<1> DEFINE q == [w.p EXCEPT !.buf = key]
           u == [w EXCEPT !.p = q]
<1>1. w \in Worlds /\ w.p \in Proxies
  BY DEF Fits, Worlds
<1>2. CASE key \in Telnet!Texts
  <2>1. /\ q \in Proxies /\ q.state = w.p.state /\ q.timer = w.p.timer
        /\ q.idle = w.p.idle /\ q.socket = w.p.socket /\ q.beat = w.p.beat
        /\ q.buf = key
    BY <1>1, <1>2 DEF Proxies
  <2>2. Telnet!Key(w, key) = Telnet!ScheduleHeartbeat(u)
    BY <1>1, <1>2 DEF Telnet!Key, Telnet!Send, Worlds, Proxies
  <2> HIDE DEF q
  <2>3. u \in Worlds /\ u.p = q /\ u.conn = w.conn /\ u.timers = w.timers /\ u.idles = w.idles
    BY <1>1, <2>1 DEF Worlds
  <2> HIDE DEF u
  <2>4. Fits(u, k, o)
    BY <2>1, <2>3 DEF Fits, Stage, Made, Resting, Calling, Talking
  <2> QED
    BY <2>1, <2>2, <2>3, <2>4, SendFits, Scheduled DEF Telnet!Send
<1>3. CASE key \notin Telnet!Texts
  <2>1. Telnet!Key(w, key) = w
    BY <1>3 DEF Telnet!Key
  <2> QED
    BY <2>1
<1> QED
  BY <1>2, <1>3

(* A call out of the menu.                                                 *)
LEMMA Called ==
  ASSUME Telnet!ConstantsOK, NEW w, NEW k, Fits(w, k, FALSE), w.p.state = "MENU",
         NEW text, text # "blocked" => k < Connections
  PROVE  LET v == Telnet!Connect(w, text) IN
         IF text = "blocked" THEN Fits(v, k, FALSE) /\ v.p.state = "MENU"
         ELSE Fits(v, k + 1, FALSE) /\ v.p.state = "CONNECTING"
<1> DEFINE q == [w.p EXCEPT !.state = "CONNECTING"]
           u == [w EXCEPT !.p = q]
           x == Telnet!ScheduleHeartbeat(u)
<1>1. /\ w \in Worlds /\ w.p \in Proxies /\ k \in 0 .. Connections /\ Made(w, k)
      /\ Resting(w) /\ w.timers = {}
  BY DEF Fits, Worlds, Stage, Calling, Talking
<1>2. /\ q \in Proxies /\ q.state = "CONNECTING" /\ q.timer = w.p.timer
      /\ q.idle = w.p.idle /\ q.socket = w.p.socket
  BY <1>1 DEF Proxies
<1>3. [w EXCEPT !.p.state = "CONNECTING"] = u
  BY <1>1 DEF Worlds, Proxies
<1> HIDE DEF q
<1>4. u \in Worlds /\ u.p = q /\ u.conn = w.conn /\ u.timers = w.timers /\ u.idles = w.idles
  BY <1>1, <1>2 DEF Worlds
<1> HIDE DEF u
<1>5. /\ x \in Worlds /\ x.conn = w.conn /\ x.timers = {} /\ x.idles = {}
      /\ x.p.state = "CONNECTING" /\ x.p.socket = 0
      /\ x.p.timer = w.p.timer /\ x.p.idle = w.p.idle /\ x.p.beat = Telnet!Off
  BY <1>1, <1>2, <1>4, Scheduled DEF Resting
<1>6. Telnet!NextSocket(w) = k + 1
  BY <1>1, Named
<1> DEFINE s == k + 1
           r == [x.p EXCEPT !.timer = s, !.socket = s]
           c == [x.conn EXCEPT ![s] = "connecting"]
           v == [x EXCEPT !.p = r, !.timers = {s}, !.conn = c]
           z == [x EXCEPT !.p.timer = s, !.timers = @ \cup {s},
                          !.p.socket = s, !.conn[s] = "connecting"]
<1>10. Telnet!Connect(w, text) = IF text = "blocked" THEN Telnet!ReturnToMenu(x) ELSE z
  BY <1>3, <1>6 DEF Telnet!Connect, Telnet!Send
<1> HIDE DEF x
<1>11. z = v
  BY <1>5 DEF Worlds, Proxies
<1>7. Telnet!Connect(w, text) = IF text = "blocked" THEN Telnet!ReturnToMenu(x) ELSE v
  BY <1>10, <1>11
<1> HIDE DEF z
<1>8. CASE text = "blocked"
  <2>1. Leaving(x, k)
    BY <1>1, <1>5, TelnetNumbers DEF Leaving, Resting, Made, Fits
  <2> QED
    BY <1>5, <1>7, <1>8, <2>1, Returned
<1>9. CASE text # "blocked"
  <2>1. s \in Telnet!Sockets /\ s \in 1 .. Connections /\ s \in Nat
    BY <1>1, <1>9, TelnetNumbers
  <2>2. x.p \in Proxies
    BY <1>5 DEF Worlds
  <2>3. /\ r \in Proxies /\ r.state = "CONNECTING" /\ r.timer = s /\ r.socket = s
        /\ r.idle = w.p.idle /\ r.beat = Telnet!Off
    BY <1>5, <2>1, <2>2 DEF Proxies
  <2>4. /\ c \in [Telnet!Sockets -> {"new", "connecting", "open", "destroyed", "ended",
                                     "closed"}]
        /\ c[s] = "connecting"
        /\ \A t \in Telnet!Sockets : t # s => c[t] = w.conn[t]
    BY <1>5, <2>1 DEF Worlds
  <2> HIDE DEF r, c
  <2>5. v \in Worlds /\ v.p = r /\ v.timers = {s} /\ v.idles = {} /\ v.conn = c
    BY <1>5, <2>1, <2>3, <2>4 DEF Worlds
  <2> HIDE DEF v
  <2>6. Made(v, s)
    BY <1>1, <2>1, <2>4, <2>5, TelnetNumbers DEF Made
  <2>7. \A t \in Telnet!Sockets : t # s => c[t] \in Unused
    BY <1>1, <2>4 DEF Resting
  <2>8. Calling(v, s)
    BY <1>1, <2>1, <2>3, <2>4, <2>5, <2>7, TelnetNumbers DEF Calling
  <2>9. Fits(v, s, FALSE)
    BY <1>1, <2>1, <2>3, <2>5, <2>6, <2>8, TelnetNumbers DEF Fits, Stage
  <2> QED
    BY <1>7, <1>9, <2>3, <2>5, <2>9
<1> QED
  BY <1>8, <1>9

LEMMA Entered ==
  ASSUME Telnet!ConstantsOK, NEW w, NEW k, Fits(w, k, FALSE), w.p.state = "MENU",
         w.p.buf = "host" => k < Connections
  PROVE  LET v == Telnet!Key(w, "cr") IN
         \E m \in 0 .. Connections :
           Fits(v, m, FALSE) /\ v.p.state \in {"MENU", "CONNECTING"} /\ v.p.buf = "none"
           /\ (v.p.state = "MENU" => m = k)
<1> DEFINE x == Telnet!ScheduleHeartbeat(w)
           y == Telnet!HandleInput(x, w.p.buf)
           q == [y.p EXCEPT !.buf = "none"]
           v == [y EXCEPT !.p = q]
<1>1. w \in Worlds /\ k \in 0 .. Connections /\ w.p.buf \in Telnet!Texts \cup {"none"}
  BY DEF Fits, Worlds, Proxies
<1>2. Fits(x, k, FALSE) /\ x.p.state = "MENU"
  BY <1>1, SendFits, Scheduled DEF Telnet!Send
<1> HIDE DEF x
<1>3. \E m \in 0 .. Connections :
        Fits(y, m, FALSE) /\ y.p.state \in {"MENU", "CONNECTING"}
        /\ (y.p.state = "MENU" => m = k)
  <2>1. CASE w.p.buf \in {"none", "help", "bad", "quit"}
    <3>1. y = Telnet!ScheduleHeartbeat(x)
      BY <2>1 DEF Telnet!HandleInput, Telnet!Send
    <3> HIDE DEF y
    <3>2. x \in Worlds
      BY <1>2 DEF Fits
    <3>3. Fits(y, k, FALSE)
      BY <1>2, <3>1, SendFits DEF Telnet!Send
    <3>4. y.p.state = "MENU"
      BY <1>2, <3>1, <3>2, Scheduled
    <3> QED
      BY <1>1, <3>3, <3>4
  <2>2. CASE w.p.buf \in {"host", "blocked"}
    <3>1. y = Telnet!Connect(x, w.p.buf)
      BY <2>2 DEF Telnet!HandleInput
    <3> HIDE DEF y
    <3>2. IF w.p.buf = "blocked" THEN Fits(y, k, FALSE) /\ y.p.state = "MENU"
          ELSE Fits(y, k + 1, FALSE) /\ y.p.state = "CONNECTING"
      BY <1>2, <2>2, <3>1, Called
    <3>3. CASE w.p.buf = "blocked"
      BY <1>1, <3>2, <3>3
    <3>4. CASE w.p.buf # "blocked"
      <4>1. k + 1 \in 0 .. Connections
        BY <1>1, <2>2, <3>4, TelnetNumbers
      <4> QED
        BY <3>2, <3>4, <4>1
    <3> QED
      BY <3>3, <3>4
  <2> QED
    BY <1>1, <2>1, <2>2 DEF Telnet!Texts
<1> HIDE DEF y
<1>4. PICK m \in 0 .. Connections :
        Fits(y, m, FALSE) /\ y.p.state \in {"MENU", "CONNECTING"}
        /\ (y.p.state = "MENU" => m = k)
  BY <1>3
<1>5. y \in Worlds /\ y.p \in Proxies
  BY <1>4 DEF Fits, Worlds
<1>10. Telnet!Key(w, "cr") = [y EXCEPT !.p.buf = "none"]
  BY DEF Telnet!Key, Telnet!Texts, Telnet!Send, x, y
<1>6. Telnet!Key(w, "cr") = v
  BY <1>5, <1>10 DEF Worlds, Proxies
<1>7. /\ q \in Proxies /\ q.state = y.p.state /\ q.timer = y.p.timer
      /\ q.idle = y.p.idle /\ q.socket = y.p.socket /\ q.beat = y.p.beat
      /\ q.buf = "none"
  BY <1>5 DEF Proxies
<1> HIDE DEF q
<1>8. v \in Worlds /\ v.p = q /\ v.conn = y.conn /\ v.timers = y.timers /\ v.idles = y.idles
  BY <1>5, <1>7 DEF Worlds
<1> HIDE DEF v
<1>9. Fits(v, m, FALSE)
  BY <1>4, <1>7, <1>8 DEF Fits, Stage, Made, Resting, Calling, Talking
<1> QED
  BY <1>4, <1>6, <1>7, <1>8, <1>9

LEMMA Fitted ==
  ASSUME NEW w, NEW k, NEW o, Fits(w, k, o)
  PROVE  k \in 0 .. Connections /\ w \in Worlds /\ w.p \in Proxies /\ Made(w, k)
         /\ o \in BOOLEAN /\ w.p.timer <= Connections /\ w.p.idle <= Connections
BY DEF Fits, Worlds

(* The keys of one read bring a world that fits to one that does: at the   *)
(* only end of a line the proxy may call, and then it is not in the menu.  *)
LEMMA KeysKeep ==
  ASSUME Telnet!ConstantsOK, NEW w, NEW k, Fits(w, k, FALSE), w.p.state = "MENU",
         NEW keys \in Seq(Telnet!Tokens),
         \A i, j \in DOMAIN keys : keys[i] = "cr" /\ keys[j] = "cr" => i = j,
         w.p.buf = "host" => k < Connections,
         \A i \in DOMAIN keys : keys[i] = "host" => k < Connections
  PROVE  \E m \in 0 .. Connections : Fits(Telnet!Keys(w, keys), m, FALSE)
<1> DEFINE n == Len(keys)
           Turn(g, m) == [i \in 0 .. m |-> IF i = 0 THEN w
                                           ELSE Telnet!Key(g[i - 1], keys[i])]
           Loops == {m \in Nat : \E g : g = Turn(g, m)}
<1>1. n \in Nat /\ DOMAIN keys = 1 .. n /\ \A i \in 1 .. n : keys[i] \in Telnet!Tokens
  OBVIOUS
<1>2. \E g : g = Turn(g, n)
  <2>1. 0 \in Loops
    <3> DEFINE g == [i \in 0 .. 0 |-> w]
    <3>1. g = Turn(g, 0)
      OBVIOUS
    <3> QED
      BY <3>1
  <2>2. ASSUME NEW m \in Nat, m \in Loops PROVE m + 1 \in Loops
    <3>1. PICK g : g = Turn(g, m)
      BY <2>2
    <3> DEFINE h == [i \in 0 .. m + 1 |->
                       IF i <= m THEN g[i] ELSE Telnet!Key(g[m], keys[m + 1])]
               Value(i) == IF i = 0 THEN w ELSE Telnet!Key(h[i - 1], keys[i])
    <3>2. ASSUME NEW i \in 0 .. m + 1 PROVE h[i] = Value(i)
      <4>1. CASE i = 0
        <5>1. h[0] = g[0] /\ g[0] = w
          BY <3>1
        <5> QED
          BY <4>1, <5>1
      <4>2. CASE i \in 1 .. m
        <5>1. h[i] = g[i] /\ h[i - 1] = g[i - 1] /\ i # 0
          BY <4>2
        <5>2. g[i] = Telnet!Key(g[i - 1], keys[i])
          BY <3>1, <4>2
        <5> QED
          BY <5>1, <5>2
      <4>3. CASE i = m + 1
        <5>1. h[i] = Telnet!Key(g[m], keys[i]) /\ h[i - 1] = g[m] /\ i # 0
          BY <4>3
        <5> QED
          BY <5>1
      <4> QED
        BY <4>1, <4>2, <4>3
    <3>3. h = [i \in 0 .. m + 1 |-> h[i]]
      OBVIOUS
    <3> HIDE DEF h
    <3>4. h = Turn(h, m + 1)
      BY <3>2, <3>3
    <3> QED
      BY <3>4
  <2> HIDE DEF Loops
  <2>3. n \in Loops
    BY <1>1, <2>1, <2>2, SetInduction
  <2> QED
    BY <2>3 DEF Loops
<1> DEFINE after == CHOOSE g : g = Turn(g, n)
<1>3. Telnet!Keys(w, keys) = after[n]
  BY DEF Telnet!Keys
<1>4. after = Turn(after, n)
  BY <1>2
<1> HIDE DEF after
<1>5. /\ after[0] = w
      /\ \A i \in 1 .. n : after[i] = Telnet!Key(after[i - 1], keys[i])
  BY <1>1, <1>4
<1> DEFINE Idle(v) == Fits(v, k, FALSE) /\ v.p.state = "MENU"
                      /\ (v.p.buf = "host" => k < Connections)
           Busy(v, m) == /\ \E j \in 0 .. Connections : Fits(v, j, FALSE)
                         /\ v.p.state = "CONNECTING"
                         /\ \E i \in 1 .. m : keys[i] = "cr"
           Good == {m \in Nat : m <= n => Idle(after[m]) \/ Busy(after[m], m)}
<1> HIDE DEF Idle, Busy
<1>6. 0 \in Good
  BY <1>5 DEF Idle
<1>7. ASSUME NEW m \in Nat, m \in Good PROVE m + 1 \in Good
  <2> SUFFICES ASSUME m + 1 <= n
               PROVE  Idle(after[m + 1]) \/ Busy(after[m + 1], m + 1)
    OBVIOUS
  <2> DEFINE v == after[m]
             u == after[m + 1]
             key == keys[m + 1]
  <2>1. u = Telnet!Key(v, key) /\ key \in Telnet!Tokens
    <3>1. m + 1 \in 1 .. n /\ (m + 1) - 1 = m
      BY <1>1
    <3> QED
      BY <1>1, <1>5, <3>1
  <2>2. Idle(v) \/ Busy(v, m)
    BY <1>1, <1>7
  <2>3. m + 1 \in 1 .. n /\ m + 1 \in DOMAIN keys /\ (key = "host" => k < Connections)
    BY <1>1
  <2> HIDE DEF v, u
  <2>4. CASE Idle(v) /\ key # "cr"
    <3>1. Fits(u, k, FALSE) /\ u.p.state = "MENU" /\ u.p.buf \in {key, v.p.buf}
      BY <2>1, <2>4, Typed DEF Idle
    <3>2. Idle(u)
      BY <2>3, <2>4, <3>1 DEF Idle
    <3> QED
      BY <3>2 DEF u
  <2>5. CASE Idle(v) /\ key = "cr"
    <3>1. \E j \in 0 .. Connections :
            Fits(u, j, FALSE) /\ u.p.state \in {"MENU", "CONNECTING"}
            /\ u.p.buf = "none" /\ (u.p.state = "MENU" => j = k)
      BY <2>1, <2>5, Entered DEF Idle
    <3>2. \E i \in 1 .. m + 1 : keys[i] = "cr"
      BY <2>5
    <3>3. Idle(u) \/ Busy(u, m + 1)
      BY <3>1, <3>2 DEF Idle, Busy
    <3> QED
      BY <3>3 DEF u
  <2>6. CASE Busy(v, m)
    <3>1. PICK i \in 1 .. m : keys[i] = "cr"
      BY <2>6 DEF Busy
    <3>2. key # "cr"
      <4>1. i \in DOMAIN keys /\ i # m + 1
        BY <1>1, <2>3
      <4> QED
        BY <2>3, <3>1, <4>1
    <3>3. PICK j \in 0 .. Connections : Fits(v, j, FALSE)
      BY <2>6 DEF Busy
    <3>4. Fits(u, j, FALSE) /\ u.p.state = "CONNECTING"
      BY <2>1, <2>6, <3>2, <3>3, Typed DEF Busy
    <3>5. i \in 1 .. m + 1
      OBVIOUS
    <3>6. Busy(u, m + 1)
      BY <3>1, <3>4, <3>5 DEF Busy
    <3> QED
      BY <3>6 DEF u
  <2> QED
    BY <2>2, <2>4, <2>5, <2>6
<1>8. n \in Good
  <2> HIDE DEF Good
  <2> QED
    BY <1>1, <1>6, <1>7, SetInduction
<1>9. Idle(after[n]) \/ Busy(after[n], n)
  BY <1>1, <1>8
<1> QED
  BY <1>3, <1>9, Fitted DEF Idle, Busy

LEMMA Lands ==
  ASSUME NEW w, NEW k, NEW o, Fits(w, k, o), Telnet!Becomes(w), over' = o,
         beats' \in 0 .. MaxBeats
  PROVE  TelnetInv'
<1>1. w \in Worlds /\ k \in 0 .. Connections
  BY Fitted
<1>2. w = [p |-> w.p, conn |-> w.conn, timers |-> w.timers, idles |-> w.idles]
  BY <1>1 DEF Worlds
<1>3. Telnet!World' = w
  BY <1>2 DEF Telnet!World, Telnet!Becomes
<1> QED
  BY <1>1, <1>3 DEF TelnetInv

LEMMA FitsEnds ==
  ASSUME Telnet!ConstantsOK, NEW w, NEW k, NEW o, Fits(w, k, o)
  PROVE  Leaving(w, k)
<1>1. /\ w \in Worlds /\ w.p \in Proxies /\ k \in 0 .. Connections /\ Made(w, k)
      /\ w.p.timer <= Connections /\ w.p.idle <= Connections
      /\ w.timers \subseteq 1 .. Connections
  BY DEF Fits, Worlds
<1>2. /\ w.p.socket \in 0 .. k /\ w.idles \subseteq {w.p.idle}
      /\ \A s \in Telnet!Sockets : s # w.p.socket => w.conn[s] \in Unused
  <2>1. k \in Nat /\ k \in 0 .. k /\ 0 \in 0 .. k
    BY <1>1, TelnetNumbers
  <2>2. CASE Resting(w)
    BY <2>1, <2>2 DEF Resting
  <2>3. CASE Calling(w, k)
    BY <2>1, <2>3 DEF Calling
  <2>4. CASE Talking(w, k)
    BY <2>1, <2>4 DEF Talking, Unused
  <2> QED
    BY <2>2, <2>3, <2>4 DEF Fits, Stage
<1> QED
  BY <1>1, <1>2 DEF Leaving

(* A call that is given up leads back to the menu.                         *)
LEMMA BackToMenu ==
  ASSUME Telnet!ConstantsOK, NEW w, NEW k, Leaving(w, k)
  PROVE  LET v == Telnet!ReturnToMenu(Telnet!Send(w)) IN
         /\ Fits(v, k, TRUE)
         /\ w.timers = {} => Fits(v, k, FALSE)
<1> DEFINE v == Telnet!ScheduleHeartbeat(w)
<1>1. w \in Worlds
  BY DEF Leaving
<1>2. /\ v \in Worlds /\ v.conn = w.conn /\ v.timers = w.timers /\ v.idles = w.idles
      /\ v.p.socket = w.p.socket /\ v.p.timer = w.p.timer /\ v.p.idle = w.p.idle
  BY <1>1, Scheduled
<1> HIDE DEF v
<1>3. Leaving(v, k)
  BY <1>2 DEF Leaving, Made
<1> QED
  BY <1>2, <1>3, Returned DEF Telnet!Send, v

(* A socket's state changes.                                               *)
LEMMA Turned ==
  ASSUME NEW w \in Worlds, NEW s \in Telnet!Sockets,
         NEW c \in {"open", "destroyed", "ended", "closed"}, NEW k,
         Made(w, k), w.conn[s] # "new"
  PROVE  LET v == [w EXCEPT !.conn[s] = c] IN
         /\ v \in Worlds /\ v.p = w.p /\ v.timers = w.timers /\ v.idles = w.idles
         /\ v.conn[s] = c /\ Made(v, k)
         /\ \A t \in Telnet!Sockets : t # s => v.conn[t] = w.conn[t]
<1> DEFINE d == [w.conn EXCEPT ![s] = c]
           v == [w EXCEPT !.conn = d]
<1>1. /\ d \in [Telnet!Sockets -> {"new", "connecting", "open", "destroyed", "ended",
                                   "closed"}]
      /\ d[s] = c /\ \A t \in Telnet!Sockets : t # s => d[t] = w.conn[t]
  BY DEF Worlds
<1>2. [w EXCEPT !.conn[s] = c] = v
  BY DEF Worlds
<1> HIDE DEF d
<1>3. v \in Worlds /\ v.p = w.p /\ v.timers = w.timers /\ v.idles = w.idles /\ v.conn = d
  BY <1>1 DEF Worlds
<1> HIDE DEF v
<1>4. Made(v, k)
  BY <1>1, <1>3 DEF Made
<1> QED
  BY <1>1, <1>2, <1>3, <1>4

(* Timers that stop.                                                       *)
LEMMA TimersStop ==
  ASSUME NEW w, NEW k, Leaving(w, k), NEW v \in Worlds, v.p = w.p, v.conn = w.conn,
         v.timers \subseteq w.timers, v.idles \subseteq w.idles
  PROVE  Leaving(v, k)
BY DEF Leaving, Made

(* While the call lasts, a socket that is not at rest is the one in use.   *)
LEMMA OneInUse ==
  ASSUME NEW w, NEW k, NEW o, Fits(w, k, o), NEW s \in Telnet!Sockets
  PROVE  /\ w.conn[s] = "connecting" => ~o /\ s = k /\ Calling(w, k)
         /\ w.conn[s] \in {"open", "ended"} => ~o /\ s = k /\ Talking(w, k)
         /\ w.conn[s] = "destroyed" => ~Talking(w, k)
         /\ s \in w.idles => ~o /\ s = k /\ Talking(w, k)
         /\ s \in w.timers => o \/ w.timers = {s}
<1>1. w.conn[s] \in {"new", "connecting", "open", "destroyed", "ended", "closed"}
  BY DEF Fits, Worlds
<1>2. CASE Resting(w) /\ (o \/ w.timers = {})
  BY <1>1, <1>2 DEF Resting, Unused, Talking
<1>3. CASE ~o /\ Calling(w, k)
  BY <1>1, <1>3 DEF Calling, Unused, Talking
<1>4. CASE ~o /\ Talking(w, k)
  BY <1>1, <1>4 DEF Talking
<1> QED
  BY <1>2, <1>3, <1>4 DEF Fits, Stage

(* What the handlers find.                                                 *)
Found(w, k) ==
  /\ w = Telnet!World /\ Fits(w, k, over) /\ beats \in 0 .. MaxBeats
  /\ w.p = proxy /\ w.conn = conn /\ w.timers = timers /\ w.idles = idles

LEMMA Finds ==
  ASSUME TelnetInv
  PROVE  \E w : \E k \in 0 .. Connections : Found(w, k)
<1>1. PICK k \in 0 .. Connections : Fits(Telnet!World, k, over)
  BY DEF TelnetInv
<1>2. Found(Telnet!World, k)
  BY <1>1 DEF Found, TelnetInv, Telnet!World
<1> QED
  BY <1>2

LEMMA ReceiveKeeps ==
  ASSUME Telnet!ConstantsOK, Telnet!OneLineARead, NEW w, NEW k, Found(w, k),
         NEW keys \in Chunks, Telnet!Receive(keys)
  PROVE  TelnetInv'
<1>1. /\ Fits(w, k, FALSE) /\ k \in 0 .. Connections /\ w \in Worlds
      /\ w.p \in Proxies /\ Made(w, k) /\ ~over /\ over' = FALSE
      /\ beats' \in 0 .. MaxBeats
  <2>1. Fits(w, k, over) /\ ~over /\ over' = over /\ beats' = beats
    BY DEF Found, Telnet!Receive
  <2>2. over = FALSE
    BY <2>1, Fitted
  <2> QED
    BY <2>1, <2>2, Fitted DEF Found
<1> DEFINE v == Telnet!ScheduleHeartbeat(w)
<1>2. Fits(v, k, FALSE) /\ v.p.state = w.p.state /\ v.p.buf = w.p.buf
  BY <1>1, SendFits, Scheduled DEF Telnet!Send
<1>3. CASE proxy.state = "PROXYING"
  <2>1. Telnet!Becomes(IF keys = <<"esc">> THEN Telnet!ReturnToMenu(Telnet!Send(v)) ELSE v)
    BY <1>3 DEF Telnet!Receive, Found
  <2> HIDE DEF v
  <2>2. CASE keys = <<"esc">>
    <3>1. Talking(v, k)
      BY <1>2, <1>3 DEF Fits, Stage, Calling, Found
    <3>2. Leaving(v, k) /\ v.timers = {}
      BY <1>2, <3>1, FitsEnds DEF Talking
    <3>3. Fits(Telnet!ReturnToMenu(Telnet!Send(v)), k, FALSE)
      BY <3>2, BackToMenu
    <3> QED
      BY <1>1, <2>1, <2>2, <3>3, Lands
  <2>3. CASE keys # <<"esc">>
    BY <1>1, <1>2, <2>1, <2>3, Lands
  <2> QED
    BY <2>2, <2>3
<1>4. CASE proxy.state = "MENU"
  <2>1. Telnet!Becomes(Telnet!Keys(v, keys))
    BY <1>4 DEF Telnet!Receive, Found
  <2> HIDE DEF v
  <2>2. keys \in Seq(Telnet!Tokens) /\ DOMAIN keys = 1 .. Len(keys)
    BY DEF Telnet!ConstantsOK
  <2>3. \A i, j \in DOMAIN keys : keys[i] = "cr" /\ keys[j] = "cr" => i = j
    BY DEF Telnet!OneLineARead
  <2> DEFINE line == Append(keys, proxy.buf)
             found == {i \in DOMAIN line : line[i] = "host"}
             new == {s \in Telnet!Sockets : conn[s] = "new"}
  <2>4. found # {} => k < Connections
    <3>1. Cardinality(found) <= Cardinality(new)
      BY Counted DEF Telnet!Receive, Telnet!Hosts
    <3>2. DOMAIN line = 1 .. Len(keys) + 1
      BY <2>2
    <3>3. IsFiniteSet(1 .. Len(keys) + 1)
      BY <2>2, FS_Interval
    <3>4. IsFiniteSet(found)
      BY <3>2, <3>3, FS_Subset
    <3>5. IsFiniteSet(Telnet!Sockets)
      BY TelnetNumbers, FS_Interval
    <3>6. IsFiniteSet(new)
      BY <3>5, FS_Subset
    <3>7. ASSUME found # {} PROVE new # {}
      <4>1. Cardinality(found) \in Nat /\ Cardinality(found) # 0
        BY <3>4, <3>7, FS_CardinalityType, FS_EmptySet
      <4>2. Cardinality(new) # 0
        <5>1. Cardinality(new) \in Nat
          BY <3>6, FS_CardinalityType
        <5> HIDE DEF found, new
        <5> QED
          BY <3>1, <4>1, <5>1
      <4> QED
        BY <3>6, <4>2, FS_EmptySet
    <3>8. ASSUME NEW s \in new PROVE k < Connections
      BY <1>1, <3>8, TelnetNumbers DEF Made, Found
    <3> HIDE DEF found, new
    <3> QED
      BY <3>7, <3>8
  <2>5. w.p.buf = "host" => k < Connections
    <3>1. ASSUME w.p.buf = "host" PROVE found # {}
      <4>1. line[Len(keys) + 1] = "host" /\ Len(keys) + 1 \in DOMAIN line
        BY <2>2, <3>1 DEF Found
      <4> QED
        BY <4>1
    <3> QED
      BY <2>4, <3>1
  <2>6. \A i \in DOMAIN keys : keys[i] = "host" => k < Connections
    <3>1. ASSUME NEW i \in DOMAIN keys, keys[i] = "host" PROVE found # {}
      <4>1. line[i] = "host" /\ i \in DOMAIN line
        BY <2>2, <3>1
      <4> QED
        BY <4>1
    <3> QED
      BY <2>4, <3>1
  <2> HIDE DEF found
  <2>7. PICK m \in 0 .. Connections : Fits(Telnet!Keys(v, keys), m, FALSE)
    <3>1. v.p.state = "MENU"
      BY <1>2, <1>4 DEF Found
    <3>2. v.p.buf = "host" => k < Connections
      BY <1>2, <2>5
    <3> QED
      BY <1>2, <2>2, <2>3, <2>6, <3>1, <3>2, KeysKeep
  <2> QED
    BY <1>1, <2>1, <2>7, Lands
<1>5. CASE proxy.state = "CONNECTING"
  <2>1. Telnet!Becomes(v)
    BY <1>5 DEF Telnet!Receive, Found
  <2> HIDE DEF v
  <2> QED
    BY <1>1, <1>2, <2>1, Lands
<1>6. proxy.state # "CLOSING"
  BY <1>1 DEF Fits, Stage, Resting, Calling, Talking, Found
<1> QED
  BY <1>1, <1>3, <1>4, <1>5, <1>6 DEF Proxies, Found

LEMMA ConnectedKeeps ==
  ASSUME Telnet!ConstantsOK, NEW w, NEW k, Found(w, k),
         NEW s \in Telnet!Sockets, Telnet!Connected(s)
  PROVE  TelnetInv'
<1>1. /\ Fits(w, k, over) /\ w \in Worlds /\ w.p \in Proxies /\ Made(w, k)
      /\ k \in 0 .. Connections /\ w.conn[s] = "connecting"
      /\ w.p.idle <= Connections /\ over \in BOOLEAN
      /\ beats' \in 0 .. MaxBeats /\ over' = over
  BY Fitted DEF Found, Telnet!Connected
<1>2. over = FALSE /\ s = k /\ Calling(w, k)
  BY <1>1, OneInUse
<1> DEFINE c == [w.conn EXCEPT ![k] = "open"]
           q == [w.p EXCEPT !.timer = 0, !.state = "PROXYING"]
           u == [w EXCEPT !.conn = c, !.timers = {}, !.p = q]
           x == Telnet!ScheduleHeartbeat(u)
           r == [x.p EXCEPT !.idle = k]
           y == [x EXCEPT !.idles = {k}, !.p = r]
<1>3. [w EXCEPT !.conn[s] = "open", !.timers = @ \ {w.p.timer}, !.p.timer = 0,
                !.p.state = "PROXYING"] = u
  <2>1. w.timers \ {w.p.timer} = {}
    BY <1>2 DEF Calling
  <2> QED
    BY <1>1, <1>2, <2>1 DEF Worlds, Proxies
<1>4. /\ c \in [Telnet!Sockets -> {"new", "connecting", "open", "destroyed", "ended",
                                   "closed"}]
      /\ c[k] = "open" /\ \A t \in Telnet!Sockets : t # k => c[t] = w.conn[t]
  BY <1>1, <1>2 DEF Worlds
<1>5. /\ q \in Proxies /\ q.state = "PROXYING" /\ q.timer = 0 /\ q.socket = k
      /\ q.idle = w.p.idle
  BY <1>1, <1>2 DEF Proxies, Calling
<1>6. Telnet!Becomes(Telnet!StartIdle(x, s))
  BY <1>3, TelnetNumbers DEF Telnet!Connected, Telnet!Send, Found
<1> HIDE DEF c, q
<1>7. u \in Worlds /\ u.p = q /\ u.conn = c /\ u.timers = {} /\ u.idles = {}
  <2>1. w.idles = {}
    BY <1>2 DEF Calling
  <2> QED
    BY <1>1, <1>4, <1>5, <2>1 DEF Worlds
<1> HIDE DEF u
<1>8. /\ x \in Worlds /\ x.conn = c /\ x.timers = {} /\ x.idles = {}
      /\ x.p.state = "PROXYING" /\ x.p.socket = k /\ x.p.timer = 0
      /\ x.p.idle = w.p.idle /\ x.p.beat = Telnet!Off
  BY <1>5, <1>7, Scheduled
<1> HIDE DEF x
<1>9. \A t \in Telnet!Sockets : t # k => c[t] \in {"new", "closed"}
  <2> SUFFICES ASSUME NEW t \in Telnet!Sockets, t # k
               PROVE  w.conn[t] \in {"new", "closed"}
    BY <1>4
  <2>1. w.conn[t] \in Unused
    BY <1>2 DEF Calling
  <2>2. CASE t < k
    BY <1>2, <2>1, <2>2 DEF Telnet!Connected, Found, Unused
  <2>3. CASE ~(t < k)
    BY <1>1, <1>2, <2>3, TelnetNumbers DEF Made
  <2> QED
    BY <2>2, <2>3
<1>10. \A t \in Telnet!Sockets : c[t] # "new" <=> t <= k
  BY <1>1, <1>2, <1>4 DEF Made
<1>11. CASE ~IdleTimeout
  <2>1. Telnet!StartIdle(x, s) = x
    BY <1>11 DEF Telnet!StartIdle
  <2>2. Talking(x, k)
    BY <1>1, <1>2, <1>4, <1>8, <1>9, TelnetNumbers DEF Talking, Calling
  <2>3. Fits(x, k, FALSE)
    BY <1>1, <1>8, <1>10, <2>2, TelnetNumbers DEF Fits, Stage, Made
  <2> QED
    BY <1>1, <1>2, <1>6, <2>1, <2>3, Lands
<1>12. CASE IdleTimeout
  <2>1. Telnet!StartIdle(x, s) = y
    BY <1>2, <1>8, <1>12 DEF Telnet!StartIdle, Worlds, Proxies
  <2>2. /\ r \in Proxies /\ r.state = "PROXYING" /\ r.socket = k /\ r.timer = 0
        /\ r.idle = k /\ r.beat = Telnet!Off
    <3>1. x.p \in Proxies /\ k \in Nat
      BY <1>1, <1>8, TelnetNumbers DEF Worlds
    <3> QED
      BY <1>8, <3>1 DEF Proxies
  <2> HIDE DEF r
  <2>3. y \in Worlds /\ y.p = r /\ y.conn = c /\ y.timers = {} /\ y.idles = {k}
    <3>1. {k} \in SUBSET Nat
      BY <1>1, TelnetNumbers
    <3> QED
      BY <1>8, <2>2, <3>1 DEF Worlds
  <2> HIDE DEF y
  <2>4. Talking(y, k)
    BY <1>1, <1>2, <1>4, <1>9, <2>2, <2>3, TelnetNumbers DEF Talking, Calling
  <2>5. Fits(y, k, FALSE)
    BY <1>1, <1>10, <2>2, <2>3, <2>4, TelnetNumbers DEF Fits, Stage, Made
  <2> QED
    BY <1>1, <1>2, <1>6, <2>1, <2>5, Lands
<1> QED
  BY <1>11, <1>12

(* What is true of the world in every handler of a socket or a timer.      *)
LEMMA Handled ==
  ASSUME NEW w, NEW k, Found(w, k), UNCHANGED <<over, beats>>
  PROVE  /\ Fits(w, k, over) /\ w \in Worlds /\ w.p \in Proxies /\ Made(w, k)
         /\ k \in 0 .. Connections /\ over \in BOOLEAN /\ (~over => over = FALSE)
         /\ beats' \in 0 .. MaxBeats /\ over' = over
BY Fitted DEF Found

LEMMA SocketErrorKeeps ==
  ASSUME Telnet!ConstantsOK, NEW w, NEW k, Found(w, k),
         NEW s \in Telnet!Sockets, Telnet!SocketError(s)
  PROVE  TelnetInv'
<1>1. /\ Fits(w, k, over) /\ w \in Worlds /\ Made(w, k) /\ (~over => over = FALSE)
      /\ beats' \in 0 .. MaxBeats /\ over' = over
      /\ w.conn[s] \in {"connecting", "open"}
  BY Handled DEF Telnet!SocketError, Found
<1>2. over = FALSE /\ s = k /\ (Calling(w, k) \/ Talking(w, k))
  BY <1>1, OneInUse
<1>3. w.p.socket = s /\ w.timers \ {w.p.timer} = {}
  BY <1>2 DEF Calling, Talking
<1> DEFINE u == [w EXCEPT !.conn[s] = "destroyed"]
           v == [w EXCEPT !.timers = @ \ {w.p.timer}, !.conn[s] = "destroyed"]
<1>4. /\ u \in Worlds /\ u.p = w.p /\ u.timers = w.timers /\ u.idles = w.idles
      /\ Made(u, k) /\ \A t \in Telnet!Sockets : t # s => u.conn[t] = w.conn[t]
  BY <1>1, Turned
<1>5. /\ v \in Worlds /\ v.p = u.p /\ v.conn = u.conn /\ v.idles = u.idles
      /\ v.timers = w.timers \ {w.p.timer}
  BY <1>1, <1>4 DEF Worlds
<1>6. Telnet!Becomes(Telnet!ReturnToMenu(Telnet!Send(v)))
  BY DEF Telnet!SocketError, Found
<1> HIDE DEF u, v
<1>7. Leaving(u, k)
  BY <1>1, <1>3, <1>4, FitsEnds DEF Leaving
<1>8. Leaving(v, k) /\ v.timers = {}
  BY <1>3, <1>4, <1>5, <1>7, TimersStop
<1> QED
  BY <1>1, <1>2, <1>6, <1>8, BackToMenu, Lands

LEMMA RemoteEndsKeeps ==
  ASSUME Telnet!ConstantsOK, NEW w, NEW k, Found(w, k),
         NEW s \in Telnet!Sockets, Telnet!RemoteEnds(s)
  PROVE  TelnetInv'
<1>1. /\ Fits(w, k, over) /\ w \in Worlds /\ Made(w, k) /\ (~over => over = FALSE)
      /\ beats' \in 0 .. MaxBeats /\ over' = over /\ w.conn[s] = "open"
  BY Handled DEF Telnet!RemoteEnds, Found
<1>2. over = FALSE /\ s = k /\ Talking(w, k)
  BY <1>1, OneInUse
<1> DEFINE u == [w EXCEPT !.conn[s] = "ended"]
<1>3. /\ u \in Worlds /\ u.p = w.p /\ u.timers = w.timers /\ u.idles = w.idles
      /\ u.conn[s] = "ended"
      /\ Made(u, k) /\ \A t \in Telnet!Sockets : t # s => u.conn[t] = w.conn[t]
  BY <1>1, Turned
<1>4. Telnet!Becomes(u)
  <2>1. u.conn = [conn EXCEPT ![s] = "ended"]
    BY <1>1 DEF Worlds, Found
  <2> QED
    BY <1>3, <2>1 DEF Telnet!RemoteEnds, Telnet!Becomes, Found
<1> HIDE DEF u
<1>5. Talking(u, k)
  BY <1>2, <1>3 DEF Talking
<1>6. Fits(u, k, FALSE)
  BY <1>1, <1>2, <1>3, <1>5 DEF Fits, Stage
<1> QED
  BY <1>1, <1>2, <1>4, <1>6, Lands

LEMMA SocketCloseKeeps ==
  ASSUME Telnet!ConstantsOK, NEW w, NEW k, Found(w, k),
         NEW s \in Telnet!Sockets, Telnet!SocketClose(s)
  PROVE  TelnetInv'
<1>1. /\ Fits(w, k, over) /\ w \in Worlds /\ Made(w, k) /\ (~over => over = FALSE)
      /\ beats' \in 0 .. MaxBeats /\ over' = over
      /\ w.conn[s] \in {"destroyed", "ended"}
  BY Handled DEF Telnet!SocketClose, Found
<1> DEFINE u == [w EXCEPT !.conn[s] = "closed"]
<1>2. /\ u \in Worlds /\ u.p = w.p /\ u.timers = w.timers /\ u.idles = w.idles
      /\ u.conn[s] = "closed"
      /\ Made(u, k) /\ \A t \in Telnet!Sockets : t # s => u.conn[t] = w.conn[t]
  BY <1>1, Turned
<1>3. Telnet!Becomes(IF proxy.state = "PROXYING"
                     THEN Telnet!ReturnToMenu(Telnet!Send(u)) ELSE u)
  BY DEF Telnet!SocketClose, Found
<1> HIDE DEF u
<1>4. CASE proxy.state = "PROXYING"
  <2>1. Talking(w, k) /\ over = FALSE
    BY <1>1, <1>4 DEF Fits, Stage, Resting, Calling, Found
  <2>2. Leaving(u, k) /\ u.timers = {}
    <3>1. Leaving(w, k)
      BY <1>1, FitsEnds
    <3>2. \A t \in Telnet!Sockets : t # u.p.socket => u.conn[t] \in Unused
      BY <1>2, <3>1 DEF Leaving, Unused
    <3> QED
      BY <1>2, <2>1, <3>1, <3>2 DEF Leaving, Talking
  <2> QED
    BY <1>1, <1>3, <1>4, <2>1, <2>2, BackToMenu, Lands
<1>5. CASE proxy.state # "PROXYING"
  <2>1. w.conn[s] = "destroyed"
    BY <1>1, <1>5, OneInUse DEF Talking, Found
  <2>2. Resting(w) => Resting(u)
    BY <1>2 DEF Resting, Unused
  <2>3. Calling(w, k) => Calling(u, k)
    <3> SUFFICES ASSUME Calling(w, k) PROVE Calling(u, k)
      OBVIOUS
    <3>1. s # k /\ k \in Telnet!Sockets
      BY <1>1, <2>1, TelnetNumbers, Fitted DEF Calling
    <3> QED
      BY <1>2, <3>1 DEF Calling, Unused
  <2>4. ~Talking(w, k)
    BY <1>5 DEF Talking, Found
  <2>5. Fits(u, k, over)
    BY <1>1, <1>2, <2>2, <2>3, <2>4 DEF Fits, Stage
  <2> QED
    BY <1>1, <1>3, <1>5, <2>5, Lands
<1> QED
  BY <1>4, <1>5

LEMMA SocketDataKeeps ==
  ASSUME Telnet!ConstantsOK, NEW w, NEW k, Found(w, k),
         NEW s \in Telnet!Sockets, Telnet!SocketData(s)
  PROVE  TelnetInv'
<1>1. Fits(w, k, over) /\ beats' \in 0 .. MaxBeats /\ over' = over
  BY Handled DEF Telnet!SocketData
<1>2. Telnet!Becomes(Telnet!Send(w))
  BY DEF Telnet!SocketData, Found
<1> QED
  BY <1>1, <1>2, SendFits, Lands

LEMMA ConnectTimeoutKeeps ==
  ASSUME Telnet!ConstantsOK, NEW w, NEW k, Found(w, k),
         NEW s \in Telnet!Sockets, Telnet!ConnectTimeout(s)
  PROVE  TelnetInv'
<1>1. /\ Fits(w, k, over) /\ w \in Worlds /\ over \in BOOLEAN
      /\ beats' \in 0 .. MaxBeats /\ over' = over /\ s \in w.timers
  BY Handled DEF Telnet!ConnectTimeout, Found
<1> DEFINE v == [w EXCEPT !.timers = @ \ {s}]
<1>2. /\ v \in Worlds /\ v.p = w.p /\ v.conn = w.conn /\ v.idles = w.idles
      /\ v.timers = w.timers \ {s}
  BY <1>1 DEF Worlds
<1>3. Telnet!Becomes(Telnet!ReturnToMenu(Telnet!Send(v)))
  BY DEF Telnet!ConnectTimeout, Found
<1> HIDE DEF v
<1>4. Leaving(v, k) /\ v.timers = w.timers \ {s}
  <2>1. Leaving(w, k)
    BY <1>1, FitsEnds
  <2> QED
    BY <1>2, <2>1, TimersStop
<1>5. over \/ v.timers = {}
  BY <1>1, <1>4, OneInUse
<1>6. CASE over
  <2>1. over = TRUE
    BY <1>1, <1>6
  <2> QED
    BY <1>1, <1>3, <1>4, <2>1, BackToMenu, Lands
<1>7. CASE ~over
  <2>1. over = FALSE
    BY <1>1, <1>7
  <2> QED
    BY <1>1, <1>3, <1>4, <1>5, <2>1, BackToMenu, Lands
<1> QED
  BY <1>6, <1>7

LEMMA IdleFiresKeeps ==
  ASSUME Telnet!ConstantsOK, NEW w, NEW k, Found(w, k),
         NEW s \in Telnet!Sockets, Telnet!IdleFires(s)
  PROVE  TelnetInv'
<1>1. /\ Fits(w, k, over) /\ w \in Worlds /\ (~over => over = FALSE)
      /\ beats' \in 0 .. MaxBeats /\ over' = over /\ s \in w.idles
  BY Handled DEF Telnet!IdleFires, Found
<1>2. over = FALSE /\ w.timers = {}
  BY <1>1, OneInUse DEF Talking
<1> DEFINE u == [w EXCEPT !.idles = @ \ {s}]
           v == Telnet!ScheduleHeartbeat(u)
           x == Telnet!CloseConnection(v)
<1>3. /\ u \in Worlds /\ u.p = w.p /\ u.conn = w.conn /\ u.timers = w.timers
      /\ u.idles = w.idles \ {s}
  BY <1>1 DEF Worlds
<1>4. Telnet!Becomes(Telnet!ReturnToMenu(x))
  BY DEF Telnet!IdleFires, Telnet!Send, Found
<1> HIDE DEF u
<1>5. Leaving(u, k) /\ u.timers = {}
  <2>1. Leaving(w, k)
    BY <1>1, FitsEnds
  <2> QED
    BY <1>2, <1>3, <2>1, TimersStop
<1>6. Leaving(v, k) /\ v.timers = {}
  <2>1. /\ v \in Worlds /\ v.conn = u.conn /\ v.timers = u.timers /\ v.idles = u.idles
        /\ v.p.socket = u.p.socket /\ v.p.timer = u.p.timer /\ v.p.idle = u.p.idle
    BY <1>5, Scheduled DEF Leaving
  <2> HIDE DEF v
  <2> QED
    BY <1>5, <2>1 DEF Leaving, Made
<1> HIDE DEF v
<1>7. Leaving(x, k) /\ x.timers = {}
  BY <1>6, Closed
<1> HIDE DEF x
<1> QED
  BY <1>1, <1>2, <1>4, <1>7, Returned, Lands

(* Time and the end of the call.                                           *)
LEMMA TickKeeps ==
  ASSUME Telnet!ConstantsOK, NEW w, NEW k, Found(w, k), Telnet!Tick
  PROVE  TelnetInv'
<1>1. /\ Fits(w, k, over) /\ w \in Worlds /\ w.p \in Proxies /\ Made(w, k)
      /\ beats' \in 0 .. MaxBeats /\ over' = over /\ w.p.beat \in 1 .. Heartbeat
  BY Handled DEF Telnet!Tick, Found
<1> DEFINE q == [w.p EXCEPT !.beat = @ - 1]
           v == [w EXCEPT !.p = q]
<1>2. w.p.beat # Telnet!Off /\ w.p.beat - 1 \in 0 .. Telnet!Off
  BY <1>1, TelnetNumbers
<1>3. /\ q \in Proxies /\ q.state = w.p.state /\ q.socket = w.p.socket
      /\ q.timer = w.p.timer /\ q.idle = w.p.idle
  BY <1>1, <1>2 DEF Proxies
<1>4. Telnet!Becomes(v)
  BY <1>1 DEF Telnet!Tick, Telnet!Becomes, Found, Worlds
<1> HIDE DEF q
<1>5. v \in Worlds /\ v.p = q /\ v.conn = w.conn /\ v.timers = w.timers /\ v.idles = w.idles
  BY <1>1, <1>3 DEF Worlds
<1> HIDE DEF v
<1>6. Fits(v, k, over)
  BY <1>1, <1>2, <1>3, <1>5 DEF Fits, Stage, Made, Resting, Calling, Talking
<1> QED
  BY <1>1, <1>4, <1>6, Lands

LEMMA FireHeartbeatKeeps ==
  ASSUME Telnet!ConstantsOK, NEW w, NEW k, Found(w, k), Telnet!FireHeartbeat
  PROVE  TelnetInv'
<1>1. /\ Fits(w, k, over) /\ over' = over /\ w.p.beat = 0 /\ beats < MaxBeats
      /\ beats \in 0 .. MaxBeats
  BY DEF Telnet!FireHeartbeat, Found
<1>2. w.p.state = "MENU"
  BY <1>1, TelnetNumbers DEF Fits
<1>3. Telnet!Becomes(Telnet!ScheduleHeartbeat(w)) /\ beats' = beats + 1
  BY <1>2 DEF Telnet!FireHeartbeat, Found
<1>4. beats' \in 0 .. MaxBeats
  BY <1>1, <1>3, TelnetNumbers
<1>5. Fits(Telnet!ScheduleHeartbeat(w), k, over)
  BY <1>1, SendFits DEF Telnet!Send
<1> QED
  BY <1>1, <1>3, <1>4, <1>5, Lands

LEMMA DisconnectKeeps ==
  ASSUME Telnet!ConstantsOK, NEW w, NEW k, Found(w, k), Telnet!Disconnect
  PROVE  TelnetInv'
<1>1. Fits(w, k, over) /\ beats' \in 0 .. MaxBeats /\ over' = TRUE
  BY DEF Telnet!Disconnect, Found
<1> DEFINE x == Telnet!CloseConnection(w)
           q == [x.p EXCEPT !.state = "CLOSING", !.beat = Telnet!Off]
           v == [x EXCEPT !.p = q]
<1>2. Telnet!Becomes([x EXCEPT !.p.state = "CLOSING", !.p.beat = Telnet!Off])
  BY DEF Telnet!Disconnect, Found
<1>3. Leaving(x, k) /\ Resting(x)
  BY <1>1, FitsEnds, Closed
<1> HIDE DEF x
<1>4. x \in Worlds /\ x.p \in Proxies
  BY <1>3 DEF Leaving, Worlds
<1>5. [x EXCEPT !.p.state = "CLOSING", !.p.beat = Telnet!Off] = v
  BY <1>4 DEF Worlds, Proxies
<1>6. /\ q \in Proxies /\ q.state = "CLOSING" /\ q.beat = Telnet!Off
      /\ q.socket = x.p.socket /\ q.timer = x.p.timer /\ q.idle = x.p.idle
  <2>1. Telnet!Off \in 0 .. Telnet!Off
    BY TelnetNumbers
  <2> QED
    BY <1>4, <2>1 DEF Proxies
<1> HIDE DEF q
<1>7. v \in Worlds /\ v.p = q /\ v.conn = x.conn /\ v.timers = x.timers /\ v.idles = x.idles
  BY <1>4, <1>6 DEF Worlds
<1> HIDE DEF v
<1>8. Fits(v, k, TRUE)
  BY <1>3, <1>6, <1>7 DEF Fits, Stage, Leaving, Made, Resting
<1> QED
  BY <1>1, <1>2, <1>5, <1>8, Lands

LEMMA TelnetStarts ==
  ASSUME Telnet!ConstantsOK, Telnet!Init
  PROVE  TelnetInv
<1> DEFINE w == Telnet!World
<1>1. /\ w.p = proxy /\ w.conn = conn /\ w.timers = {} /\ w.idles = {}
      /\ over = FALSE /\ beats = 0
  BY DEF Telnet!World, Telnet!Init
<1>2. /\ proxy \in Proxies /\ proxy.state = "MENU" /\ proxy.socket = 0
      /\ proxy.timer = 0 /\ proxy.idle = 0
  BY TelnetNumbers DEF Telnet!Init, Proxies
<1>3. /\ conn \in [Telnet!Sockets -> {"new", "connecting", "open", "destroyed",
                                      "ended", "closed"}]
      /\ \A s \in Telnet!Sockets : conn[s] = "new"
  BY DEF Telnet!Init
<1>4. w \in Worlds
  <2>1. {} \in SUBSET Nat
    OBVIOUS
  <2> QED
    BY <1>1, <1>2, <1>3, <2>1 DEF Worlds, Telnet!World
<1> HIDE DEF w
<1>5. Made(w, 0)
  BY <1>1, <1>3, TelnetNumbers DEF Made
<1>6. Resting(w)
  BY <1>1, <1>2, <1>3 DEF Resting, Unused
<1>7. Fits(w, 0, FALSE)
  BY <1>1, <1>2, <1>4, <1>5, <1>6, TelnetNumbers DEF Fits, Stage
<1>8. 0 \in 0 .. Connections /\ beats \in 0 .. MaxBeats
  BY <1>1, TelnetNumbers
<1> QED
  BY <1>1, <1>7, <1>8 DEF TelnetInv, w

LEMMA TelnetRests ==
  ASSUME TelnetInv, UNCHANGED telnetVars
  PROVE  TelnetInv'
BY DEF TelnetInv, telnetVars, Telnet!World, Fits, Stage, Made, Resting, Calling, Talking

LEMMA TelnetKeeps ==
  ASSUME Telnet!ConstantsOK, Telnet!OneLineARead, TelnetInv, Telnet!Next
  PROVE  TelnetInv'
<1>1. PICK w : \E k \in 0 .. Connections : Found(w, k)
  BY Finds
<1>2. PICK k \in 0 .. Connections : Found(w, k)
  BY <1>1
<1> QED
  BY <1>2, ReceiveKeeps, ConnectedKeeps, SocketErrorKeeps, RemoteEndsKeeps,
     SocketCloseKeeps, SocketDataKeeps, ConnectTimeoutKeeps, IdleFiresKeeps,
     TickKeeps, FireHeartbeatKeeps, DisconnectKeeps
  DEF Telnet!Next

LEMMA TelnetIsSafe ==
  ASSUME Telnet!ConstantsOK, TelnetInv
  PROVE  TelnetSafe
<1>14. PICK w : \E k \in 0 .. Connections : Found(w, k)
  BY Finds
<1>1. PICK k \in 0 .. Connections : Found(w, k)
  BY <1>14
<1>2. /\ Fits(w, k, over) /\ w \in Worlds /\ w.p \in Proxies /\ Made(w, k)
      /\ over \in BOOLEAN /\ w.p.timer <= Connections /\ w.p.idle <= Connections
      /\ w.p = proxy /\ w.conn = conn /\ w.timers = timers /\ w.idles = idles
  BY <1>1, Fitted DEF Found
<1>3. Leaving(w, k)
  BY <1>2, FitsEnds
<1>4. k \in Nat /\ (k > 0 => k \in Telnet!Sockets)
  BY TelnetNumbers
<1>5. /\ proxy.timer \in {0} \cup 1 .. Connections
      /\ proxy.idle \in {0} \cup 1 .. Connections
      /\ proxy.socket \in {0} \cup 1 .. Connections
      /\ proxy.buf \in Telnet!Texts \cup {"none"}
      /\ proxy.beat \in 0 .. Telnet!Off
  BY <1>2, <1>3, TelnetNumbers DEF Proxies, Leaving
<1>6. idles \subseteq 1 .. Connections
  <2>1. CASE Talking(w, k)
    BY <1>2, <1>4, <2>1, TelnetNumbers DEF Talking
  <2>2. CASE Resting(w) \/ Calling(w, k)
    BY <1>2, <2>2 DEF Resting, Calling
  <2> QED
    BY <1>2, <2>1, <2>2 DEF Fits, Stage
<1>7. Telnet!TypeOK
  <2>1. proxy \in [state : {"MENU", "CONNECTING", "PROXYING", "CLOSING"},
                   buf : Telnet!Texts \cup {"none"},
                   socket : {0} \cup Telnet!Sockets, timer : {0} \cup Telnet!Sockets,
                   idle : {0} \cup Telnet!Sockets, beat : 0 .. Telnet!Off]
    BY <1>2, <1>5, TelnetNumbers DEF Proxies
  <2>2. timers \subseteq 1 .. Connections
    BY <1>2 DEF Fits
  <2>3. beats \in 0 .. MaxBeats
    BY <1>1 DEF Found
  <2> QED
    BY <1>2, <1>6, <2>1, <2>2, <2>3, TelnetNumbers DEF Telnet!TypeOK, Worlds
<1>8. \A s \in Telnet!Live : ~over /\ s = k /\ w.p.socket = k
  BY <1>2, OneInUse DEF Telnet!Live, Calling, Talking
<1>9. Telnet!OneConnection
  <2>1. Telnet!Live # {} => ~over /\ proxy.socket \in Telnet!Live
    BY <1>2, <1>8
  <2>2. Telnet!Live \subseteq {k}
    BY <1>8
  <2>3. Cardinality({k}) = 1 /\ IsFiniteSet({k})
    BY FS_Singleton
  <2>4. Cardinality(Telnet!Live) <= 1
    BY <2>2, <2>3, FS_Subset
  <2> QED
    BY <2>1, <2>4, Counted DEF Telnet!OneConnection
<1>10. Telnet!ProxyingMeansConnected
  BY <1>2, <1>4, TelnetNumbers
  DEF Fits, Stage, Resting, Calling, Talking, Telnet!ProxyingMeansConnected
<1>11. Telnet!NoStrayTimeout
  BY <1>2 DEF Fits, Stage, Calling, Talking, Telnet!NoStrayTimeout
<1>12. Telnet!IdleOnlyProxying
  BY <1>2 DEF Fits, Stage, Resting, Calling, Talking, Telnet!IdleOnlyProxying
<1>13. Telnet!BeatOnlyInMenu
  BY <1>2 DEF Fits, Telnet!BeatOnlyInMenu
<1> QED
  BY <1>7, <1>9, <1>10, <1>11, <1>12, <1>13 DEF TelnetSafe, Telnet!TelnetSafe

(* Whatever order the caller's keys, the sockets' callbacks and the timers *)
(* of TelnetProxy.js come in, there is one connection at a time and every  *)
(* timer runs in the state it is meant for only, if a read ends one line   *)
(* at most.                                                                *)
THEOREM TelnetSafeAlways ==
  Telnet!ConstantsOK /\ Telnet!OneLineARead => (MCSpec => []TelnetSafe)
<1> SUFFICES ASSUME Telnet!ConstantsOK, Telnet!OneLineARead
             PROVE  MCSpec => []TelnetSafe
  OBVIOUS
<1>1. MCInit => TelnetInv
  BY TelnetStarts DEF MCInit
<1>2. TelnetInv /\ [MCNext]_all => TelnetInv'
  <2> SUFFICES ASSUME TelnetInv, [MCNext]_all PROVE TelnetInv'
    OBVIOUS
  <2>1. CASE TelnetRuns
    BY <2>1, TelnetKeeps DEF TelnetRuns
  <2>2. CASE ControlRuns
    BY <2>2, TelnetRests DEF ControlRuns
  <2>3. CASE UNCHANGED all
    BY <2>3, TelnetRests DEF all
  <2> QED
    BY <2>1, <2>2, <2>3 DEF MCNext
<1>3. TelnetInv => TelnetSafe
  BY TelnetIsSafe
<1> QED
  BY <1>1, <1>2, <1>3, PTL DEF MCSpec

=============================================================================
