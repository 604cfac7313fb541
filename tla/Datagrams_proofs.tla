--------------------------- MODULE Datagrams_proofs ---------------------------
(***************************************************************************)
(* What TLAPS proves of what carries datagrams: of the bridge and the      *)
(* caller's socket, for all addresses and any number of packets; of the    *)
(* playout of a session, for every width of the sequence numbers and every *)
(* depth; of the tunnel, for all channels and sizes and wherever TCP cuts  *)
(* the bytes; of the control channel's framing, for all types and sizes.   *)
(***************************************************************************)
EXTENDS MCDatagrams, FiniteSetTheorems, SequenceTheorems, WellFoundedInduction, TLAPS

-----------------------------------------------------------------------------
(* The bridge has let go of the socket whenever a session has it or the    *)
(* call is over; a bridge that was never started never took hold of it.    *)
Handed ==
  /\ session # "none" => bridge = "stopped"
  /\ session = "closed" <=> extSocket = "closed"

(* Every packet is counted once at most.                                   *)
Counted ==
  /\ stats.extToInt + stats.intToExt <= packets
  /\ stats.extToIntDrops <= stats.extToInt
  /\ stats.intToExtDrops <= stats.intToExt

AtMostOne(S) == S \in {{}, {"bridge"}, {"session"}}

IInv ==
  /\ TypeOK
  /\ Handed
  /\ Counted
  /\ AtMostOne(handled)
  /\ CountersAgree

Stats == [extToInt : Counter, intToExt : Counter,
          extToIntDrops : Counter, intToExtDrops : Counter]

-----------------------------------------------------------------------------
LEMMA OneListens ==
  ASSUME Handed
  PROVE  AtMostOne(Listeners) /\ (session = "closed" => Listeners = {})
BY DEF Handed, AtMostOne, Listeners

LEMMA SmallSets ==
  ASSUME NEW S, AtMostOne(S)
  PROVE  Cardinality(S) <= 1
<1>1. Cardinality({}) = 0
  BY FS_EmptySet
<1>2. Cardinality({"bridge"}) = 1 /\ Cardinality({"session"}) = 1
  BY FS_Singleton
<1> QED
  BY <1>1, <1>2 DEF AtMostOne

(* What a packet to the modem adds to the counters.                        *)
LEMMA CountExt ==
  ASSUME ConstantsOK, TypeOK, Counted, packets < MaxPackets,
         NEW s, s = Count(stats, "extToInt", "extToIntDrops", intPeer)
  PROVE  /\ s \in Stats
         /\ s.extToInt = stats.extToInt + 1
         /\ s.extToIntDrops = IF intPeer = Null THEN stats.extToIntDrops + 1
                              ELSE stats.extToIntDrops
         /\ s.intToExt = stats.intToExt /\ s.intToExtDrops = stats.intToExtDrops
BY DEF ConstantsOK, TypeOK, Counted, Count, Stats, Counter

(* What a packet to the caller adds to them.                               *)
LEMMA CountInt ==
  ASSUME ConstantsOK, TypeOK, Counted, packets < MaxPackets,
         NEW s, s = Count(stats, "intToExt", "intToExtDrops", extPeer)
  PROVE  /\ s \in Stats
         /\ s.intToExt = stats.intToExt + 1
         /\ s.intToExtDrops = IF extPeer = Null THEN stats.intToExtDrops + 1
                              ELSE stats.intToExtDrops
         /\ s.extToInt = stats.extToInt /\ s.extToIntDrops = stats.extToIntDrops
BY DEF ConstantsOK, TypeOK, Counted, Count, Stats, Counter

-----------------------------------------------------------------------------
LEMMA InitIInv ==
  ASSUME ConstantsOK, Init
  PROVE  IInv
<1>1. 0 \in Counter
  BY DEF ConstantsOK, Counter
<1> QED
  BY <1>1 DEF Init, IInv, TypeOK, Handed, Counted, AtMostOne, CountersAgree

LEMMA ExtPacketIInv ==
  ASSUME ConstantsOK, IInv, NEW src \in Callers, ExtPacket(src)
  PROVE  IInv'
<1>0. TypeOK /\ Handed /\ Counted /\ CountersAgree /\ packets < MaxPackets
      /\ Null \notin Modems /\ MaxPackets \in Nat
  BY DEF IInv, ExtPacket, ConstantsOK
<1>1. AtMostOne(Listeners)
  BY <1>0, OneListens
<1>2. /\ packets' = packets + 1 /\ packets' \in Counter
      /\ handled' = Listeners /\ lastExt' = lastExt /\ intPeer' = intPeer
      /\ bridge' = bridge /\ session' = session /\ extSocket' = extSocket
      /\ remote' \in Callers \cup {Null}
  BY <1>0 DEF ExtPacket, TypeOK, Counter, Learned, life
<1>3. CASE "bridge" \in Listeners
  <2>1. /\ stats' = Count(stats, "extToInt", "extToIntDrops", intPeer)
        /\ lastInt' = intPeer /\ extPeer' \in Callers \cup {Null}
    BY <1>0, <1>3 DEF ExtPacket, ForwardExt, TypeOK, Learned
  <2>2. /\ stats' \in Stats
        /\ stats'.extToInt = stats.extToInt + 1
        /\ stats'.extToIntDrops = IF intPeer = Null THEN stats.extToIntDrops + 1
                                  ELSE stats.extToIntDrops
        /\ stats'.intToExt = stats.intToExt
        /\ stats'.intToExtDrops = stats.intToExtDrops
    BY <1>0, <2>1, CountExt
  <2>3. TypeOK'
    BY <1>0, <1>1, <1>2, <2>1, <2>2 DEF TypeOK, Stats, AtMostOne
  <2>4. Counted' /\ CountersAgree'
    BY <1>0, <1>2, <2>1, <2>2 DEF TypeOK, Counter, Counted, CountersAgree
  <2> QED
    BY <1>0, <1>1, <1>2, <2>3, <2>4 DEF IInv, Handed
<1>4. CASE "bridge" \notin Listeners
  <2>1. UNCHANGED <<extPeer, stats, lastInt>>
    BY <1>4 DEF ExtPacket
  <2>2. TypeOK'
    BY <1>0, <1>1, <1>2, <2>1 DEF TypeOK, AtMostOne
  <2>3. Counted' /\ CountersAgree'
    BY <1>0, <1>2, <2>1 DEF TypeOK, Counter, Counted, CountersAgree
  <2> QED
    BY <1>0, <1>1, <1>2, <2>2, <2>3 DEF IInv, Handed
<1> QED
  BY <1>3, <1>4

LEMMA IntPacketIInv ==
  ASSUME ConstantsOK, IInv, NEW src \in Modems, IntPacket(src)
  PROVE  IInv'
<1>0. TypeOK /\ Handed /\ Counted /\ CountersAgree /\ packets < MaxPackets
      /\ Null \notin Callers /\ MaxPackets \in Nat /\ AtMostOne(handled)
  BY DEF IInv, IntPacket, ConstantsOK
<1>1. /\ packets' = packets + 1 /\ packets' \in Counter
      /\ handled' = handled /\ lastInt' = lastInt /\ extPeer' = extPeer
      /\ bridge' = bridge /\ session' = session /\ extSocket' = extSocket
      /\ remote' = remote /\ intPeer' \in Modems \cup {Null}
      /\ stats' = Count(stats, "intToExt", "intToExtDrops", extPeer)
      /\ lastExt' = extPeer
  BY <1>0 DEF IntPacket, TypeOK, Counter, Learned, life
<1>2. /\ stats' \in Stats
      /\ stats'.intToExt = stats.intToExt + 1
      /\ stats'.intToExtDrops = IF extPeer = Null THEN stats.intToExtDrops + 1
                                ELSE stats.intToExtDrops
      /\ stats'.extToInt = stats.extToInt
      /\ stats'.extToIntDrops = stats.extToIntDrops
  BY <1>0, <1>1, CountInt
<1>3. TypeOK'
  BY <1>0, <1>1, <1>2 DEF TypeOK, Stats
<1>4. Counted' /\ CountersAgree'
  BY <1>0, <1>1, <1>2 DEF TypeOK, Counter, Counted, CountersAgree
<1> QED
  BY <1>0, <1>1, <1>3, <1>4 DEF IInv, Handed

LEMMA LifeIInv ==
  ASSUME ConstantsOK, IInv,
         Start \/ Teardown \/ \E peer \in Callers \cup {Null} : SwapToNative(peer)
  PROVE  IInv'
<1>1. /\ packets' = packets /\ stats' = stats /\ lastExt' = lastExt
      /\ lastInt' = lastInt /\ handled' = handled
      /\ extPeer' = extPeer /\ intPeer' = intPeer
  BY DEF Start, Teardown, SwapToNative, traffic, peers
<1>2. /\ bridge' \in {"started", "stopped"}
      /\ session' \in {"none", "adopted", "closed"}
      /\ extSocket' \in {"open", "closed"} /\ remote' \in Callers \cup {Null}
      /\ Handed'
  BY DEF Start, Teardown, SwapToNative, Stop, peers, IInv, TypeOK, Handed
<1>3. TypeOK'
  BY <1>1, <1>2 DEF IInv, TypeOK
<1> QED
  BY <1>1, <1>2, <1>3 DEF IInv, Counted, CountersAgree

LEMMA NextIInv ==
  ASSUME ConstantsOK, IInv, [Next]_vars
  PROVE  IInv'
<1>1. CASE UNCHANGED vars
  BY <1>1 DEF vars, IInv, TypeOK, Handed, Counted, CountersAgree
<1> QED
  BY <1>1, ExtPacketIInv, IntPacketIInv, LifeIInv DEF Next

(* Whatever packets come from wherever, and whenever the call falls back   *)
(* to the native modem or ends: one modem at most hears the caller, what   *)
(* is counted was forwarded, and nothing stays open after the call.        *)
THEOREM BridgeSafeHolds ==
  ASSUME ConstantsOK
  PROVE  Spec => []BridgeSafe
<1>1. Init => IInv
  BY InitIInv
<1>2. IInv /\ [Next]_vars => IInv'
  BY NextIInv
<1>3. IInv => BridgeSafe
  BY OneListens, SmallSets
     DEF IInv, BridgeSafe, OneListener, OverIsClosed, Handed
<1> QED
  BY <1>1, <1>2, <1>3, PTL DEF Spec

-----------------------------------------------------------------------------
(* What is true of loops and sequences.                                    *)

(* Induction over the naturals, in a form that mentions a set instead of a *)
(* predicate.                                                              *)
LEMMA SetInduction ==
  ASSUME NEW S, 0 \in S, \A n \in Nat : n \in S => n + 1 \in S
  PROVE  \A n \in Nat : n \in S
<1> SUFFICES ASSUME NEW n \in Nat, n \notin S PROVE FALSE
  OBVIOUS
<1> DEFINE T == {k \in Nat : k \notin S}
           R == {ss \in Nat \X Nat : ss[1] < ss[2]}
<1>1. IsWellFoundedOn(R, Nat)
  BY NatLessThanWellFounded DEF OpToRel
<1>2. T \subseteq Nat /\ T # {}
  OBVIOUS
<1> HIDE DEF R
<1>3. PICK x \in T : \A y \in T : <<y, x>> \notin R
  BY <1>1, <1>2, WFMin
<1>4. x \in Nat /\ x - 1 \in Nat /\ x - 1 < x
  OBVIOUS
<1>5. <<x - 1, x>> \in R
  BY <1>4 DEF R
<1>6. x - 1 \in S
  BY <1>3, <1>4, <1>5
<1> QED
  BY <1>3, <1>4, <1>6

(* A set of naturals that is not empty has a least element.                *)
LEMMA Least ==
  ASSUME NEW S, S \subseteq Nat, S # {}
  PROVE  \E x \in S : \A y \in S : x <= y
<1> DEFINE R == {ss \in Nat \X Nat : ss[1] < ss[2]}
<1>1. IsWellFoundedOn(R, Nat)
  BY NatLessThanWellFounded DEF OpToRel
<1> HIDE DEF R
<1>2. PICK x \in S : \A y \in S : <<y, x>> \notin R
  BY <1>1, WFMin
<1>3. ASSUME NEW y \in S PROVE x <= y
  <2>1. x \in Nat /\ y \in Nat /\ <<y, x>> \notin R
    BY <1>2
  <2> QED
    BY <2>1 DEF R
<1> QED
  BY <1>3

(* A function may be defined by recursion where every step goes to an      *)
(* argument of lower rank.                                                 *)
Recursive(D, T, rank, Rec, on, stop, step) ==
  /\ rank \in [D -> Nat] /\ Rec \subseteq D /\ on \in [Rec -> D]
  /\ \A d \in Rec : rank[on[d]] < rank[d]
  /\ stop \in [D -> T] /\ step \in [D -> [T -> T]]

Solves(f, D, T, Rec, on, stop, step) ==
  /\ f \in [D -> T]
  /\ \A d \in D : f[d] = IF d \in Rec THEN step[d][f[on[d]]] ELSE stop[d]

LEMMA Recursion ==
  ASSUME NEW D, NEW T, NEW rank, NEW Rec, NEW on, NEW stop, NEW step,
         Recursive(D, T, rank, Rec, on, stop, step)
  PROVE  \E f : Solves(f, D, T, Rec, on, stop, step)
<1> USE DEF Recursive
<1> DEFINE Low(n) == {d \in D : rank[d] <= n}
           At(g, d) == IF d \in Rec THEN step[d][g[on[d]]] ELSE stop[d]
           Good(g, n) == g \in [Low(n) -> T] /\ \A d \in Low(n) : g[d] = At(g, d)
           Agree(d) == \A k, m \in Nat : \A g, h :
                         (/\ Good(g, k) /\ rank[d] <= k
                          /\ Good(h, m) /\ rank[d] <= m) => g[d] = h[d]
           Unique == {n \in Nat : \A d \in D : rank[d] <= n => Agree(d)}
           Exist == {n \in Nat : \E g : Good(g, n)}
<1>1. ASSUME NEW d \in D, \A e \in D : rank[e] < rank[d] => Agree(e)
      PROVE  Agree(d)
  <2> HIDE DEF Good
  <2> SUFFICES ASSUME NEW k \in Nat, NEW m \in Nat, NEW g, NEW h,
                      Good(g, k), rank[d] <= k, Good(h, m), rank[d] <= m
               PROVE  g[d] = h[d]
    OBVIOUS
  <2> USE DEF Good
  <2>1. g[d] = At(g, d) /\ h[d] = At(h, d)
    OBVIOUS
  <2>2. CASE d \in Rec
    <3>1. /\ on[d] \in D /\ rank[on[d]] < rank[d]
          /\ rank[on[d]] <= k /\ rank[on[d]] <= m
      BY <2>2
    <3> HIDE DEF Good
    <3>2. g[on[d]] = h[on[d]]
      BY <1>1, <3>1
    <3> QED
      BY <2>1, <3>2
  <2> QED
    BY <2>1, <2>2
<1>2. \A d \in D : Agree(d)
  <2> HIDE DEF Agree
  <2>1. 0 \in Unique
    BY <1>1
  <2>2. ASSUME NEW n \in Nat, n \in Unique PROVE n + 1 \in Unique
    <3>1. ASSUME NEW d \in D, rank[d] <= n + 1 PROVE Agree(d)
      <4>1. \A e \in D : rank[e] < rank[d] => rank[e] <= n
        BY <3>1
      <4> QED
        BY <1>1, <2>2, <4>1
    <3> QED
      BY <3>1
  <2> HIDE DEF Unique
  <2>3. \A n \in Nat : n \in Unique
    BY <2>1, <2>2, SetInduction
  <2> QED
    BY <2>3 DEF Unique
<1>3. \A n \in Nat : n \in Exist
  <2>1. 0 \in Exist
    <3> DEFINE g == [d \in Low(0) |-> stop[d]]
    <3>1. \A d \in Low(0) : d \notin Rec
      OBVIOUS
    <3>2. Good(g, 0)
      BY <3>1
    <3> HIDE DEF g, Good
    <3> QED
      BY <3>2
  <2>2. ASSUME NEW n \in Nat, n \in Exist PROVE n + 1 \in Exist
    <3>1. PICK g : Good(g, n)
      BY <2>2
    <3> DEFINE h == [d \in Low(n + 1) |-> At(g, d)]
    <3>2. \A d \in Low(n + 1) : d \in Rec => on[d] \in Low(n)
      OBVIOUS
    <3>3. \A d \in Low(n + 1) : At(g, d) \in T
      BY <3>1, <3>2
    <3>4. \A d \in Low(n) : d \in Low(n + 1) /\ h[d] = g[d]
      BY <3>1
    <3>5. \A d \in Low(n + 1) : At(h, d) = At(g, d)
      BY <3>2, <3>4
    <3>6. Good(h, n + 1)
      BY <3>3, <3>5
    <3> HIDE DEF h, Good
    <3> QED
      BY <3>6
  <2> HIDE DEF Exist
  <2> QED
    BY <2>1, <2>2, SetInduction
<1>4. PICK p : \A n \in Nat : Good(p[n], n)
  <2> DEFINE p == [n \in Nat |-> CHOOSE g : Good(g, n)]
  <2> HIDE DEF Good
  <2>1. \A n \in Nat : Good(CHOOSE g : Good(g, n), n)
    BY <1>3
  <2>2. \A n \in Nat : Good(p[n], n)
    BY <2>1
  <2> HIDE DEF p
  <2> QED
    BY <2>2
<1> DEFINE f == [d \in D |-> p[rank[d]][d]]
<1>5. \A d \in D : d \in Low(rank[d])
  OBVIOUS
<1>6. f \in [D -> T]
  <2>1. \A d \in D : p[rank[d]] \in [Low(rank[d]) -> T]
    BY <1>4
  <2>2. \A d \in D : p[rank[d]][d] \in T
    BY <1>5, <2>1
  <2> QED
    BY <2>2
<1>7. ASSUME NEW d \in D PROVE f[d] = At(f, d)
  <2>1. f[d] = At(p[rank[d]], d)
    BY <1>4, <1>5
  <2>2. CASE d \in Rec
    <3>1. /\ on[d] \in D /\ rank[on[d]] \in Nat /\ rank[d] \in Nat
          /\ rank[on[d]] <= rank[d] /\ rank[on[d]] <= rank[on[d]]
      BY <2>2
    <3>2. f[on[d]] = p[rank[on[d]]][on[d]]
      BY <3>1
    <3> HIDE DEF Good
    <3>3. p[rank[d]][on[d]] = p[rank[on[d]]][on[d]]
      BY <1>2, <1>4, <3>1
    <3> HIDE DEF f
    <3> QED
      BY <2>1, <2>2, <3>2, <3>3
  <2> HIDE DEF f
  <2> QED
    BY <2>1, <2>2
<1> HIDE DEF f
<1> QED
  BY <1>6, <1>7 DEF Solves

(* Sequences by way of their tails.                                        *)
LEMMA TailIsShorter ==
  ASSUME NEW S, NEW s \in Seq(S), s # <<>>
  PROVE  /\ Head(s) \in S /\ Tail(s) \in Seq(S)
         /\ Len(s) \in Nat \ {0} /\ Len(Tail(s)) = Len(s) - 1 /\ Len(Tail(s)) \in Nat
BY HeadTailProperties, LenProperties, EmptySeq

LEMMA SeqInduction ==
  ASSUME NEW S, NEW Q, <<>> \in Q,
         \A s \in Seq(S) : s # <<>> /\ Tail(s) \in Q => s \in Q
  PROVE  \A s \in Seq(S) : s \in Q
<1> DEFINE N == {n \in Nat : \A s \in Seq(S) : Len(s) = n => s \in Q}
<1>1. 0 \in N
  <2>1. \A s \in Seq(S) : Len(s) = 0 => s = <<>>
    BY EmptySeq
  <2> QED
    BY <2>1
<1>2. ASSUME NEW n \in Nat, n \in N PROVE n + 1 \in N
  <2>1. ASSUME NEW s \in Seq(S), Len(s) = n + 1 PROVE s \in Q
    <3>1. s # <<>>
      BY <2>1, EmptySeq
    <3>2. Tail(s) \in Seq(S) /\ Len(Tail(s)) = n
      BY <2>1, <3>1, TailIsShorter
    <3>3. Tail(s) \in Q
      BY <1>2, <3>2
    <3> QED
      BY <3>1, <3>3
  <2> QED
    BY <2>1
<1> HIDE DEF N
<1>3. \A n \in Nat : n \in N
  BY <1>1, <1>2, SetInduction
<1> QED
  <2> SUFFICES ASSUME NEW s \in Seq(S) PROVE s \in Q
    OBVIOUS
  <2>1. Len(s) \in Nat /\ Len(s) \in N
    BY <1>3, LenProperties
  <2> QED
    BY <2>1 DEF N

TailSolves(f, S, T, stop, step) ==
  /\ f \in [Seq(S) -> T]
  /\ \A s \in Seq(S) : f[s] = IF s = <<>> THEN stop ELSE step[Head(s)][f[Tail(s)]]

LEMMA TailRecursion ==
  ASSUME NEW S, NEW T, NEW stop \in T, NEW step \in [S -> [T -> T]]
  PROVE  \E f : TailSolves(f, S, T, stop, step)
<1> DEFINE D == Seq(S)
           rank == [s \in D |-> Len(s)]
           Rec == {s \in D : s # <<>>}
           on == [s \in Rec |-> Tail(s)]
           halt == [s \in D |-> stop]
           go == [s \in D |-> IF s = <<>> THEN [t \in T |-> t] ELSE step[Head(s)]]
<1>1. rank \in [D -> Nat] /\ Rec \subseteq D /\ on \in [Rec -> D]
  BY TailIsShorter, LenProperties
<1>2. \A s \in Rec : rank[on[s]] < rank[s]
  BY TailIsShorter
<1>3. halt \in [D -> T] /\ go \in [D -> [T -> T]]
  BY TailIsShorter
<1>4. PICK f \in [D -> T] :
        \A s \in D : f[s] = IF s \in Rec THEN go[s][f[on[s]]] ELSE halt[s]
  <2>1. Recursive(D, T, rank, Rec, on, halt, go)
    <3> HIDE DEF D, rank, Rec, on, halt, go
    <3> QED
      BY <1>1, <1>2, <1>3 DEF Recursive
  <2> HIDE DEF D, rank, Rec, on, halt, go
  <2>2. PICK f : Solves(f, D, T, Rec, on, halt, go)
    BY <2>1, Recursion
  <2> QED
    BY <2>2 DEF Solves
<1> QED
  BY <1>4 DEF TailSolves

(* What is put together of the codes of a sequence's elements.             *)
Joins(join, F, C, code) ==
  /\ code \in [F -> Seq(C)] /\ join \in [Seq(F) -> Seq(C)]
  /\ \A fs \in Seq(F) :
       join[fs] = IF fs = <<>> THEN <<>> ELSE code[Head(fs)] \o join[Tail(fs)]

LEMMA JoinExists ==
  ASSUME NEW F, NEW C, NEW code \in [F -> Seq(C)]
  PROVE  \E join : Joins(join, F, C, code)
<1> DEFINE T == Seq(C)
           step == [f \in F |-> [t \in T |-> code[f] \o t]]
<1>1. <<>> \in T /\ step \in [F -> [T -> T]]
  BY ConcatProperties, EmptySeq
<1>2. PICK join \in [Seq(F) -> T] :
        \A s \in Seq(F) :
          join[s] = IF s = <<>> THEN <<>> ELSE step[Head(s)][join[Tail(s)]]
  <2> DEFINE stop == <<>>
  <2>1. stop \in T /\ step \in [F -> [T -> T]]
    BY <1>1
  <2> HIDE DEF T, step, stop
  <2>2. \E join : TailSolves(join, F, T, stop, step)
    BY <2>1, TailRecursion
  <2> QED
    BY <2>2 DEF stop, TailSolves
<1>3. ASSUME NEW s \in Seq(F), s # <<>>
      PROVE  step[Head(s)][join[Tail(s)]] = code[Head(s)] \o join[Tail(s)]
  BY <1>3, TailIsShorter
<1> QED
  BY <1>2, <1>3 DEF Joins

LEMMA JoinsWhen ==
  ASSUME NEW F, NEW C, NEW code \in [F -> Seq(C)], NEW join, DOMAIN join = Seq(F),
         join = [fs \in DOMAIN join |-> join[fs]],
         \A fs \in Seq(F) :
           join[fs] = IF fs = <<>> THEN <<>> ELSE code[Head(fs)] \o join[Tail(fs)]
  PROVE  Joins(join, F, C, code)
<1> DEFINE Q == {fs \in Seq(F) : join[fs] \in Seq(C)}
<1>1. <<>> \in Q
  BY EmptySeq
<1>2. ASSUME NEW fs \in Seq(F), fs # <<>>, Tail(fs) \in Q PROVE fs \in Q
  <2>1. code[Head(fs)] \in Seq(C) /\ join[Tail(fs)] \in Seq(C)
    BY <1>2, TailIsShorter
  <2>2. code[Head(fs)] \o join[Tail(fs)] \in Seq(C)
    BY <2>1, ConcatProperties
  <2> QED
    BY <1>2, <2>2
<1> HIDE DEF Q
<1>3. \A fs \in Seq(F) : fs \in Q
  BY <1>1, <1>2, SeqInduction
<1>4. join \in [Seq(F) -> Seq(C)]
  BY <1>3 DEF Q
<1> QED
  BY <1>4 DEF Joins

(* A join of no elements, of one more in front, and of one after another.  *)
Extends(join, F, code) ==
  /\ join[<<>>] = <<>>
  /\ \A f \in F, fs \in Seq(F) :
       <<f>> \o fs \in Seq(F) /\ join[<<f>> \o fs] = code[f] \o join[fs]

Splits(join, F) == \A fs, gs \in Seq(F) : join[fs \o gs] = join[fs] \o join[gs]

LEMMA JoinOfOne ==
  ASSUME NEW F, NEW C, NEW code, NEW join, Joins(join, F, C, code)
  PROVE  Extends(join, F, code)
<1>0. SUFFICES ASSUME NEW f \in F, NEW fs \in Seq(F)
               PROVE  /\ join[<<>>] = <<>>
                      /\ <<f>> \o fs \in Seq(F) /\ join[<<f>> \o fs] = code[f] \o join[fs]
  <2>1. <<>> \in Seq(F) /\ join[<<>>] = <<>>
    BY EmptySeq DEF Joins
  <2> QED
    BY <2>1 DEF Extends
<1>1. <<>> \in Seq(F) /\ join[<<>>] = <<>>
  BY EmptySeq DEF Joins
<1>2. <<f>> \o fs \in Seq(F) /\ <<f>> \o fs # <<>>
  BY ConcatProperties, EmptySeq
<1>3. Head(<<f>> \o fs) = f /\ Tail(<<f>> \o fs) = fs
  OBVIOUS
<1> QED
  BY <1>1, <1>2, <1>3 DEF Joins

LEMMA JoinOfTwo ==
  ASSUME NEW F, NEW C, NEW code, NEW join, Joins(join, F, C, code)
  PROVE  Splits(join, F)
<1> SUFFICES ASSUME NEW fs \in Seq(F), NEW gs \in Seq(F)
             PROVE  join[fs \o gs] = join[fs] \o join[gs]
  BY DEF Splits
<1> DEFINE Q == {s \in Seq(F) : join[s \o gs] = join[s] \o join[gs]}
<1>0. \A s \in Seq(F) : join[s] \in Seq(C)
  BY DEF Joins
<1>1. <<>> \in Q
  <2>1. <<>> \in Seq(F) /\ <<>> \o gs = gs
    BY EmptySeq, ConcatEmptySeq
  <2>2. join[<<>>] = <<>>
    BY <2>1 DEF Joins
  <2>3. <<>> \o join[gs] = join[gs]
    BY <1>0, ConcatEmptySeq
  <2> QED
    BY <2>1, <2>2, <2>3
<1>2. ASSUME NEW s \in Seq(F), s # <<>>, Tail(s) \in Q PROVE s \in Q
  <2>1. Head(s) \in F /\ Tail(s) \in Seq(F)
    BY <1>2, TailIsShorter
  <2>2. s \o gs \in Seq(F) /\ s \o gs # <<>>
        /\ Head(s \o gs) = Head(s) /\ Tail(s \o gs) = Tail(s) \o gs
    <3>1. s \o gs \in Seq(F)
      BY ConcatProperties
    <3>2. Len(s) >= 1 /\ Len(s \o gs) = Len(s) + Len(gs) /\ Len(s) \in Nat /\ Len(gs) \in Nat
      BY <1>2, ConcatProperties, LenProperties, EmptySeq
    <3>3. s \o gs # <<>>
      BY <3>1, <3>2, EmptySeq
    <3>4. (s \o gs)[1] = s[1]
      BY <3>2, ConcatProperties
    <3>5. Head(s \o gs) = Head(s)
      BY <1>2, <3>1, <3>3, <3>4
    <3>6. Tail(s \o gs) = Tail(s) \o gs
      <4>1. /\ Tail(s \o gs) \in Seq(F) /\ Len(Tail(s \o gs)) = Len(s) + Len(gs) - 1
            /\ \A i \in 1 .. Len(s) + Len(gs) - 1 : Tail(s \o gs)[i] = (s \o gs)[i + 1]
        BY <3>1, <3>2, <3>3, HeadTailProperties
      <4>2. /\ Tail(s) \in Seq(F) /\ Len(Tail(s)) = Len(s) - 1
            /\ \A i \in 1 .. Len(s) - 1 : Tail(s)[i] = s[i + 1]
        BY <1>2, HeadTailProperties
      <4>3. /\ Tail(s) \o gs \in Seq(F) /\ Len(Tail(s) \o gs) = Len(s) - 1 + Len(gs)
            /\ \A i \in 1 .. Len(s) - 1 + Len(gs) :
                 (Tail(s) \o gs)[i] = IF i <= Len(s) - 1 THEN Tail(s)[i]
                                      ELSE gs[i - (Len(s) - 1)]
        BY <4>2, ConcatProperties
      <4>4. \A i \in 1 .. Len(s) + Len(gs) :
              (s \o gs)[i] = IF i <= Len(s) THEN s[i] ELSE gs[i - Len(s)]
        BY ConcatProperties
      <4>5. \A i \in 1 .. Len(s) + Len(gs) - 1 : Tail(s \o gs)[i] = (Tail(s) \o gs)[i]
        <5> TAKE i \in 1 .. Len(s) + Len(gs) - 1
        <5>1. i + 1 \in 1 .. Len(s) + Len(gs) /\ i \in 1 .. Len(s) - 1 + Len(gs)
              /\ (i + 1 <= Len(s) <=> i <= Len(s) - 1)
              /\ i + 1 - Len(s) = i - (Len(s) - 1)
          BY <3>2
        <5>2. i <= Len(s) - 1 => Tail(s)[i] = s[i + 1]
          BY <3>2, <4>2
        <5> QED
          BY <4>1, <4>3, <4>4, <5>1, <5>2
      <4>6. Len(Tail(s \o gs)) = Len(Tail(s) \o gs)
        BY <3>2, <4>1, <4>3
      <4> QED
        BY <4>1, <4>3, <4>5, <4>6, SeqEqual
    <3> QED
      BY <3>1, <3>3, <3>5, <3>6
  <2>3. join[s \o gs] = code[Head(s)] \o join[Tail(s) \o gs]
    BY <2>2 DEF Joins
  <2>4. join[Tail(s) \o gs] = join[Tail(s)] \o join[gs]
    BY <1>2
  <2>5. join[s] = code[Head(s)] \o join[Tail(s)]
    BY <1>2 DEF Joins
  <2> DEFINE x == code[Head(s)]
             y == join[Tail(s)]
             z == join[gs]
  <2>6. x \in Seq(C) /\ y \in Seq(C) /\ z \in Seq(C)
    BY <1>0, <2>1 DEF Joins
  <2> HIDE DEF x, y, z
  <2>7. (x \o y) \o z = x \o (y \o z)
    BY <2>6, ConcatAssociative, SMTT(30)
  <2> USE DEF x, y, z
  <2> QED
    BY <2>3, <2>4, <2>5, <2>7
<1> HIDE DEF Q
<1>3. fs \in Q
  BY <1>1, <1>2, SeqInduction
<1> QED
  BY <1>3 DEF Q

(* A sequence in two parts.                                                *)
LEMMA CutInTwo ==
  ASSUME NEW S, NEW s \in Seq(S), NEW k \in 0 .. Len(s)
  PROVE  /\ SubSeq(s, 1, k) \in Seq(S) /\ Len(SubSeq(s, 1, k)) = k
         /\ SubSeq(s, k + 1, Len(s)) \in Seq(S)
         /\ Len(SubSeq(s, k + 1, Len(s))) = Len(s) - k
         /\ SubSeq(s, 1, k) \o SubSeq(s, k + 1, Len(s)) = s
<1>1. Len(s) \in Nat /\ \A i \in 1 .. Len(s) : s[i] \in S
  BY LenProperties, ElementOfSeq
<1>2. /\ \A i \in 1 .. k : s[i] \in S
      /\ \A i \in k + 1 .. Len(s) : s[i] \in S
  BY <1>1
<1>3. /\ SubSeq(s, 1, k) \in Seq(S) /\ Len(SubSeq(s, 1, k)) = k
      /\ SubSeq(s, k + 1, Len(s)) \in Seq(S)
      /\ Len(SubSeq(s, k + 1, Len(s))) = Len(s) - k
  BY <1>1, <1>2, SubSeqProperties
<1>4. SubSeq(s, 1, k) \o SubSeq(s, k + 1, Len(s)) = SubSeq(s, 1, Len(s))
  <2>1. 1 \in 1 .. Len(s) + 1 /\ k \in 1 - 1 .. Len(s) /\ Len(s) \in k .. Len(s)
    BY <1>1
  <2> QED
    BY <2>1, ConcatAdjacentSubSeq
<1> QED
  BY <1>3, <1>4, SubSeqFull

(* The front of two parts put together is the first of them.               *)
LEMMA FrontOfTwo ==
  ASSUME NEW S, NEW s \in Seq(S), NEW t \in Seq(S)
  PROVE  /\ SubSeq(s \o t, 1, Len(s)) = s
         /\ SubSeq(s \o t, Len(s) + 1, Len(s \o t)) = t
<1> DEFINE u == s \o t
<1>1. /\ u \in Seq(S) /\ Len(u) = Len(s) + Len(t) /\ Len(s) \in Nat /\ Len(t) \in Nat
      /\ \A i \in 1 .. Len(s) + Len(t) :
           u[i] = IF i <= Len(s) THEN s[i] ELSE t[i - Len(s)]
  BY ConcatProperties, LenProperties
<1> HIDE DEF u
<1>2. \A i \in 1 .. Len(u) : u[i] \in S
  BY <1>1, ElementOfSeq
<1>3. /\ SubSeq(u, 1, Len(s)) \in Seq(S) /\ Len(SubSeq(u, 1, Len(s))) = Len(s)
      /\ \A i \in 1 .. Len(s) : SubSeq(u, 1, Len(s))[i] = u[i]
  <2>1. \A i \in 1 .. Len(s) : u[i] \in S
    BY <1>1, <1>2
  <2> QED
    BY <1>1, <2>1, SubSeqProperties
<1>4. /\ SubSeq(u, Len(s) + 1, Len(u)) \in Seq(S)
      /\ Len(SubSeq(u, Len(s) + 1, Len(u))) = Len(t)
      /\ \A i \in 1 .. Len(t) : SubSeq(u, Len(s) + 1, Len(u))[i] = u[Len(s) + i]
  <2>1. \A i \in Len(s) + 1 .. Len(u) : u[i] \in S
    BY <1>1, <1>2
  <2>2. /\ SubSeq(u, Len(s) + 1, Len(u)) \in Seq(S)
        /\ Len(SubSeq(u, Len(s) + 1, Len(u)))
             = IF Len(s) + 1 <= Len(u) THEN Len(u) - (Len(s) + 1) + 1 ELSE 0
        /\ \A i \in 1 .. Len(u) - (Len(s) + 1) + 1 :
             SubSeq(u, Len(s) + 1, Len(u))[i] = u[Len(s) + 1 + i - 1]
    BY <1>1, <2>1, SubSeqProperties
  <2>3. /\ Len(u) - (Len(s) + 1) + 1 = Len(t)
        /\ \A i \in 1 .. Len(t) : Len(s) + 1 + i - 1 = Len(s) + i
    BY <1>1
  <2> QED
    BY <1>1, <2>2, <2>3
<1>5. \A i \in 1 .. Len(s) : SubSeq(u, 1, Len(s))[i] = s[i]
  <2> TAKE i \in 1 .. Len(s)
  <2>1. i \in 1 .. Len(s) + Len(t) /\ i <= Len(s)
    BY <1>1
  <2> QED
    BY <1>1, <1>3, <2>1
<1>6. \A i \in 1 .. Len(t) : SubSeq(u, Len(s) + 1, Len(u))[i] = t[i]
  <2> TAKE i \in 1 .. Len(t)
  <2>1. Len(s) + i \in 1 .. Len(s) + Len(t) /\ ~(Len(s) + i <= Len(s))
        /\ Len(s) + i - Len(s) = i
    BY <1>1
  <2> QED
    BY <1>1, <1>4, <2>1
<1>7. SubSeq(u, 1, Len(s)) = s
  BY <1>3, <1>5, SeqEqual
<1>8. SubSeq(u, Len(s) + 1, Len(u)) = t
  BY <1>4, <1>6, SeqEqual
<1> QED
  BY <1>7, <1>8 DEF u

(* Two ways to put the same sequence together of two parts.                *)
Overlap(s, t, e, c) ==
  /\ \A i \in 1 .. Len(s) : i <= Len(e) => s[i] = e[i]
  /\ Len(s) >= Len(e) =>
       /\ SubSeq(s, 1, Len(e)) = e
       /\ SubSeq(s, Len(e) + 1, Len(s)) \o t = c

LEMMA SamePrefix ==
  ASSUME NEW S, NEW s \in Seq(S), NEW t \in Seq(S), NEW e \in Seq(S), NEW c \in Seq(S),
         s \o t = e \o c
  PROVE  Overlap(s, t, e, c)
<1>1. /\ Len(s) \in Nat /\ Len(t) \in Nat /\ Len(e) \in Nat /\ Len(c) \in Nat
      /\ \A i \in 1 .. Len(s) : i \in 1 .. Len(s) + Len(t)
      /\ \A i \in 1 .. Len(e) : i \in 1 .. Len(e) + Len(c)
  BY LenProperties
<1>2. \A i \in 1 .. Len(s) : (s \o t)[i] = s[i]
  BY <1>1, ConcatProperties
<1>3. \A i \in 1 .. Len(e) : (e \o c)[i] = e[i]
  BY <1>1, ConcatProperties
<1>4. \A i \in 1 .. Len(s) : i <= Len(e) => s[i] = e[i]
  BY <1>1, <1>2, <1>3
<1>5. ASSUME Len(s) >= Len(e)
      PROVE  SubSeq(s, 1, Len(e)) = e /\ SubSeq(s, Len(e) + 1, Len(s)) \o t = c
  <2> DEFINE a == SubSeq(s, 1, Len(e))
             b == SubSeq(s, Len(e) + 1, Len(s))
  <2>1. Len(e) \in 0 .. Len(s)
    BY <1>1, <1>5
  <2>2. /\ a \in Seq(S) /\ Len(a) = Len(e) /\ b \in Seq(S)
        /\ a \o b = s
    BY <2>1, CutInTwo
  <2>3. \A i \in 1 .. Len(e) : a[i] = s[i]
    <3> HIDE DEF b
    <3>1. \A i \in 1 .. Len(a) : (a \o b)[i] = a[i]
      <4> HIDE DEF a
      <4>1. Len(a) \in Nat /\ Len(b) \in Nat
        BY <2>2, LenProperties
      <4> QED
        BY <2>2, <4>1, ConcatProperties
    <3> QED
      BY <2>2, <3>1
  <2> HIDE DEF a, b
  <2>4. a = e
    <3>1. \A i \in 1 .. Len(e) : a[i] = e[i]
      BY <1>1, <1>4, <1>5, <2>3
    <3> QED
      BY <2>2, <3>1, SeqEqual
  <2>5. e \o (b \o t) = e \o c
    <3>1. e \o b = s
      BY <2>2, <2>4
    <3>2. e \in Seq(S) /\ b \in Seq(S) /\ t \in Seq(S)
      BY <2>2
    <3>3. (e \o b) \o t = e \o (b \o t)
      BY <3>2, ConcatAssociative, SMTT(30)
    <3> QED
      BY <3>1, <3>3
  <2> DEFINE x == b \o t
  <2>6. x \in Seq(S)
    BY <2>2, ConcatProperties
  <2> HIDE DEF x
  <2>7. SubSeq(e \o x, Len(e) + 1, Len(e \o x)) = x
    BY <2>6, FrontOfTwo
  <2>8. SubSeq(e \o c, Len(e) + 1, Len(e \o c)) = c
    BY FrontOfTwo
  <2>9. x = c
    BY <2>5, <2>7, <2>8 DEF x
  <2> QED
    BY <2>4, <2>9 DEF a, b, x
<1> QED
  BY <1>4, <1>5 DEF Overlap

-----------------------------------------------------------------------------
(* The playout.  First, numbers that wrap.                                 *)

(* Division with remainder.                                                *)
LEMMA Remainder ==
  ASSUME NEW w \in Nat \ {0}, NEW a \in Int
  PROVE /\ a % w \in 0 .. w - 1
        /\ \E q \in Int : a = w * q + (a % w)
<1>1. a % w \in 0 .. w - 1
  OBVIOUS
<1>2. a = w * (a \div w) + (a % w)
  OBVIOUS
<1>3. a \div w \in Int
  OBVIOUS
<1> QED
  BY <1>1, <1>2, <1>3

(* Two remainders less than a divisor apart that leave the same number are *)
(* the same.                                                               *)
LEMMA OneQuotient ==
  ASSUME NEW w \in Nat \ {0},
         NEW p \in Int, NEW q \in Int, NEW r \in Int, NEW s \in Int,
         w * p + r = w * q + s, r - s < w, s - r < w
  PROVE  r = s
<1>1. p = q
  OBVIOUS
<1> QED
  BY <1>1

(* The remainder is the only number in its range that division can leave.  *)
LEMMA Modulo ==
  ASSUME NEW w \in Nat \ {0}, NEW q \in Int, NEW r \in 0 .. w - 1,
         NEW a \in Int, a = w * q + r
  PROVE  a % w = r
<1>1. PICK p \in Int : a = w * p + (a % w)
  BY Remainder
<1>2. a % w \in 0 .. w - 1
  BY Remainder
<1> QED
  BY <1>1, <1>2, OneQuotient

(* What the proofs use of the constants.                                   *)
LEMMA Parameters ==
  ASSUME Playout!ConstantsOK
  PROVE  /\ Width \in Nat \ {0} /\ Packets \in Nat /\ First \in 0 .. Width - 1
         /\ Width \div 2 \in Nat /\ Width = 2 * (Width \div 2)
         /\ Packets < Width \div 2 /\ MaxGap \in Nat /\ MaxDepth \in Nat /\ MaxDepth >= 1
         /\ MissSkip \in Nat /\ MissSkip >= 1 /\ InitDepth \in Nat /\ InitDepth >= 1
BY DEF Playout!ConstantsOK

(* A packet has a number, wraps apart.                                     *)
LEMMA Numbers ==
  ASSUME Playout!ConstantsOK, NEW n \in Nat
  PROVE  /\ Playout!Seq16(n) \in 0 .. Width - 1
         /\ \E q \in Int : First + n = Width * q + Playout!Seq16(n)
<1>1. Width \in Nat \ {0} /\ First + n \in Int
  BY Parameters
<1> QED
  BY <1>1, Remainder DEF Playout!Seq16

(* Counting on from a number is counting packets, across a wrap too.       *)
LEMMA Onward ==
  ASSUME Playout!ConstantsOK, NEW m \in Nat, NEW d \in Nat
  PROVE  (Playout!Seq16(m) + d) % Width = Playout!Seq16(m + d)
<1>0. Width \in Nat \ {0} /\ First \in Nat
  BY Parameters
<1>1. PICK q \in Int : First + m = Width * q + Playout!Seq16(m)
  BY Numbers
<1>2. m + d \in Nat /\ Playout!Seq16(m) \in Int
  BY Numbers, <1>0
<1>3. PICK p \in Int : First + (m + d) = Width * p + Playout!Seq16(m + d)
  BY <1>2, Numbers
<1>4. Playout!Seq16(m + d) \in 0 .. Width - 1
  BY <1>2, Numbers
<1>5. Width * (p - q) = Width * p - Width * q
  BY <1>0
<1>6. Playout!Seq16(m) + d = Width * (p - q) + Playout!Seq16(m + d)
  BY <1>0, <1>1, <1>2, <1>3, <1>4, <1>5
<1>7. p - q \in Int /\ Playout!Seq16(m) + d \in Int
  BY <1>2
<1> DEFINE a == Playout!Seq16(m) + d
           k == p - q
           r == Playout!Seq16(m + d)
<1>8. a \in Int /\ k \in Int /\ r \in 0 .. Width - 1 /\ a = Width * k + r
  BY <1>4, <1>6, <1>7
<1> HIDE DEF a, k, r
<1>9. a % Width = r
  BY <1>0, <1>8, Modulo
<1> QED
  BY <1>9 DEF a, r

(* The signed distance of two numbers is that of the packets, if there are *)
(* fewer of them than half the numbers.                                    *)
LEMMA Apart ==
  ASSUME Playout!ConstantsOK, NEW n \in 0 .. Packets, NEW m \in 0 .. Packets
  PROVE  Playout!Distance(Playout!Seq16(n), Playout!Seq16(m)) = n - m
<1>0. /\ Width \in Nat \ {0} /\ First \in Nat /\ Packets \in Nat
      /\ Width \div 2 \in Nat /\ Width = 2 * (Width \div 2) /\ Packets < Width \div 2
      /\ n \in Nat /\ m \in Nat
  BY Parameters
<1>00. Width \in Nat \ {0}
  BY <1>0
<1>1. PICK q \in Int : First + n = Width * q + Playout!Seq16(n)
  BY <1>0, Numbers
<1>2. PICK p \in Int : First + m = Width * p + Playout!Seq16(m)
  BY <1>0, Numbers
<1>3. Playout!Seq16(n) \in Int /\ Playout!Seq16(m) \in Int
  BY <1>0, Numbers
<1>4. Width * (p - q) = Width * p - Width * q
      /\ Width * (p - q - 1) = Width * p - Width * q - Width
  BY <1>0
<1>5. Playout!Seq16(n) - Playout!Seq16(m) = Width * (p - q) + (n - m)
  BY <1>0, <1>1, <1>2, <1>3, <1>4
<1>6. Playout!Seq16(n) - Playout!Seq16(m) = Width * (p - q - 1) + (n - m + Width)
  BY <1>0, <1>3, <1>4, <1>5
<1>9. p - q \in Int /\ p - q - 1 \in Int /\ Playout!Seq16(n) - Playout!Seq16(m) \in Int
  BY <1>3
<1>7. CASE n >= m
  <2>0. n - m \in 0 .. Width - 1
    BY <1>0, <1>7
  <2>1. (Playout!Seq16(n) - Playout!Seq16(m)) % Width = n - m
    <3> DEFINE a == Playout!Seq16(n) - Playout!Seq16(m)
               k == p - q
               r == n - m
    <3>1. a \in Int /\ k \in Int /\ r \in 0 .. Width - 1 /\ a = Width * k + r
      BY <1>5, <1>9, <2>0
    <3> HIDE DEF a, k, r
    <3>2. a % Width = r
      BY <1>00, <3>1, Modulo
    <3> QED
      BY <3>2 DEF a, r
  <2> QED
    BY <1>0, <1>7, <2>1 DEF Playout!Distance
<1>8. CASE n < m
  <2>0. n - m + Width \in 0 .. Width - 1
    BY <1>0, <1>8
  <2>1. (Playout!Seq16(n) - Playout!Seq16(m)) % Width = n - m + Width
    <3> DEFINE a == Playout!Seq16(n) - Playout!Seq16(m)
               k == p - q - 1
               r == n - m + Width
    <3>1. a \in Int /\ k \in Int /\ r \in 0 .. Width - 1 /\ a = Width * k + r
      BY <1>6, <1>9, <2>0
    <3> HIDE DEF a, k, r
    <3>2. a % Width = r
      BY <1>00, <3>1, Modulo
    <3> QED
      BY <3>2 DEF a, r
  <2> QED
    BY <1>0, <1>8, <2>1 DEF Playout!Distance
<1> QED
  BY <1>0, <1>7, <1>8

(* So no two packets have the same number.                                 *)
LEMMA OneNumber ==
  ASSUME Playout!ConstantsOK, NEW n \in 0 .. Packets, NEW m \in 0 .. Packets,
         Playout!Seq16(n) = Playout!Seq16(m)
  PROVE  n = m
<1>1. /\ Playout!Distance(Playout!Seq16(n), Playout!Seq16(m)) = n - m
      /\ Playout!Distance(Playout!Seq16(m), Playout!Seq16(m)) = m - m
  BY Apart
<1> QED
  BY <1>1, Parameters

-----------------------------------------------------------------------------
(* The buffer: sequences of packets no two of which have the same number.  *)
Elements(b) == {b[i] : i \in DOMAIN b}
Distinct(b) == \A i, j \in DOMAIN b : Playout!Seq16(b[i]) = Playout!Seq16(b[j]) => i = j
Numbered == 0 .. Packets - 1
Buffer(b) == b \in Seq(Numbered) /\ Distinct(b)

(* Map.delete() removes the packets of that number and no others.          *)
LEMMA WithoutOne ==
  ASSUME NEW b, Buffer(b), NEW seq, NEW c, c = Playout!Without(b, seq)
  PROVE  /\ Buffer(c) /\ Len(c) <= Len(b)
         /\ Elements(c) = {n \in Elements(b) : Playout!Seq16(n) # seq}
<1> DEFINE at == {i \in DOMAIN b : Playout!Seq16(b[i]) = seq}
<1>0. b \in Seq(Numbered) /\ DOMAIN b = 1 .. Len(b) /\ Len(b) \in Nat
  BY DEF Buffer
<1>1. CASE at = {}
  <2>1. c = b
    BY <1>1 DEF Playout!Without
  <2> QED
    BY <1>1, <2>1, <1>0 DEF Elements
<1>2. CASE at # {}
  <2> DEFINE i == CHOOSE i \in at : TRUE
  <2>1. c = SubSeq(b, 1, i - 1) \o SubSeq(b, i + 1, Len(b))
    BY <1>2 DEF Playout!Without
  <2>2. i \in 1 .. Len(b) /\ Playout!Seq16(b[i]) = seq
    BY <1>0, <1>2
  <2> HIDE DEF i
  <2>3. \A j \in 1 .. Len(b) : Playout!Seq16(b[j]) = seq => j = i
    BY <1>0, <2>2 DEF Buffer, Distinct
  <2>4. /\ c \in Seq(Numbered) /\ Len(c) = Len(b) - 1
        /\ \A j \in 1 .. Len(b) - 1 : c[j] = IF j < i THEN b[j] ELSE b[j + 1]
    <3> DEFINE x == SubSeq(b, 1, i - 1)
               y == SubSeq(b, i + 1, Len(b))
    <3>1. /\ x \in Seq(Numbered) /\ Len(x) = i - 1
          /\ \A j \in 1 .. i - 1 : x[j] = b[j]
      <4>1. 1 \in 1 .. Len(b) + 1 /\ i - 1 \in 0 .. Len(b)
            /\ \A j \in 1 .. i - 1 : j \in 1 .. Len(b)
        BY <1>0, <2>2
      <4> QED
        BY <1>0, <4>1, SubSeqProperties
    <3>2. /\ y \in Seq(Numbered) /\ Len(y) = Len(b) - i
          /\ \A j \in 1 .. Len(b) - i : y[j] = b[i + j]
      <4>1. i + 1 \in 1 .. Len(b) + 1 /\ Len(b) \in (i + 1) - 1 .. Len(b)
            /\ \A j \in i + 1 .. Len(b) : j \in 1 .. Len(b)
        BY <1>0, <2>2
      <4>2. /\ y \in Seq(Numbered)
            /\ Len(y) = IF i + 1 <= Len(b) THEN Len(b) - (i + 1) + 1 ELSE 0
            /\ \A j \in 1 .. Len(b) - (i + 1) + 1 : y[j] = b[(i + 1) + j - 1]
        BY <1>0, <4>1, SubSeqProperties
      <4> HIDE DEF y
      <4>5. Len(y) = IF i + 1 <= Len(b) THEN Len(b) - (i + 1) + 1 ELSE 0
        BY <4>2
      <4>6. i \in Int /\ i <= Len(b) /\ Len(b) \in Int
        BY <1>0, <2>2
      <4>3. Len(y) = Len(b) - i
        BY <4>5, <4>6
      <4>4. ASSUME NEW j \in 1 .. Len(b) - i PROVE y[j] = b[i + j]
        <5>1. j \in 1 .. Len(b) - (i + 1) + 1 /\ (i + 1) + j - 1 = i + j
          BY <1>0, <2>2
        <5> QED
          BY <4>2, <5>1
      <4> QED
        BY <4>2, <4>3, <4>4
    <3> HIDE DEF x, y
    <3>3. c = x \o y
      BY <2>1 DEF x, y
    <3>4. /\ c \in Seq(Numbered) /\ Len(c) = Len(x) + Len(y)
          /\ \A j \in 1 .. Len(x) + Len(y) :
               c[j] = IF j <= Len(x) THEN x[j] ELSE y[j - Len(x)]
      BY <3>1, <3>2, <3>3, ConcatProperties
    <3>5. ASSUME NEW j \in 1 .. Len(b) - 1
          PROVE  c[j] = IF j < i THEN b[j] ELSE b[j + 1]
      <4>0. Len(x) = i - 1 /\ j \in 1 .. Len(x) + Len(y)
        BY <1>0, <2>2, <3>1, <3>2
      <4>3. c[j] = IF j <= i - 1 THEN x[j] ELSE y[j - (i - 1)]
        BY <3>4, <4>0
      <4>1. CASE j < i
        <5>1. j <= i - 1 /\ j \in 1 .. i - 1
          BY <2>2, <1>0, <4>1
        <5> QED
          BY <3>1, <4>1, <4>3, <5>1
      <4>2. CASE ~(j < i)
        <5>1. j - (i - 1) \in 1 .. Len(b) - i /\ i + (j - (i - 1)) = j + 1
              /\ ~(j <= i - 1)
          BY <1>0, <2>2, <4>2
        <5> QED
          BY <3>2, <4>2, <4>3, <5>1
      <4> QED
        BY <4>1, <4>2
    <3>6. Len(x) + Len(y) = Len(b) - 1
      BY <1>0, <2>2, <3>1, <3>2
    <3> QED
      BY <3>4, <3>5, <3>6
  <2>5. DOMAIN c = 1 .. Len(b) - 1
    BY <1>0, <2>4
  <2>6. Distinct(c)
    <3> SUFFICES ASSUME NEW j \in 1 .. Len(b) - 1, NEW k \in 1 .. Len(b) - 1,
                        Playout!Seq16(c[j]) = Playout!Seq16(c[k])
                 PROVE  j = k
      BY <2>5 DEF Distinct
    <3> DEFINE up(x) == IF x < i THEN x ELSE x + 1
    <3>1. up(j) \in DOMAIN b /\ up(k) \in DOMAIN b
          /\ c[j] = b[up(j)] /\ c[k] = b[up(k)]
      BY <1>0, <2>2, <2>4
    <3>2. up(j) = up(k)
      BY <3>1 DEF Buffer, Distinct
    <3> QED
      BY <3>2, <2>2
  <2>7. ASSUME NEW n \in Elements(c) PROVE n \in Elements(b) /\ Playout!Seq16(n) # seq
    <3>1. PICK j \in 1 .. Len(b) - 1 : n = c[j]
      BY <2>5 DEF Elements
    <3>2. PICK k \in 1 .. Len(b) : n = b[k] /\ k # i
      BY <1>0, <2>2, <2>4, <3>1
    <3> QED
      BY <1>0, <2>3, <3>2 DEF Elements
  <2>8. ASSUME NEW n \in Elements(b), Playout!Seq16(n) # seq PROVE n \in Elements(c)
    <3>1. PICK k \in 1 .. Len(b) : n = b[k]
      BY <1>0 DEF Elements
    <3>2. k # i
      BY <2>2, <2>8, <3>1
    <3>3. \E j \in 1 .. Len(b) - 1 : c[j] = b[k]
      <4>1. CASE k < i
        BY <1>0, <2>2, <2>4, <4>1
      <4>2. CASE k > i
        <5>1. k - 1 \in 1 .. Len(b) - 1 /\ ~(k - 1 < i) /\ (k - 1) + 1 = k
          BY <1>0, <2>2, <4>2
        <5> QED
          BY <2>4, <5>1
      <4> QED
        BY <2>2, <3>2, <4>1, <4>2
    <3> QED
      BY <2>5, <3>1, <3>3 DEF Elements
  <2> QED
    BY <1>0, <2>4, <2>6, <2>7, <2>8 DEF Buffer
<1> QED
  BY <1>1, <1>2

(* Map.set() puts a packet in the place of the one with its number.        *)
LEMMA Inserted ==
  ASSUME NEW b, Buffer(b), NEW n \in Numbered, NEW c, c = Playout!Insert(b, n)
  PROVE  /\ Buffer(c) /\ Len(c) <= Len(b) + 1 /\ Len(c) >= 1
         /\ Elements(c) = {k \in Elements(b) : Playout!Seq16(k) # Playout!Seq16(n)} \cup {n}
<1> DEFINE w == Playout!Without(b, Playout!Seq16(n))
<1>1. /\ Buffer(w) /\ Len(w) <= Len(b)
      /\ Elements(w) = {k \in Elements(b) : Playout!Seq16(k) # Playout!Seq16(n)}
  BY WithoutOne
<1>2. c = Append(w, n)
  BY DEF Playout!Insert
<1> HIDE DEF w
<1>3. w \in Seq(Numbered) /\ DOMAIN w = 1 .. Len(w) /\ Len(w) \in Nat
      /\ b \in Seq(Numbered) /\ Len(b) \in Nat
  BY <1>1 DEF Buffer
<1>4. /\ c \in Seq(Numbered) /\ Len(c) = Len(w) + 1 /\ DOMAIN c = 1 .. Len(w) + 1
      /\ c[Len(w) + 1] = n /\ \A i \in 1 .. Len(w) : c[i] = w[i]
  BY <1>2, <1>3
<1>5. Elements(c) = Elements(w) \cup {n}
  BY <1>3, <1>4 DEF Elements
<1>6. \A i \in 1 .. Len(w) : Playout!Seq16(c[i]) # Playout!Seq16(n)
  BY <1>1, <1>3, <1>4 DEF Elements
<1>7. Distinct(c)
  <2> SUFFICES ASSUME NEW i \in 1 .. Len(w) + 1, NEW j \in 1 .. Len(w) + 1,
                      Playout!Seq16(c[i]) = Playout!Seq16(c[j])
               PROVE  i = j
    BY <1>4 DEF Distinct
  <2>1. CASE i \in 1 .. Len(w) /\ j \in 1 .. Len(w)
    <3>1. Playout!Seq16(w[i]) = Playout!Seq16(w[j])
      BY <1>4, <2>1
    <3> QED
      BY <1>1, <1>3, <2>1, <3>1 DEF Buffer, Distinct
  <2>2. CASE i = Len(w) + 1
    BY <1>3, <1>4, <1>6, <2>2
  <2>3. CASE j = Len(w) + 1
    BY <1>3, <1>4, <1>6, <2>3
  <2> QED
    BY <1>3, <2>1, <2>2, <2>3
<1> QED
  BY <1>1, <1>3, <1>4, <1>5, <1>7 DEF Buffer

(* A buffer that is one packet too full is cut to its limit.               *)
LEMMA Capped ==
  ASSUME Playout!ConstantsOK, NEW b, Buffer(b), Len(b) <= MaxDepth + 1, NEW c, c = Playout!Cap(b)
  PROVE  Buffer(c) /\ Len(c) <= MaxDepth /\ Elements(c) \subseteq Elements(b)
<1>0. b \in Seq(Numbered) /\ DOMAIN b = 1 .. Len(b) /\ Len(b) \in Nat
      /\ MaxDepth \in Nat /\ MaxDepth >= 1
  BY Parameters DEF Buffer
<1>1. CASE Len(b) > MaxDepth
  <2>1. c = Tail(b) /\ b # <<>>
    BY <1>0, <1>1 DEF Playout!Cap
  <2>2. /\ c \in Seq(Numbered) /\ Len(c) = Len(b) - 1 /\ DOMAIN c = 1 .. Len(b) - 1
        /\ \A i \in 1 .. Len(b) - 1 : c[i] = b[i + 1]
    BY <1>0, <2>1
  <2>3. Distinct(c)
    <3> SUFFICES ASSUME NEW i \in 1 .. Len(b) - 1, NEW j \in 1 .. Len(b) - 1,
                        Playout!Seq16(c[i]) = Playout!Seq16(c[j])
                 PROVE  i = j
      BY <2>2 DEF Distinct
    <3>1. /\ i + 1 \in DOMAIN b /\ j + 1 \in DOMAIN b
          /\ Playout!Seq16(b[i + 1]) = Playout!Seq16(b[j + 1])
      BY <1>0, <2>2
    <3>2. i + 1 = j + 1
      BY <3>1 DEF Buffer, Distinct
    <3> QED
      BY <3>2
  <2>4. Elements(c) \subseteq Elements(b)
    <3> SUFFICES ASSUME NEW i \in 1 .. Len(b) - 1 PROVE c[i] \in Elements(b)
      BY <2>2 DEF Elements
    <3> QED
      BY <1>0, <2>2, SMTT(30) DEF Elements
  <2> QED
    BY <1>0, <1>1, <2>2, <2>3, <2>4 DEF Buffer
<1>2. CASE ~(Len(b) > MaxDepth)
  BY <1>0, <1>2 DEF Playout!Cap
<1> QED
  BY <1>1, <1>2

-----------------------------------------------------------------------------
(* Induction up to a bound.                                                *)
LEMMA Induction ==
  ASSUME NEW S, NEW k \in Nat, 1 \in S, \A i \in 2 .. k : i - 1 \in S => i \in S
  PROVE  1 .. k \subseteq S
<1> DEFINE T == {i \in 1 .. k : i \notin S}
<1> SUFFICES ASSUME T # {} PROVE FALSE
  OBVIOUS
<1>0. T \subseteq Nat
  OBVIOUS
<1>1. \E x \in T : \A y \in T : x <= y
  <2> HIDE DEF T
  <2> QED
    BY <1>0, Least
<1>4. PICK x \in T : \A y \in T : x <= y
  BY <1>1
<1>2. x \in 2 .. k /\ x - 1 \in 1 .. k /\ x - 1 < x /\ x \notin S
  OBVIOUS
<1>3. x - 1 \in S
  BY <1>2, <1>4
<1> QED
  BY <1>2, <1>3

(* The scan by signed distances finds the earliest packet of the buffer.   *)
LEMMA EarliestIsLeast ==
  ASSUME Playout!ConstantsOK, NEW b, b \in Seq(Numbered), Len(b) >= 1
  PROVE  \E n \in Elements(b) :
           /\ Playout!Earliest(b) = Playout!Seq16(n)
           /\ \A k \in Elements(b) : n <= k
<1> DEFINE L == Len(b)
           upto(i) == {b[j] : j \in 1 .. i}
           low(i) == CHOOSE n \in upto(i) : \A k \in upto(i) : n <= k
           Step(f) == [i \in 1 .. L |->
                        IF i = 1 THEN Playout!Seq16(b[1])
                        ELSE IF Playout!Distance(Playout!Seq16(b[i]), f[i - 1]) < 0
                        THEN Playout!Seq16(b[i])
                        ELSE f[i - 1]]
           scan == CHOOSE f : f = Step(f)
           low16 == [i \in 1 .. L |-> Playout!Seq16(low(i))]
<1>0. L \in Nat /\ L >= 1 /\ DOMAIN b = 1 .. L /\ Packets \in Nat
      /\ \A i \in 1 .. L : b[i] \in Numbered
  BY Parameters, SMTT(30)
<1>00. \A x \in Numbered : x \in 0 .. Packets
  BY Parameters DEF Numbered
<1>1. Playout!Earliest(b) = scan[L]
  BY DEF Playout!Earliest
<1>2. \A i \in 1 .. L : /\ low(i) \in upto(i) /\ \A k \in upto(i) : low(i) <= k
                        /\ low(i) \in Numbered /\ upto(i) \subseteq Nat
  <2> SUFFICES ASSUME NEW i \in 1 .. L
               PROVE  /\ low(i) \in upto(i) /\ \A k \in upto(i) : low(i) <= k
                      /\ low(i) \in Numbered /\ upto(i) \subseteq Nat
    OBVIOUS
  <2>1. upto(i) \subseteq Numbered /\ upto(i) # {}
    BY <1>0
  <2>2. upto(i) \subseteq Nat
    BY <2>1 DEF Numbered
  <2>3. \E x \in upto(i) : \A k \in upto(i) : x <= k
    BY <2>1, <2>2, Least
  <2> QED
    BY <2>1, <2>2, <2>3
<1>3. \A i \in 2 .. L : upto(i) = upto(i - 1) \cup {b[i]}
  BY <1>0
<1>4. low(1) = b[1]
  <2>1. upto(1) = {b[1]}
    OBVIOUS
  <2>2. low(1) \in upto(1)
    BY <1>0, <1>2
  <2> HIDE DEF low
  <2> QED
    BY <2>1, <2>2
<1>5. \A i \in 2 .. L : low(i) = IF b[i] < low(i - 1) THEN b[i] ELSE low(i - 1)
  <2> HIDE DEF low
  <2> SUFFICES ASSUME NEW i \in 2 .. L
               PROVE  low(i) = IF b[i] < low(i - 1) THEN b[i] ELSE low(i - 1)
    OBVIOUS
  <2>1. i \in 1 .. L /\ i - 1 \in 1 .. L
    BY <1>0
  <2>2. /\ low(i) \in upto(i - 1) \cup {b[i]}
        /\ \A k \in upto(i - 1) \cup {b[i]} : low(i) <= k
        /\ low(i - 1) \in upto(i - 1) /\ \A k \in upto(i - 1) : low(i - 1) <= k
    BY <1>2, <1>3, <2>1
  <2>3. low(i) \in Int /\ low(i - 1) \in Int /\ b[i] \in Int
    BY <1>0, <1>2, <2>1 DEF Numbered
  <2> HIDE DEF upto
  <2> QED
    BY <2>2, <2>3, SMTT(30)
<1>6. \A i \in 2 .. L :
        Playout!Distance(Playout!Seq16(b[i]), Playout!Seq16(low(i - 1))) < 0 <=> b[i] < low(i - 1)
  <2> HIDE DEF low
  <2> SUFFICES ASSUME NEW i \in 2 .. L
               PROVE  Playout!Distance(Playout!Seq16(b[i]), Playout!Seq16(low(i - 1))) < 0
                        <=> b[i] < low(i - 1)
    OBVIOUS
  <2>1. b[i] \in 0 .. Packets /\ low(i - 1) \in 0 .. Packets
    <3>1. i - 1 \in 1 .. L /\ i \in 1 .. L
      BY <1>0
    <3> HIDE DEF upto
    <3>2. b[i] \in Numbered /\ low(i - 1) \in Numbered
      BY <1>0, <1>2, <3>1
    <3> QED
      BY <1>00, <3>2
  <2>2. Playout!Distance(Playout!Seq16(b[i]), Playout!Seq16(low(i - 1))) = b[i] - low(i - 1)
    BY <2>1, Apart
  <2> QED
    BY <2>1, <2>2
<1>7. low16 = Step(low16)
  <2> HIDE DEF low
  <2>1. ASSUME NEW i \in 1 .. L PROVE low16[i] = Step(low16)[i]
    <3>1. CASE i = 1
      BY <1>0, <1>4, <3>1
    <3>2. CASE i \in 2 .. L
      <4>1. i - 1 \in 1 .. L /\ low16[i - 1] = Playout!Seq16(low(i - 1)) /\ i # 1
        BY <1>0, <3>2
      <4> QED
        BY <1>5, <1>6, <3>2, <4>1
    <3> QED
      BY <3>1, <3>2
  <2> QED
    BY <2>1
<1>8. scan = Step(scan)
  <2> HIDE DEF low16, Step
  <2> QED
    BY <1>7
<1>9. \A i \in 1 .. L : scan[i] = Playout!Seq16(low(i))
  <2> HIDE DEF scan, low
  <2> DEFINE S == {i \in 1 .. L : scan[i] = Playout!Seq16(low(i))}
  <2>1. 1 \in S
    <3>1. scan[1] = Playout!Seq16(b[1])
      BY <1>0, <1>8
    <3> QED
      BY <1>0, <1>4, <3>1
  <2>2. ASSUME NEW i \in 2 .. L, i - 1 \in S PROVE i \in S
    <3>1. i \in 1 .. L /\ i # 1 /\ scan[i - 1] = Playout!Seq16(low(i - 1))
      BY <1>0, <2>2
    <3>2. scan[i] = IF Playout!Distance(Playout!Seq16(b[i]), scan[i - 1]) < 0
                    THEN Playout!Seq16(b[i])
                    ELSE scan[i - 1]
      BY <1>8, <3>1
    <3> QED
      BY <1>5, <1>6, <3>1, <3>2
  <2> HIDE DEF S
  <2>3. 1 .. L \subseteq S
    BY <1>0, <2>1, <2>2, Induction
  <2> QED
    BY <2>3 DEF S
<1> HIDE DEF scan, low
<1>10. upto(L) = Elements(b)
  BY <1>0 DEF Elements
<1> QED
  BY <1>0, <1>1, <1>2, <1>9, <1>10

(* A skip goes to a packet, and passes by none that is held.               *)
LEMMA SkipsToNearest ==
  ASSUME Playout!ConstantsOK, Playout!Held \subseteq Numbered,
         NEW m \in 0 .. Packets, \A n \in Playout!Held : Playout!Seq16(n) # Playout!Seq16(m)
  PROVE  \E p \in 0 .. Packets :
           /\ p >= m /\ Playout!SkipTo(Playout!Seq16(m), MaxGap) = Playout!Seq16(p)
           /\ \A n \in Playout!Held : n >= m => n >= p
<1> DEFINE ahead == {d \in 1 .. MaxGap :
                       \E n \in Playout!Held : Playout!Distance(Playout!Seq16(n), Playout!Seq16(m)) = d}
<1>0. Packets \in Nat /\ MaxGap \in Nat /\ m \in Nat
  BY Parameters
<1>1. \A n \in Playout!Held : n \in 0 .. Packets /\ n \in Nat /\ n < Packets
                      /\ Playout!Distance(Playout!Seq16(n), Playout!Seq16(m)) = n - m
  BY <1>0, Apart DEF Numbered
<1>2. \A n \in Playout!Held : n # m
  OBVIOUS
<1>3. CASE ahead = {}
  <2>1. Playout!SkipTo(Playout!Seq16(m), MaxGap) = Playout!Seq16(m)
    BY <1>3 DEF Playout!SkipTo
  <2> QED
    BY <1>0, <2>1
<1>4. CASE ahead # {}
  <2> DEFINE d == CHOOSE d \in ahead : \A e \in ahead : d <= e
  <2>1. \E x \in ahead : \A e \in ahead : x <= e
    <3>1. ahead \subseteq Nat
      BY <1>0
    <3> QED
      BY <1>4, <3>1, Least
  <2>2. d \in ahead /\ \A e \in ahead : d <= e
    BY <2>1
  <2>3. Playout!SkipTo(Playout!Seq16(m), MaxGap) = (Playout!Seq16(m) + d) % Width
    BY <1>4 DEF Playout!SkipTo
  <2> HIDE DEF d
  <2>4. PICK n \in Playout!Held :
          Playout!Distance(Playout!Seq16(n), Playout!Seq16(m)) = d /\ d \in 1 .. MaxGap
    BY <2>2
  <2>5. n = m + d /\ d \in Nat /\ m + d \in 0 .. Packets /\ m + d >= m
    BY <1>0, <1>1, <2>4
  <2>6. Playout!SkipTo(Playout!Seq16(m), MaxGap) = Playout!Seq16(m + d)
    BY <1>0, <2>3, <2>5, Onward
  <2>7. ASSUME NEW k \in Playout!Held, k >= m PROVE k >= m + d
    <3>1. k - m >= 1 /\ k \in Nat
      BY <1>0, <1>1, <1>2, <2>7
    <3>2. CASE k - m \in 1 .. MaxGap
      <4>1. k - m \in ahead
        BY <1>1, <3>2
      <4> QED
        BY <1>0, <2>2, <2>5, <3>1, <4>1
    <3>3. CASE k - m > MaxGap
      BY <1>0, <2>4, <2>5, <3>1, <3>3
    <3> QED
      BY <1>0, <3>1, <3>2, <3>3
  <2> QED
    BY <2>5, <2>6, <2>7
<1> QED
  BY <1>3, <1>4

-----------------------------------------------------------------------------
(* The pointer stands at packet m, and every packet played came before m.  *)
Stands(m) ==
  /\ next = Playout!Seq16(m)
  /\ \A i \in DOMAIN out : out[i] < m

(* The modes differ in when the pointer is set: never, with the first      *)
(* packet, or with a buffer of InitDepth; until then nothing is played.    *)
PlayoutInv ==
  /\ Playout!TypeOK
  /\ Playout!InOrder
  /\ mode = "immediate" => next = Playout!NoSeq /\ buf = <<>>
  /\ mode = "buffered" /\ next = Playout!NoSeq => buf = <<>>
  /\ mode # "immediate" /\ next = Playout!NoSeq => out = <<>>
  /\ next # Playout!NoSeq => \E m \in 0 .. Packets : Stands(m)

(* What the type invariant says of the buffer and of what was played.      *)
LEMMA Sequence ==
  ASSUME Playout!ConstantsOK, Playout!TypeOK
  PROVE  /\ Buffer(buf) /\ Playout!Held = Elements(buf) /\ Playout!Held \subseteq Numbered
         /\ out \in Seq(-1 .. Packets - 1) /\ DOMAIN out = 1 .. Len(out) /\ Len(out) \in Nat
         /\ \A i \in DOMAIN out : out[i] \in -1 .. Packets - 1
         /\ Packets \in Nat
<1>1. buf \in Seq(Numbered) /\ out \in Seq(-1 .. Packets - 1)
  BY DEF Playout!TypeOK, Numbered
<1>2. \A i \in DOMAIN buf : buf[i] \in Numbered
  BY <1>1
<1>3. Buffer(buf)
  BY <1>1 DEF Playout!TypeOK, Buffer, Distinct
<1>4. Playout!Held = Elements(buf) /\ Playout!Held \subseteq Numbered
  BY <1>2 DEF Playout!Held, Elements
<1>5. DOMAIN out = 1 .. Len(out) /\ Len(out) \in Nat
      /\ \A i \in DOMAIN out : out[i] \in -1 .. Packets - 1
  <2> DEFINE S == -1 .. Packets - 1
  <2>1. out \in Seq(S)
    BY <1>1
  <2> HIDE DEF S
  <2>2. DOMAIN out = 1 .. Len(out) /\ Len(out) \in Nat /\ \A i \in DOMAIN out : out[i] \in S
    BY <2>1
  <2> QED
    BY <2>2 DEF S
<1> QED
  BY <1>1, <1>3, <1>4, <1>5, Parameters

(* No packet has the number that stands for none.                          *)
LEMMA NoneIsNumber ==
  ASSUME Playout!ConstantsOK, NEW n \in Nat
  PROVE  Playout!Seq16(n) # Playout!NoSeq
BY Numbers, Parameters DEF Playout!NoSeq

(* One more frame.                                                         *)
LEMMA Appended ==
  ASSUME Playout!ConstantsOK, Playout!TypeOK, NEW n \in -1 .. Packets - 1, out' = Append(out, n)
  PROVE  /\ out' \in Seq(-1 .. Packets - 1) /\ Len(out') = Len(out) + 1
         /\ DOMAIN out' = 1 .. Len(out) + 1 /\ out'[Len(out) + 1] = n
         /\ \A i \in 1 .. Len(out) : out'[i] = out[i]
BY Sequence

LEMMA PlayoutInit ==
  ASSUME Playout!ConstantsOK, Playout!Init
  PROVE  PlayoutInv
<1>1. Playout!TypeOK
  <2>1. Packets \in Nat /\ MaxDepth \in Nat /\ MissSkip \in Nat /\ Twice \in Nat
    BY Parameters DEF Playout!ConstantsOK
  <2> QED
    BY <2>1 DEF Playout!Init, Playout!TypeOK, Playout!NoSeq
<1> QED
  BY <1>1 DEF Playout!Init, PlayoutInv, Playout!InOrder, Playout!Played, Playout!NoSeq

LEMMA OnPacketInv ==
  ASSUME Playout!ConstantsOK, PlayoutInv, NEW n \in net, Playout!OnPacket(n),
         UNCHANGED <<mode, sent, misses, running>>,
         net' \subseteq net, twice' \in 0 .. Twice
  PROVE  PlayoutInv'
<1>0. n \in Numbered /\ n \in Nat /\ n \in 0 .. Packets /\ Packets \in Nat
  BY Parameters, SMTT(30) DEF PlayoutInv, Playout!TypeOK, Numbered
<1>a. Playout!TypeOK
  BY DEF PlayoutInv
<1>b. /\ mode' \in Modes /\ sent' \in 0 .. Packets /\ net' \subseteq 0 .. Packets - 1
      /\ misses' \in 0 .. MissSkip /\ running' \in BOOLEAN /\ mode' = mode
  BY DEF PlayoutInv, Playout!TypeOK
<1>1. CASE mode = "immediate"
  <2>1. out' = Append(out, n) /\ buf' = buf /\ next' = next
    BY <1>1 DEF Playout!OnPacket
  <2>2. n \in -1 .. Packets - 1
    BY <1>0 DEF Numbered
  <2>3. out' \in Seq(-1 .. Packets - 1)
    BY <1>a, <2>1, <2>2, Appended
  <2>4. Playout!TypeOK'
    BY <1>b, <2>1, <2>3 DEF PlayoutInv, Playout!TypeOK, Playout!Seq16
  <2> QED
    BY <1>1, <1>b, <2>1, <2>4 DEF PlayoutInv, Playout!InOrder, Playout!NoSeq
<1>2. CASE mode # "immediate"
  <2> DEFINE b == Playout!Insert(buf, n)
  <2>1. /\ next' = (IF next # Playout!NoSeq THEN next
                    ELSE IF mode = "buffered" THEN Playout!Seq16(n)
                    ELSE IF Len(b) >= InitDepth THEN Playout!Earliest(b)
                    ELSE Playout!NoSeq)
        /\ buf' = Playout!Cap(b) /\ out' = out
    BY <1>2 DEF Playout!OnPacket
  <2>2. /\ Buffer(b) /\ Len(b) <= Len(buf) + 1 /\ Len(b) >= 1
    BY <1>0, <1>a, Sequence, Inserted
  <2> HIDE DEF b
  <2>3. Buffer(buf') /\ Len(buf') <= MaxDepth
    <3>1. Len(buf) \in Nat /\ Len(buf) <= MaxDepth /\ Len(b) \in Nat
      BY <1>a, <2>2, Sequence DEF Playout!TypeOK, Buffer
    <3>2. Len(b) <= MaxDepth + 1
      BY <2>2, <3>1, Parameters, SMTT(30)
    <3> QED
      BY <2>1, <2>2, <3>2, Capped
  <2>4. CASE next' = next
    <3>1. Playout!TypeOK'
      BY <1>b, <2>1, <2>3, <2>4
         DEF PlayoutInv, Playout!TypeOK, Buffer, Distinct, Numbered, Playout!Seq16
    <3>2. mode = "buffered" => next # Playout!NoSeq
      BY <1>0, <2>1, <2>4, NoneIsNumber
    <3> QED
      BY <1>2, <1>b, <2>1, <2>4, <3>1, <3>2
         DEF PlayoutInv, Playout!InOrder, Playout!Played, Stands, Playout!NoSeq, Playout!Seq16,
             Playout!Silence
  <2>5. CASE next' # next
    <3>1. next = Playout!NoSeq /\ out = <<>>
      BY <1>2, <2>1, <2>5 DEF PlayoutInv
    <3>2. PICK m \in 0 .. Packets - 1 : next' = Playout!Seq16(m)
      <4>1. CASE mode = "buffered"
        BY <1>0, <2>1, <2>5, <3>1, <4>1 DEF Numbered
      <4>2. CASE mode # "buffered"
        <5>1. next' = Playout!Earliest(b)
          BY <2>1, <2>5, <3>1, <4>2
        <5>2. b \in Seq(Numbered) /\ Elements(b) \subseteq Numbered
          BY <2>2 DEF Buffer, Elements
        <5> QED
          BY <2>2, <5>1, <5>2, EarliestIsLeast DEF Numbered
      <4> QED
        BY <4>1, <4>2
    <3>3. m \in Nat /\ m \in 0 .. Packets
      BY <1>0
    <3>4. next' \in 0 .. Width - 1 /\ next' # Playout!NoSeq
      BY <3>2, <3>3, Numbers, NoneIsNumber
    <3>5. Playout!TypeOK'
      BY <1>b, <2>1, <2>3, <3>4
         DEF PlayoutInv, Playout!TypeOK, Buffer, Distinct, Numbered, Playout!Seq16
    <3>6. out' = <<>> /\ DOMAIN out' = {}
      BY <2>1, <3>1
    <3>7. Stands(m)'
      BY <3>2, <3>6 DEF Stands, Playout!Seq16
    <3> QED
      BY <1>2, <1>b, <3>3, <3>4, <3>5, <3>6, <3>7
         DEF PlayoutInv, Playout!InOrder, Playout!Played, Playout!NoSeq
  <2> QED
    BY <2>4, <2>5
<1> QED
  BY <1>1, <1>2

LEMMA DeliverInv ==
  ASSUME Playout!ConstantsOK, PlayoutInv, NEW n \in net, Playout!Deliver(n)
  PROVE  PlayoutInv'
<1>1. Twice \in Nat /\ twice \in 0 .. Twice
  BY DEF Playout!ConstantsOK, PlayoutInv, Playout!TypeOK
<1>2. net' \subseteq net /\ twice' \in 0 .. Twice
  BY <1>1 DEF Playout!Deliver
<1> QED
  BY <1>2, OnPacketInv DEF Playout!Deliver

(* A tick that plays a packet plays the one the pointer stands at.         *)
LEMMA PlayInv ==
  ASSUME Playout!ConstantsOK, PlayoutInv, next # Playout!NoSeq, mode # "immediate",
         NEW n \in Playout!Held, Playout!Seq16(n) = next, Playout!Play(n),
         UNCHANGED <<mode, running, Playout!network>>
  PROVE  /\ PlayoutInv'
         /\ \E m \in 0 .. Packets - 1 :
              n = m /\ next = Playout!Seq16(m) /\ next' = Playout!Seq16(m + 1)
<1>a. Playout!TypeOK
  BY DEF PlayoutInv
<1>0. n \in Numbered /\ n \in 0 .. Packets /\ n \in Nat /\ Packets \in Nat
      /\ n + 1 \in 0 .. Packets /\ n + 1 \in Nat
  BY <1>a, Sequence DEF Numbered
<1>1. PICK m \in 0 .. Packets : Stands(m)
  BY DEF PlayoutInv
<1>2. n = m
  BY <1>0, <1>1, OneNumber DEF Stands
<1>3. next' = Playout!Seq16(n + 1)
  <2>1. next' = (Playout!Seq16(n) + 1) % Width
    BY DEF Playout!Play
  <2> QED
    BY <1>0, <2>1, Onward
<1>4. /\ out' \in Seq(-1 .. Packets - 1) /\ Len(out') = Len(out) + 1
      /\ DOMAIN out' = 1 .. Len(out) + 1 /\ out'[Len(out) + 1] = n
      /\ \A i \in 1 .. Len(out) : out'[i] = out[i]
  <2>1. n \in -1 .. Packets - 1 /\ out' = Append(out, n)
    BY <1>0 DEF Playout!Play, Numbered
  <2> QED
    BY <1>a, <2>1, Appended
<1>5. DOMAIN out = 1 .. Len(out) /\ Len(out) \in Nat
      /\ \A i \in DOMAIN out : out[i] \in Int /\ out[i] < n
  BY <1>1, <1>2, <1>a, Sequence DEF Stands
<1>6. next' \in 0 .. Width - 1 /\ next' # Playout!NoSeq
  BY <1>0, <1>3, Numbers, NoneIsNumber
<1>7. Buffer(buf') /\ Len(buf') <= MaxDepth
  <2>1. Buffer(buf') /\ Len(buf') <= Len(buf) /\ Len(buf) <= MaxDepth
    BY <1>a, Sequence, WithoutOne DEF Playout!Play, Playout!TypeOK
  <2>2. Len(buf') \in Nat /\ Len(buf) \in Nat /\ MaxDepth \in Nat
    <3>1. Buffer(buf')
      BY <2>1
    <3>2. Buffer(buf)
      BY <1>a, Sequence
    <3>3. buf' \in Seq(Numbered) /\ buf \in Seq(Numbered)
      BY <3>1, <3>2 DEF Buffer
    <3> QED
      BY <3>3, Parameters, SMTT(30)
  <2> QED
    BY <2>1, <2>2
<1>8. Playout!TypeOK'
  <2>1. 0 \in 0 .. MissSkip
    BY Parameters
  <2>2. misses' = 0
    BY DEF Playout!Play
  <2> QED
    BY <1>a, <1>4, <1>6, <1>7, <2>1, <2>2
       DEF Playout!TypeOK, Buffer, Distinct, Numbered, Playout!Seq16, Playout!network
<1>9. Playout!InOrder'
  <2> SUFFICES ASSUME NEW i \in 1 .. Len(out) + 1, NEW j \in 1 .. Len(out) + 1,
                      out'[i] # Playout!Silence, out'[j] # Playout!Silence, i < j
               PROVE  out'[i] < out'[j]
    BY <1>4 DEF Playout!InOrder, Playout!Played, Playout!Silence
  <2>1. i \in 1 .. Len(out)
    BY <1>5
  <2>2. CASE j \in 1 .. Len(out)
    BY <1>4, <1>5, <2>1, <2>2 DEF PlayoutInv, Playout!InOrder, Playout!Played
  <2>3. CASE j = Len(out) + 1
    BY <1>4, <1>5, <2>1, <2>3
  <2> QED
    BY <1>5, <2>2, <2>3
<1>10. Stands(n + 1)'
  <2>1. ASSUME NEW i \in 1 .. Len(out) + 1 PROVE out'[i] < n + 1
    <3>1. CASE i \in 1 .. Len(out)
      <4>1. out'[i] = out[i] /\ out[i] \in Int /\ out[i] < n
        BY <1>4, <1>5, <3>1
      <4> QED
        BY <1>0, <4>1
    <3>2. CASE i = Len(out) + 1
      BY <1>0, <1>4, <3>2
    <3> QED
      BY <1>5, <3>1, <3>2
  <2> QED
    BY <1>3, <1>4, <2>1 DEF Stands, Playout!Seq16
<1>11. PlayoutInv'
  BY <1>0, <1>6, <1>8, <1>9, <1>10 DEF PlayoutInv, Playout!NoSeq
<1>12. n \in 0 .. Packets - 1
  BY <1>0 DEF Numbered
<1> QED
  BY <1>3, <1>11, <1>12

(* A tick that plays nothing leaves the pointer at a packet, none that is  *)
(* held in front of it is passed.                                          *)
LEMMA MissInv ==
  ASSUME Playout!ConstantsOK, PlayoutInv, next # Playout!NoSeq,
         \A n \in Playout!Held : Playout!Seq16(n) # next,
         \/ mode = "fixed-buffered" /\ Playout!MissFixed
         \/ mode = "buffered" /\ Len(out) < Packets /\ Playout!MissBuffered,
         UNCHANGED <<mode, running, Playout!network>>
  PROVE  /\ PlayoutInv' /\ buf' = buf
         /\ \E m, p \in 0 .. Packets :
              /\ next = Playout!Seq16(m) /\ next' = Playout!Seq16(p)
              /\ \A n \in Playout!Held : n >= m => n >= p
<1>a. Playout!TypeOK
  BY DEF PlayoutInv
<1>0. /\ Packets \in Nat /\ Playout!Held \subseteq Numbered /\ Len(out) \in Nat
      /\ DOMAIN out = 1 .. Len(out) /\ \A i \in DOMAIN out : out[i] \in -1 .. Packets - 1
  BY <1>a, Sequence
<1>1. PICK m \in 0 .. Packets : Stands(m)
  BY DEF PlayoutInv
<1>2. PICK p \in 0 .. Packets : /\ p >= m /\ Playout!SkipTo(next, MaxGap) = Playout!Seq16(p)
                                /\ \A n \in Playout!Held : n >= m => n >= p
  <2>1. \A n \in Playout!Held : Playout!Seq16(n) # Playout!Seq16(m)
    BY <1>1 DEF Stands
  <2> QED
    BY <1>0, <1>1, <2>1, SkipsToNearest DEF Stands
<1>3. PICK k \in {m, p} : next' = Playout!Seq16(k)
  BY <1>1, <1>2 DEF Playout!MissFixed, Playout!MissBuffered, Stands
<1>4. /\ k \in 0 .. Packets /\ k >= m /\ k \in Nat
      /\ \A n \in Playout!Held : n >= m => n >= k
  BY <1>0, <1>2
<1>5. next' \in 0 .. Width - 1 /\ next' # Playout!NoSeq
  BY <1>3, <1>4, Numbers, NoneIsNumber
<1>6. buf' = buf /\ misses' \in 0 .. MissSkip
  <2>1. misses \in 0 .. MissSkip /\ MissSkip \in Nat
    BY <1>a, Parameters DEF Playout!TypeOK
  <2> QED
    BY <2>1 DEF Playout!MissFixed, Playout!MissBuffered
<1>7. /\ out' \in Seq(-1 .. Packets - 1)
      /\ \A i \in DOMAIN out' : \/ i \in DOMAIN out /\ out'[i] = out[i]
                                \/ out'[i] = Playout!Silence
  <2>1. CASE out' = out
    BY <1>a, <2>1 DEF Playout!TypeOK
  <2>2. CASE out' = Append(out, Playout!Silence)
    <3>1. Playout!Silence \in -1 .. Packets - 1
      BY <1>0 DEF Playout!Silence
    <3>2. /\ out' \in Seq(-1 .. Packets - 1)
          /\ DOMAIN out' = 1 .. Len(out) + 1 /\ out'[Len(out) + 1] = Playout!Silence
          /\ \A i \in 1 .. Len(out) : out'[i] = out[i]
      BY <1>a, <2>2, <3>1, Appended
    <3> QED
      BY <1>0, <3>2
  <2> QED
    BY <2>1, <2>2 DEF Playout!MissFixed, Playout!MissBuffered
<1>8. Playout!TypeOK'
  BY <1>a, <1>5, <1>6, <1>7 DEF Playout!TypeOK, Playout!Seq16, Playout!network
<1>9. Playout!InOrder'
  BY <1>7 DEF PlayoutInv, Playout!InOrder, Playout!Played, Playout!Silence
<1>10. Stands(k)'
  <2>1. ASSUME NEW i \in DOMAIN out' PROVE out'[i] < k
    <3>1. CASE i \in DOMAIN out /\ out'[i] = out[i]
      BY <1>0, <1>1, <1>4, <3>1 DEF Stands
    <3>2. CASE out'[i] = Playout!Silence
      BY <1>4, <3>2 DEF Playout!Silence
    <3> QED
      BY <1>7, <3>1, <3>2
  <2> QED
    BY <1>3, <2>1 DEF Stands, Playout!Seq16
<1>11. PlayoutInv'
  BY <1>4, <1>5, <1>8, <1>9, <1>10 DEF PlayoutInv, Playout!NoSeq
<1> QED
  BY <1>1, <1>3, <1>4, <1>6, <1>11 DEF Stands

LEMMA PlayoutNext ==
  ASSUME Playout!ConstantsOK, PlayoutInv, [Playout!Next]_(Playout!vars)
  PROVE  PlayoutInv'
<1>1. CASE UNCHANGED Playout!vars
  BY <1>1 DEF Playout!vars, PlayoutInv, Playout!TypeOK, Playout!InOrder, Playout!Played, Stands, Playout!Seq16
<1>2. CASE Playout!SenderSends
  <2>1. sent' \in 0 .. Packets /\ net' \subseteq 0 .. Packets - 1
    <3>1. sent \in 0 .. Packets /\ net \subseteq 0 .. Packets - 1 /\ Packets \in Nat
      BY Parameters DEF PlayoutInv, Playout!TypeOK
    <3>2. sent \in 0 .. Packets - 1 /\ sent + 1 \in 0 .. Packets
      BY <1>2, <3>1 DEF Playout!SenderSends
    <3>3. sent' = sent + 1 /\ net' \subseteq net \cup {sent}
      BY <1>2 DEF Playout!SenderSends
    <3> QED
      BY <3>1, <3>2, <3>3
  <2>2. UNCHANGED <<mode, twice, buf, next, misses, running, out>>
    BY <1>2 DEF Playout!SenderSends
  <2>3. Playout!TypeOK'
    BY <2>1, <2>2 DEF PlayoutInv, Playout!TypeOK, Playout!Seq16
  <2> QED
    BY <2>2, <2>3 DEF PlayoutInv, Playout!InOrder, Playout!Played, Stands, Playout!Seq16
<1>3. CASE \E n \in net : Playout!Deliver(n)
  BY <1>3, DeliverInv
<1>4. CASE Playout!Tick
  <2>1. next # Playout!NoSeq /\ mode # "immediate" /\ UNCHANGED <<mode, running, Playout!network>>
    BY <1>4 DEF Playout!Tick, PlayoutInv
  <2>2. CASE \E n \in Playout!Held : Playout!Seq16(n) = next /\ Playout!Play(n)
    BY <2>1, <2>2, PlayInv
  <2>3. CASE ~\E n \in Playout!Held : Playout!Seq16(n) = next /\ Playout!Play(n)
    <3>1. /\ \A n \in Playout!Held : Playout!Seq16(n) # next
          /\ \/ mode = "fixed-buffered" /\ Playout!MissFixed
             \/ mode = "buffered" /\ Len(out) < Packets /\ Playout!MissBuffered
      BY <1>4, <2>3 DEF Playout!Tick
    <3> QED
      BY <2>1, <3>1, MissInv
  <2> QED
    BY <2>2, <2>3
<1>5. CASE Playout!Close
  BY <1>5 DEF Playout!Close, Playout!network, PlayoutInv, Playout!TypeOK, Playout!InOrder, Playout!Played,
              Stands, Playout!Seq16
<1> QED
  BY <1>1, <1>2, <1>3, <1>4, <1>5 DEF Playout!Next

(* No step passes by a packet that is held in front of the pointer.        *)
LEMMA PassesNone ==
  ASSUME Playout!ConstantsOK, PlayoutInv, [Playout!Next]_(Playout!vars),
         NEW n \in Playout!Held, Playout!Ahead(n)
  PROVE  Playout!Ahead(n)' \/ (Len(out') > Len(out) /\ out'[Len(out')] = n)
<1>a. Playout!TypeOK
  BY DEF PlayoutInv
<1>0. n \in Numbered /\ n \in 0 .. Packets /\ n \in Nat /\ Packets \in Nat
  BY <1>a, Sequence DEF Numbered
<1>1. next # Playout!NoSeq /\ Playout!Distance(Playout!Seq16(n), next) >= 0
  BY DEF Playout!Ahead
<1>2. CASE next' = next
  BY <1>1, <1>2 DEF Playout!Ahead, Playout!Distance, Playout!Seq16, Playout!NoSeq
<1>3. CASE next' # next
  <2>1. Playout!Tick
    <3>1. ASSUME NEW k \in net, Playout!Deliver(k) PROVE FALSE
      BY <1>1, <1>3, <3>1 DEF Playout!Deliver, Playout!OnPacket
    <3> QED
      BY <1>3, <3>1 DEF Playout!Next, Playout!vars, Playout!SenderSends, Playout!Close
  <2>2. mode # "immediate" /\ UNCHANGED <<mode, running, Playout!network>>
    BY <1>1, <2>1 DEF Playout!Tick, PlayoutInv
  <2>3. ASSUME NEW p \in 0 .. Packets, next' = Playout!Seq16(p), n >= p
        PROVE  Playout!Ahead(n)'
    <3>1. Playout!Distance(Playout!Seq16(n), next') = n - p
      BY <1>0, <2>3, Apart
    <3>2. p \in Nat /\ next' # Playout!NoSeq
      BY <1>0, <2>3, NoneIsNumber
    <3>3. n - p >= 0
      BY <1>0, <2>3
    <3> QED
      BY <3>1, <3>2, <3>3 DEF Playout!Ahead, Playout!Distance, Playout!Seq16, Playout!NoSeq
  <2>4. ASSUME NEW m \in 0 .. Packets, next = Playout!Seq16(m) PROVE n >= m
    <3>1. Playout!Distance(Playout!Seq16(n), Playout!Seq16(m)) = n - m
      BY <1>0, Apart
    <3> QED
      BY <1>0, <1>1, <2>4, <3>1
  <2>5. CASE \E k \in Playout!Held : Playout!Seq16(k) = next /\ Playout!Play(k)
    <3>1. PICK k \in Playout!Held : Playout!Seq16(k) = next /\ Playout!Play(k)
      BY <2>5
    <3>2. PICK m \in 0 .. Packets - 1 :
            k = m /\ next = Playout!Seq16(m) /\ next' = Playout!Seq16(m + 1)
      BY <1>1, <2>2, <3>1, PlayInv
    <3>3. m \in 0 .. Packets /\ m \in Nat /\ m + 1 \in 0 .. Packets
      BY <1>0
    <3>4. CASE n = m
      <4>1. out' = Append(out, n) /\ n \in -1 .. Packets - 1
        BY <1>0, <3>1, <3>2, <3>4 DEF Playout!Play, Numbered
      <4>2. Len(out') = Len(out) + 1 /\ out'[Len(out) + 1] = n /\ Len(out) \in Nat
        BY <1>a, <4>1, Appended, Sequence
      <4> QED
        BY <4>2
    <3>5. CASE n # m
      <4>1. n >= m + 1
        BY <1>0, <2>4, <3>2, <3>3, <3>5
      <4> QED
        BY <2>3, <3>2, <3>3, <4>1
    <3> QED
      BY <3>4, <3>5
  <2>6. CASE ~\E k \in Playout!Held : Playout!Seq16(k) = next /\ Playout!Play(k)
    <3>1. /\ \A k \in Playout!Held : Playout!Seq16(k) # next
          /\ \/ mode = "fixed-buffered" /\ Playout!MissFixed
             \/ mode = "buffered" /\ Len(out) < Packets /\ Playout!MissBuffered
      BY <2>1, <2>6 DEF Playout!Tick
    <3>2. PICK m \in 0 .. Packets, p \in 0 .. Packets :
            /\ next = Playout!Seq16(m) /\ next' = Playout!Seq16(p)
            /\ \A k \in Playout!Held : k >= m => k >= p
      BY <1>1, <2>2, <3>1, MissInv
    <3> QED
      BY <2>3, <2>4, <3>2
  <2> QED
    BY <2>5, <2>6
<1> QED
  BY <1>2, <1>3

(* The step that sets the pointer sets it to the earliest of all.          *)
LEMMA StartsEarliest ==
  ASSUME Playout!ConstantsOK, PlayoutInv, [Playout!Next]_(Playout!vars),
         next = Playout!NoSeq, next' # Playout!NoSeq, NEW k \in Playout!Held
  PROVE  Playout!Distance(Playout!Seq16(k), next') >= 0
<1>a. Playout!TypeOK
  BY DEF PlayoutInv
<1>0. k \in Numbered /\ k \in 0 .. Packets /\ k \in Nat /\ Packets \in Nat
      /\ Playout!Held = Elements(buf) /\ Buffer(buf)
  BY <1>a, Sequence DEF Numbered
<1>1. mode = "fixed-buffered"
  <2>1. buf # <<>>
    BY DEF Playout!Held
  <2>2. mode \in {"buffered", "immediate", "fixed-buffered"}
    BY <1>a DEF Playout!TypeOK, Playout!ConstantsOK
  <2> QED
    BY <2>1, <2>2 DEF PlayoutInv
<1>2. PICK n \in net : Playout!Deliver(n)
  BY DEF Playout!Next, Playout!vars, Playout!SenderSends, Playout!Tick, Playout!Close
<1>3. n \in Numbered
  BY <1>a DEF Playout!TypeOK, Numbered
<1> DEFINE b == Playout!Insert(buf, n)
<1>4. next' = Playout!Earliest(b)
  BY <1>1, <1>2 DEF Playout!Deliver, Playout!OnPacket
<1>5. /\ Buffer(b) /\ Len(b) >= 1
      /\ Elements(b) = {x \in Elements(buf) : Playout!Seq16(x) # Playout!Seq16(n)} \cup {n}
  BY <1>0, <1>3, Inserted
<1> HIDE DEF b
<1>6. k \in Elements(b)
  <2>1. CASE Playout!Seq16(k) = Playout!Seq16(n)
    <3>1. k = n
      BY <1>0, <1>3, <2>1, OneNumber DEF Numbered
    <3> QED
      BY <1>5, <3>1
  <2> QED
    BY <1>0, <1>5, <2>1
<1>7. PICK e \in Elements(b) :
        Playout!Earliest(b) = Playout!Seq16(e) /\ \A x \in Elements(b) : e <= x
  BY <1>5, EarliestIsLeast DEF Buffer
<1>8. e \in 0 .. Packets
  <2>1. Elements(b) \subseteq Numbered
    BY <1>5 DEF Buffer, Elements
  <2> QED
    BY <1>0, <2>1 DEF Numbered
<1>9. Playout!Distance(Playout!Seq16(k), next') = k - e
  BY <1>0, <1>4, <1>7, <1>8, Apart
<1> QED
  BY <1>0, <1>6, <1>7, <1>8, <1>9

(* The steps the two action properties are about.                          *)
Passes ==
  \A n \in Playout!Held :
    Playout!Ahead(n) => Playout!Ahead(n)' \/ (Len(out') > Len(out) /\ out'[Len(out')] = n)

Starts ==
  next = Playout!NoSeq /\ next' # Playout!NoSeq =>
    \A n \in Playout!Held : Playout!Distance(Playout!Seq16(n), next') >= 0

(* Whatever the network loses, delays, reorders or repeats, in whatever    *)
(* order packets and ticks come, for a stream of fewer packets than half   *)
(* the numbers, wherever it starts: what goes through the buffer is played *)
(* once and in the sender's order, playout starts with the earliest packet *)
(* held, and passes by none that it holds.                                 *)
THEOREM PlayoutAlways ==
  ASSUME Playout!ConstantsOK
  PROVE  Playout!Spec => Playout!PlayoutHolds
<1>1. Playout!Init => PlayoutInv
  BY PlayoutInit
<1>2. PlayoutInv /\ [Playout!Next]_(Playout!vars) => PlayoutInv'
  BY PlayoutNext
<1>3. PlayoutInv => Playout!TypeOK /\ Playout!InOrder
  BY DEF PlayoutInv
<1>4. PlayoutInv /\ [Playout!Next]_(Playout!vars) =>
        [Passes]_(Playout!vars)
  BY PassesNone DEF Passes
<1>5. PlayoutInv /\ [Playout!Next]_(Playout!vars) =>
        [Starts]_(Playout!vars)
  BY StartsEarliest DEF Starts
<1> QED
  BY <1>1, <1>2, <1>3, <1>4, <1>5, PTL
     DEF Playout!Spec, Playout!PlayoutHolds, Playout!PassesNothingHeld, Playout!StartsAtEarliest,
         Passes, Starts

-----------------------------------------------------------------------------
(* The tunnel.  First, a frame and its cells.                              *)

Codes == [f \in Tunnel!Frame |-> Tunnel!Encode(f)]

LEMMA TunnelNumbers ==
  ASSUME Tunnel!ConstantsOK
  PROVE  /\ MaxPayload \in Nat /\ MaxPayload > 0 /\ StageSize \in Nat
         /\ StageSize >= 3 + MaxPayload
         /\ Tunnel!HdrFixed = 1 /\ Tunnel!LenCells = 2
BY DEF Tunnel!ConstantsOK, Tunnel!HdrFixed, Tunnel!LenCells

LEMMA Encoded ==
  ASSUME Tunnel!ConstantsOK, NEW f \in Tunnel!Frame
  PROVE  /\ Tunnel!Encode(f) \in Seq(Tunnel!Cell)
         /\ f.size \in 0 .. MaxPayload
         /\ Len(Tunnel!Encode(f)) = 3 + f.size
         /\ Tunnel!Encode(f)[1].n = 1 + f.size /\ Tunnel!Encode(f)[2].n = 0
         /\ Tunnel!Encode(f)[1].of = f
         /\ f \in Tunnel!Payload
<1>1. f \in Tunnel!Payload /\ f.size \in 0 .. MaxPayload
  BY TunnelNumbers DEF Tunnel!Frame, Tunnel!Payload, Tunnel!Lengths
<1> DEFINE c(i) == [of |-> f, pos |-> i,
                    n |-> IF i = 1 THEN 1 + f.size
                          ELSE IF i = 2 THEN 0 ELSE MaxPayload]
<1>2. Tunnel!Encode(f) = [i \in 1 .. 3 + f.size |-> c(i)]
  BY <1>1, TunnelNumbers DEF Tunnel!Encode
<1>3. \A i \in 1 .. 3 + f.size : c(i) \in Tunnel!Cell
  BY <1>1, TunnelNumbers DEF Tunnel!Cell
<1>4. 3 + f.size \in Nat /\ 1 \in 1 .. 3 + f.size /\ 2 \in 1 .. 3 + f.size
  BY <1>1, TunnelNumbers
<1>5. Tunnel!Encode(f) \in Seq(Tunnel!Cell) /\ Len(Tunnel!Encode(f)) = 3 + f.size
  <2> HIDE DEF c
  <2> QED
    BY <1>2, <1>3, <1>4
<1>6. Tunnel!Encode(f)[1] = c(1) /\ Tunnel!Encode(f)[2] = c(2)
  BY <1>2, <1>4
<1> QED
  BY <1>1, <1>5, <1>6

LEMMA CodesAre ==
  ASSUME Tunnel!ConstantsOK
  PROVE  Codes \in [Tunnel!Frame -> Seq(Tunnel!Cell)]
BY Encoded DEF Codes

(* The cells of frames are their codes, one after the other.               *)
LEMMA CellsJoin ==
  ASSUME Tunnel!ConstantsOK
  PROVE  Joins(Tunnel!Cells, Tunnel!Frame, Tunnel!Cell, Codes)
<1> DEFINE Value(g, fs) == IF fs = <<>> THEN <<>>
                           ELSE Tunnel!Encode(Head(fs)) \o g[Tail(fs)]
           Is(g) == g = [fs \in Seq(Tunnel!Frame) |-> Value(g, fs)]
<1>1. PICK join : Joins(join, Tunnel!Frame, Tunnel!Cell, Codes)
  BY CodesAre, JoinExists
<1>2. \A fs \in Seq(Tunnel!Frame) : join[fs] = Value(join, fs)
  <2> TAKE fs \in Seq(Tunnel!Frame)
  <2>1. fs # <<>> => Codes[Head(fs)] = Tunnel!Encode(Head(fs))
    BY TailIsShorter DEF Codes
  <2> QED
    BY <1>1, <2>1 DEF Joins
<1>3. Is(join)
  <2>1. join = [fs \in Seq(Tunnel!Frame) |-> join[fs]]
    BY <1>1 DEF Joins
  <2> HIDE DEF Value
  <2> QED
    BY <1>2, <2>1
<1>4. Is(Tunnel!Cells)
  <2> HIDE DEF Is
  <2>1. Tunnel!Cells = CHOOSE g : Is(g)
    BY DEF Tunnel!Cells, Is
  <2> QED
    BY <1>3, <2>1
<1> DEFINE cells == Tunnel!Cells
<1> HIDE DEF cells
<1>5. \A fs \in Seq(Tunnel!Frame) : cells[fs] = Value(cells, fs)
  BY <1>4 DEF cells
<1>6. \A fs \in Seq(Tunnel!Frame) :
        cells[fs] = IF fs = <<>> THEN <<>> ELSE Codes[Head(fs)] \o cells[Tail(fs)]
  <2> TAKE fs \in Seq(Tunnel!Frame)
  <2>1. fs # <<>> => Codes[Head(fs)] = Tunnel!Encode(Head(fs))
    BY TailIsShorter DEF Codes
  <2> QED
    BY <1>5, <2>1
<1>7. cells = [fs \in Seq(Tunnel!Frame) |-> cells[fs]]
  <2> HIDE DEF Value
  <2>1. cells = [fs \in Seq(Tunnel!Frame) |-> Value(cells, fs)]
    BY <1>4 DEF cells
  <2> QED
    BY <2>1
<1> DEFINE F == Tunnel!Frame
           code == Codes
<1>8. code \in [F -> Seq(Tunnel!Cell)]
  BY CodesAre
<1> HIDE DEF F, code
<1>9. /\ DOMAIN cells = Seq(F) /\ cells = [fs \in DOMAIN cells |-> cells[fs]]
      /\ \A fs \in Seq(F) :
           cells[fs] = IF fs = <<>> THEN <<>> ELSE code[Head(fs)] \o cells[Tail(fs)]
  BY <1>6, <1>7 DEF F, code
<1>10. Joins(cells, F, Tunnel!Cell, code)
  BY <1>8, <1>9, JoinsWhen
<1> QED
  BY <1>10 DEF cells, F, code

LEMMA CellsOfTwo ==
  ASSUME Tunnel!ConstantsOK, NEW fs \in Seq(Tunnel!Frame), NEW gs \in Seq(Tunnel!Frame)
  PROVE  /\ Tunnel!Cells[fs] \in Seq(Tunnel!Cell)
         /\ Tunnel!Cells[fs \o gs] = Tunnel!Cells[fs] \o Tunnel!Cells[gs]
<1>1. Joins(Tunnel!Cells, Tunnel!Frame, Tunnel!Cell, Codes)
  BY CellsJoin
<1>2. Splits(Tunnel!Cells, Tunnel!Frame)
  BY <1>1, JoinOfTwo
<1> QED
  BY <1>1, <1>2 DEF Joins, Splits

LEMMA CellsOfOne ==
  ASSUME Tunnel!ConstantsOK, NEW f \in Tunnel!Frame, NEW fs \in Seq(Tunnel!Frame)
  PROVE  /\ Tunnel!Cells[<<>>] = <<>>
         /\ <<f>> \o fs \in Seq(Tunnel!Frame) /\ <<f>> \in Seq(Tunnel!Frame)
         /\ Tunnel!Cells[<<f>> \o fs] = Tunnel!Encode(f) \o Tunnel!Cells[fs]
         /\ Tunnel!Cells[<<f>>] = Tunnel!Encode(f)
<1>1. Codes[f] = Tunnel!Encode(f) /\ Tunnel!Encode(f) \in Seq(Tunnel!Cell)
  BY Encoded DEF Codes
<1>2. Extends(Tunnel!Cells, Tunnel!Frame, Codes)
  BY CellsJoin, JoinOfOne
<1> DEFINE cells == Tunnel!Cells
           F == Tunnel!Frame
           code == Codes
<1>3. Extends(cells, F, code) /\ fs \in Seq(F) /\ f \in F
  BY <1>2
<1> HIDE DEF cells, F, code
<1>4. /\ cells[<<>>] = <<>> /\ <<f>> \o fs \in Seq(F)
      /\ cells[<<f>> \o fs] = code[f] \o cells[fs]
  BY <1>3 DEF Extends
<1>5. /\ <<f>> \in Seq(F) /\ <<>> \in Seq(F) /\ <<f>> \o <<>> = <<f>>
  BY <1>3, ConcatEmptySeq, EmptySeq
<1>6. cells[<<f>> \o <<>>] = code[f] \o cells[<<>>]
  BY <1>3, <1>5 DEF Extends
<1>7. Tunnel!Encode(f) \o <<>> = Tunnel!Encode(f)
  BY <1>1, ConcatEmptySeq
<1>8. cells[<<f>> \o fs] = Tunnel!Encode(f) \o cells[fs]
  BY <1>1, <1>4 DEF code
<1>9. cells[<<f>>] = Tunnel!Encode(f)
  BY <1>1, <1>4, <1>5, <1>6, <1>7 DEF code
<1> QED
  BY <1>4, <1>5, <1>8, <1>9 DEF cells, F

(* A stage with a complete frame is cut behind it.                         *)
Onwards(s) == SubSeq(s, Tunnel!Total(s) + 1, Len(s))
Front(s) == SubSeq(s, 1, Tunnel!Total(s))
Drained == [frames : Seq(Tunnel!Payload), rest : Seq(Tunnel!Cell)]

LEMMA FrameInFront ==
  ASSUME Tunnel!ConstantsOK, NEW s \in Seq(Tunnel!Cell), Tunnel!HasFrame(s)
  PROVE  /\ Tunnel!Total(s) \in 2 .. Len(s) /\ Len(s) \in Nat
         /\ Onwards(s) \in Seq(Tunnel!Cell) /\ Len(Onwards(s)) < Len(s)
         /\ Front(s) \in Seq(Tunnel!Cell)
         /\ Tunnel!Decode(Front(s)) \in Tunnel!Payload
<1>1. Len(s) \in Nat /\ Len(s) >= 2
  BY TunnelNumbers, LenProperties DEF Tunnel!HasFrame
<1>2. s[1] \in Tunnel!Cell /\ s[2] \in Tunnel!Cell
  BY <1>1, ElementOfSeq
<1>3. s[1].n \in Nat /\ s[2].n \in Nat
  BY <1>2, TunnelNumbers, SMTT(30) DEF Tunnel!Cell
<1>4. Tunnel!Total(s) \in 2 .. Len(s)
  BY <1>1, <1>3, TunnelNumbers, SMTT(30) DEF Tunnel!HasFrame, Tunnel!Total, Tunnel!Length
<1>5. /\ Front(s) \in Seq(Tunnel!Cell) /\ Len(Front(s)) = Tunnel!Total(s)
      /\ Onwards(s) \in Seq(Tunnel!Cell) /\ Len(Onwards(s)) = Len(s) - Tunnel!Total(s)
  BY <1>1, <1>4, CutInTwo DEF Front, Onwards
<1>6. Front(s)[1] \in Tunnel!Cell
  BY <1>4, <1>5, ElementOfSeq
<1>7. Tunnel!Garbled \in Tunnel!Payload
  BY TunnelNumbers DEF Tunnel!Garbled, Tunnel!Payload, Tunnel!Lengths
<1>8. Tunnel!Decode(Front(s)) \in Tunnel!Payload
  <2>1. Front(s)[1].of \in Tunnel!Payload
    BY <1>6 DEF Tunnel!Cell
  <2> QED
    BY <1>7, <2>1 DEF Tunnel!Decode
<1> QED
  BY <1>1, <1>4, <1>5, <1>8

(* What draining a stage yields.                                           *)
After(s, more) ==
  [frames |-> <<Tunnel!Decode(Front(s))>> \o more.frames, rest |-> more.rest]

LEMMA OneField ==
  ASSUME NEW F, NEW R, NEW more \in [frames : F, rest : R], NEW x
  PROVE  [more EXCEPT !.frames = x] = [frames |-> x, rest |-> more.rest]
OBVIOUS

LEMMA AfterMore ==
  ASSUME NEW s, NEW more \in Drained
  PROVE  [more EXCEPT !.frames = <<Tunnel!Decode(SubSeq(s, 1, Tunnel!Total(s)))>> \o @]
           = After(s, more)
<1> DEFINE x == <<Tunnel!Decode(SubSeq(s, 1, Tunnel!Total(s)))>> \o more.frames
<1>1. more \in [frames : Seq(Tunnel!Payload), rest : Seq(Tunnel!Cell)]
  BY DEF Drained
<1>2. x = <<Tunnel!Decode(Front(s))>> \o more.frames
  BY DEF Front
<1> HIDE DEF x
<1>3. [more EXCEPT !.frames = x] = [frames |-> x, rest |-> more.rest]
  BY <1>1, OneField
<1> QED
  BY <1>2, <1>3 DEF x, After

LEMMA DrainEquation ==
  ASSUME Tunnel!ConstantsOK
  PROVE  /\ Tunnel!Drain \in [Seq(Tunnel!Cell) -> Drained]
         /\ \A s \in Seq(Tunnel!Cell) :
              Tunnel!Drain[s] = IF ~Tunnel!HasFrame(s) THEN [frames |-> <<>>, rest |-> s]
                                ELSE After(s, Tunnel!Drain[Onwards(s)])
<1> DEFINE D == Seq(Tunnel!Cell)
           T == Drained
           rank == [d \in D |-> Len(d)]
           Rec == {d \in D : Tunnel!HasFrame(d)}
           on == [d \in Rec |-> Onwards(d)]
           stop == [d \in D |-> [frames |-> <<>>, rest |-> d]]
           step == [d \in D |-> [t \in T |-> IF d \in Rec THEN After(d, t) ELSE t]]
           More(g, s) == g[SubSeq(s, Tunnel!Total(s) + 1, Len(s))]
           Value(g, s) ==
             IF ~Tunnel!HasFrame(s) THEN [frames |-> <<>>, rest |-> s]
             ELSE [More(g, s) EXCEPT
                     !.frames = <<Tunnel!Decode(SubSeq(s, 1, Tunnel!Total(s)))>> \o @]
           Is(g) == g = [s \in Seq(Tunnel!Cell) |-> Value(g, s)]
<1>1. rank \in [D -> Nat] /\ Rec \subseteq D /\ on \in [Rec -> D]
  BY FrameInFront, LenProperties
<1>2. \A d \in Rec : rank[on[d]] < rank[d]
  BY FrameInFront
<1>3. stop \in [D -> T]
  BY EmptySeq DEF Drained
<1>4. \A d \in Rec, t \in T : After(d, t) \in T
  <2> TAKE d \in Rec, t \in T
  <2>1. Tunnel!Decode(Front(d)) \in Tunnel!Payload
    BY FrameInFront
  <2>2. t.frames \in Seq(Tunnel!Payload) /\ t.rest \in Seq(Tunnel!Cell)
    BY DEF Drained
  <2>3. <<Tunnel!Decode(Front(d))>> \o t.frames \in Seq(Tunnel!Payload)
    BY <2>1, <2>2, ConcatProperties
  <2> QED
    BY <2>2, <2>3 DEF After, Drained
<1>5. step \in [D -> [T -> T]]
  <2> HIDE DEF D, T, Rec
  <2> QED
    BY <1>4
<1>6. PICK f \in [D -> T] :
        \A d \in D : f[d] = IF d \in Rec THEN step[d][f[on[d]]] ELSE stop[d]
  <2>1. Recursive(D, T, rank, Rec, on, stop, step)
    <3> HIDE DEF D, T, rank, Rec, on, stop, step
    <3> QED
      BY <1>1, <1>2, <1>3, <1>5 DEF Recursive
  <2> HIDE DEF D, T, rank, Rec, on, stop, step
  <2>2. PICK f : Solves(f, D, T, Rec, on, stop, step)
    BY <2>1, Recursion
  <2> QED
    BY <2>2 DEF Solves
<1>7. \A s \in D : f[s] = Value(f, s)
  <2> TAKE s \in D
  <2>1. CASE s \notin Rec
    BY <1>6, <2>1
  <2>2. CASE s \in Rec
    <3>1. f[s] = step[s][f[on[s]]] /\ on[s] = Onwards(s) /\ f[on[s]] \in T
      BY <1>1, <1>6, <2>2
    <3>2. step[s][f[on[s]]] = After(s, f[on[s]])
      <4> HIDE DEF T, Rec, on
      <4> QED
        BY <2>2, <3>1
    <3>3. More(f, s) = f[on[s]]
      BY <3>1 DEF Onwards
    <3> DEFINE more == More(f, s)
    <3>4. more \in T
      BY <3>1, <3>3
    <3>5. [more EXCEPT !.frames = <<Tunnel!Decode(SubSeq(s, 1, Tunnel!Total(s)))>> \o @]
            = After(s, more)
      <4> HIDE DEF more
      <4> QED
        BY <3>4, AfterMore
    <3> QED
      BY <2>2, <3>1, <3>2, <3>3, <3>5
  <2> QED
    BY <2>1, <2>2
<1>8. Is(f)
  <2>1. f = [s \in Seq(Tunnel!Cell) |-> f[s]]
    BY <1>6
  <2> HIDE DEF Value
  <2> QED
    BY <1>7, <2>1
<1>9. Is(Tunnel!Drain)
  <2>1. Tunnel!Drain = CHOOSE g : Is(g)
    BY SMTT(30) DEF Tunnel!Drain
  <2> HIDE DEF Is
  <2> QED
    BY <1>8, <2>1
<1> DEFINE drain == Tunnel!Drain
<1> HIDE DEF drain
<1>10. \A s \in D : drain[s] = Value(drain, s)
  BY <1>9 DEF drain
<1>11. drain = [s \in D |-> drain[s]]
  <2> HIDE DEF Value
  <2>1. drain = [s \in D |-> Value(drain, s)]
    BY <1>9 DEF drain
  <2> QED
    BY <2>1
<1> DEFINE Fine(s) == /\ drain[s] \in T
                      /\ Tunnel!HasFrame(s) => drain[s] = After(s, drain[Onwards(s)])
           N == {n \in Nat : \A s \in D : Len(s) <= n => Fine(s)}
<1>12. ASSUME NEW s \in D, Tunnel!HasFrame(s), drain[Onwards(s)] \in T
       PROVE  Fine(s)
  <2> DEFINE more == More(drain, s)
  <2>1. more \in T /\ more = drain[Onwards(s)]
    BY <1>12 DEF Onwards
  <2>2. [more EXCEPT !.frames = <<Tunnel!Decode(SubSeq(s, 1, Tunnel!Total(s)))>> \o @]
          = After(s, more)
    <3> HIDE DEF more
    <3> QED
      BY <2>1, AfterMore
  <2>3. drain[s] = After(s, drain[Onwards(s)])
    BY <1>10, <1>12, <2>1, <2>2
  <2>4. After(s, drain[Onwards(s)]) \in T
    BY <1>4, <1>12
  <2> QED
    BY <2>3, <2>4
<1>13. ASSUME NEW s \in D, ~Tunnel!HasFrame(s)
       PROVE  Fine(s) /\ drain[s] = [frames |-> <<>>, rest |-> s]
  <2>1. drain[s] = [frames |-> <<>>, rest |-> s]
    BY <1>10, <1>13
  <2> QED
    BY <1>13, <2>1, EmptySeq DEF Drained
<1>14. \A n \in Nat : n \in N
  <2> HIDE DEF Fine
  <2>1. 0 \in N
    <3> SUFFICES ASSUME NEW s \in D, Len(s) <= 0 PROVE Fine(s)
      OBVIOUS
    <3>1. ~Tunnel!HasFrame(s)
      <4>1. Tunnel!HasFrame(s) => Tunnel!Total(s) \in 2 .. Len(s)
        BY FrameInFront
      <4> QED
        BY <4>1, LenProperties
    <3> QED
      BY <1>13, <3>1
  <2>2. ASSUME NEW n \in Nat, n \in N PROVE n + 1 \in N
    <3> SUFFICES ASSUME NEW s \in D, Len(s) <= n + 1 PROVE Fine(s)
      OBVIOUS
    <3>1. CASE Tunnel!HasFrame(s)
      <4>1. Onwards(s) \in D /\ Len(Onwards(s)) <= n
        BY <3>1, FrameInFront, LenProperties
      <4>2. drain[Onwards(s)] \in T
        BY <2>2, <4>1 DEF Fine
      <4> QED
        BY <1>12, <3>1, <4>2
    <3> QED
      BY <1>13, <3>1
  <2> HIDE DEF N
  <2> QED
    BY <2>1, <2>2, SetInduction
<1>15. \A s \in D : Fine(s)
  <2> TAKE s \in D
  <2>1. Len(s) \in Nat /\ Len(s) \in N
    BY <1>14, LenProperties
  <2> HIDE DEF Fine
  <2> QED
    BY <2>1
<1>16. drain \in [D -> T]
  BY <1>11, <1>15
<1> QED
  BY <1>13, <1>15, <1>16 DEF drain

(* Echoes come back one by one.                                            *)
Answers == [p \in Tunnel!Payload |-> IF p.ch = "echo" THEN Tunnel!Fits(p) ELSE <<>>]

LEMMA AnswersAre ==
  ASSUME Tunnel!ConstantsOK
  PROVE  Answers \in [Tunnel!Payload -> Seq(Tunnel!Frame)]
<1>1. ASSUME NEW p \in Tunnel!Payload
      PROVE  (IF p.ch = "echo" THEN Tunnel!Fits(p) ELSE <<>>) \in Seq(Tunnel!Frame)
  <2>1. p.ch = "echo" /\ p.size <= MaxPayload => p \in Tunnel!Frame
    BY DEF Tunnel!Frame
  <2> QED
    BY <2>1, EmptySeq DEF Tunnel!Fits
<1> QED
  BY <1>1 DEF Answers

LEMMA EchoesJoin ==
  ASSUME Tunnel!ConstantsOK
  PROVE  Joins(Tunnel!Echoes, Tunnel!Payload, Tunnel!Frame, Answers)
<1> DEFINE F == Tunnel!Payload
           C == Tunnel!Frame
           code == Answers
           Value(g, ps) ==
             IF ps = <<>> THEN <<>>
             ELSE (IF Head(ps).ch = "echo" THEN Tunnel!Fits(Head(ps)) ELSE <<>>)
                    \o g[Tail(ps)]
           Is(g) == g = [fs \in Seq(F) |-> Value(g, fs)]
<1>1. PICK join : Joins(join, F, C, code)
  BY AnswersAre, JoinExists
<1>2. \A ps \in Seq(F) : ps # <<>> =>
        code[Head(ps)] = IF Head(ps).ch = "echo" THEN Tunnel!Fits(Head(ps)) ELSE <<>>
  BY TailIsShorter DEF Answers
<1>3. Is(join)
  <2>1. \A ps \in Seq(F) : join[ps] = Value(join, ps)
    BY <1>1, <1>2 DEF Joins
  <2>2. join = [ps \in Seq(F) |-> join[ps]]
    BY <1>1 DEF Joins
  <2> HIDE DEF Value
  <2> QED
    BY <2>1, <2>2
<1>4. Is(Tunnel!Echoes)
  <2> HIDE DEF Is
  <2>1. Tunnel!Echoes = CHOOSE g : Is(g)
    BY DEF Tunnel!Echoes, Is
  <2> QED
    BY <1>3, <2>1
<1> DEFINE echoes == Tunnel!Echoes
<1> HIDE DEF echoes
<1>5. echoes = [ps \in Seq(F) |-> echoes[ps]]
      /\ \A ps \in Seq(F) : echoes[ps] = Value(echoes, ps)
  <2> HIDE DEF Value
  <2>1. echoes = [ps \in Seq(F) |-> Value(echoes, ps)]
    BY <1>4 DEF echoes
  <2> QED
    BY <2>1
<1>6. \A ps \in Seq(F) :
        echoes[ps] = IF ps = <<>> THEN <<>> ELSE code[Head(ps)] \o echoes[Tail(ps)]
  BY <1>2, <1>5
<1>7. code \in [F -> Seq(C)]
  BY AnswersAre
<1> HIDE DEF F, C, code
<1>8. DOMAIN echoes = Seq(F) /\ echoes = [ps \in DOMAIN echoes |-> echoes[ps]]
  BY <1>5
<1>9. Joins(echoes, F, C, code)
  BY <1>6, <1>7, <1>8, JoinsWhen
<1> QED
  BY <1>9 DEF echoes, F, C, code

LEMMA HeadAndTail ==
  ASSUME NEW S, NEW s \in Seq(S), s # <<>>
  PROVE  s = <<Head(s)>> \o Tail(s)
<1> DEFINE h == Head(s)
           r == Tail(s)
<1>1. /\ h = s[1] /\ h \in S /\ r \in Seq(S) /\ Len(s) \in Nat \ {0}
      /\ Len(r) = Len(s) - 1 /\ \A i \in 1 .. Len(r) : r[i] = s[i + 1]
  BY HeadTailProperties, LenProperties, EmptySeq
<1> HIDE DEF h, r
<1>2. <<h>> \in Seq(S) /\ Len(<<h>>) = 1 /\ <<h>>[1] = h
  BY <1>1
<1>3. /\ <<h>> \o r \in Seq(S) /\ Len(<<h>> \o r) = 1 + Len(r)
      /\ \A i \in 1 .. 1 + Len(r) : (<<h>> \o r)[i] = IF i <= 1 THEN h ELSE r[i - 1]
  BY <1>1, <1>2, ConcatProperties
<1>4. \A i \in 1 .. Len(s) : s[i] = (<<h>> \o r)[i]
  BY <1>1, <1>3
<1>5. s = <<h>> \o r
  BY <1>1, <1>3, <1>4, SeqEqual, SMTT(30)
<1> QED
  BY <1>5 DEF h, r

(* Where the stream is cut, the stage holds whole frames and the start of  *)
(* the next one.                                                           *)
CutAt(s, t, fs, gs, hs) ==
  /\ fs = gs \o hs
  /\ Tunnel!Drain[s].frames = gs
  /\ Tunnel!Drain[s].rest \in Seq(Tunnel!Cell)
  /\ Tunnel!Drain[s].rest \o t = Tunnel!Cells[hs]
  /\ ~Tunnel!BadLength(Tunnel!Drain[s].rest)
  /\ Len(Tunnel!Drain[s].rest) < 3 + MaxPayload

CutBetween(s, t, fs) == \E gs, hs \in Seq(Tunnel!Frame) : CutAt(s, t, fs, gs, hs)

LEMMA CutInFrame ==
  ASSUME Tunnel!ConstantsOK, NEW f \in Tunnel!Frame, NEW tl \in Seq(Tunnel!Frame),
         NEW s \in Seq(Tunnel!Cell), NEW t \in Seq(Tunnel!Cell),
         s \o t = Tunnel!Encode(f) \o Tunnel!Cells[tl],
         Len(s) < Len(Tunnel!Encode(f))
  PROVE  CutBetween(s, t, <<f>> \o tl)
<1> DEFINE e == Tunnel!Encode(f)
           c == Tunnel!Cells[tl]
<1>1. /\ e \in Seq(Tunnel!Cell) /\ c \in Seq(Tunnel!Cell) /\ f.size \in 0 .. MaxPayload
      /\ Len(e) = 3 + f.size /\ e[1].n = 1 + f.size /\ e[2].n = 0
      /\ <<f>> \o tl \in Seq(Tunnel!Frame) /\ Tunnel!Cells[<<f>> \o tl] = e \o c
  BY Encoded, CellsOfOne, CellsOfTwo
<1> HIDE DEF e, c
<1>2. s \o t = e \o c /\ Len(s) < Len(e)
  BY DEF e, c
<1>3. Len(s) \in Nat /\ \A i \in 1 .. Len(s) : s[i] = e[i]
  <2>1. Overlap(s, t, e, c)
    BY <1>1, <1>2, SamePrefix
  <2>2. Len(s) \in Nat /\ Len(e) \in Nat
    BY <1>1, LenProperties
  <2>3. \A i \in 1 .. Len(s) : i <= Len(e)
    BY <1>2, <2>2
  <2> QED
    BY <2>1, <2>2, <2>3 DEF Overlap
<1>4. Len(s) >= 2 => Tunnel!Length(s) = 1 + f.size
  <2>1. Len(s) >= 2 => 1 \in 1 .. Len(s) /\ 2 \in 1 .. Len(s)
    BY <1>3
  <2>2. Len(s) >= 2 => s[1] = e[1] /\ s[2] = e[2]
    BY <1>3, <2>1
  <2>3. Len(s) >= 2 => s[1].n = 1 + f.size /\ s[2].n = 0
    BY <1>1, <2>2
  <2>4. 1 + f.size + 0 = 1 + f.size
    BY <1>1
  <2> QED
    BY <2>3, <2>4 DEF Tunnel!Length
<1>5. ~Tunnel!HasFrame(s) /\ ~Tunnel!BadLength(s) /\ Len(s) < 3 + MaxPayload
  BY <1>1, <1>2, <1>3, <1>4, TunnelNumbers, SMTT(30)
     DEF Tunnel!HasFrame, Tunnel!BadLength, Tunnel!Total
<1>6. Tunnel!Drain[s] = [frames |-> <<>>, rest |-> s]
  BY <1>5, DrainEquation
<1>7. <<>> \in Seq(Tunnel!Frame) /\ <<f>> \o tl = <<>> \o (<<f>> \o tl)
  BY <1>1, EmptySeq, ConcatEmptySeq
<1> DEFINE d == Tunnel!Drain[s]
           fs == <<f>> \o tl
<1>8. d.frames = <<>> /\ d.rest = s
  BY <1>6
<1>9. fs = <<>> \o fs /\ Tunnel!Cells[fs] = s \o t
  BY <1>1, <1>2, <1>7
<1> HIDE DEF d, fs
<1>10. CutAt(s, t, fs, <<>>, fs)
  BY <1>5, <1>8, <1>9 DEF CutAt, d
<1> QED
  BY <1>1, <1>7, <1>10 DEF CutBetween, fs

LEMMA CutBehindFrame ==
  ASSUME Tunnel!ConstantsOK, NEW f \in Tunnel!Frame, NEW tl \in Seq(Tunnel!Frame),
         NEW s \in Seq(Tunnel!Cell), NEW t \in Seq(Tunnel!Cell),
         s \o t = Tunnel!Encode(f) \o Tunnel!Cells[tl],
         Len(s) >= Len(Tunnel!Encode(f)),
         \A r \in Seq(Tunnel!Cell) :
           r \o t = Tunnel!Cells[tl] => CutBetween(r, t, tl)
  PROVE  CutBetween(s, t, <<f>> \o tl)
<1> DEFINE e == Tunnel!Encode(f)
           c == Tunnel!Cells[tl]
<1>1. /\ e \in Seq(Tunnel!Cell) /\ c \in Seq(Tunnel!Cell) /\ f.size \in 0 .. MaxPayload
      /\ Len(e) = 3 + f.size /\ e[1].n = 1 + f.size /\ e[2].n = 0 /\ e[1].of = f
  BY Encoded, CellsOfTwo
<1>2. s \o t = e \o c /\ Len(s) >= Len(e)
  OBVIOUS
<1> HIDE DEF e, c
<1>3. Len(s) \in Nat /\ \A i \in 1 .. Len(s) : i <= Len(e) => s[i] = e[i]
  <2>1. Overlap(s, t, e, c)
    BY <1>1, <1>2, SamePrefix
  <2> QED
    BY <1>1, <1>2, <2>1, LenProperties DEF Overlap
<1>4. Tunnel!Length(s) = 1 + f.size /\ Tunnel!Total(s) = Len(e)
  <2>1. 1 \in 1 .. Len(s) /\ 2 \in 1 .. Len(s) /\ 1 <= Len(e) /\ 2 <= Len(e)
    BY <1>1, <1>2, <1>3, SMTT(30)
  <2>2. s[1] = e[1] /\ s[2] = e[2]
    BY <1>3, <2>1
  <2>3. Tunnel!Length(s) = 1 + f.size
    BY <1>1, <2>2, SMTT(30) DEF Tunnel!Length
  <2> QED
    BY <1>1, <2>3, TunnelNumbers DEF Tunnel!Total
<1>5. Tunnel!HasFrame(s)
  <2>1. /\ Len(s) >= 2 /\ Len(s) >= Tunnel!Total(s)
        /\ ~(Tunnel!Length(s) > 1 + MaxPayload)
    <3>1. Len(e) \in Nat /\ Len(s) \in Nat /\ Len(e) <= Len(s) /\ Len(e) >= 3
      BY <1>1, <1>2, <1>3
    <3>2. Len(s) >= 2 /\ Len(s) >= Tunnel!Total(s)
      BY <1>4, <3>1
    <3>3. f.size \in Nat /\ f.size <= MaxPayload /\ MaxPayload \in Nat
      BY <1>1, TunnelNumbers
    <3>4. ~(1 + f.size > 1 + MaxPayload)
      BY <3>3
    <3> QED
      BY <1>4, <3>2, <3>4
  <2> QED
    BY <2>1, TunnelNumbers DEF Tunnel!HasFrame, Tunnel!BadLength
<1>6. Front(s) = e /\ Onwards(s) \o t = c
  <2>1. Overlap(s, t, e, c)
    BY <1>1, <1>2, SamePrefix
  <2> QED
    BY <1>2, <1>4, <2>1 DEF Overlap, Front, Onwards
<1>7. Tunnel!Decode(Front(s)) = f
  BY <1>1, <1>6 DEF Tunnel!Decode, e
<1>8. Onwards(s) \in Seq(Tunnel!Cell)
  BY <1>5, FrameInFront
<1>9. CutBetween(Onwards(s), t, tl)
  BY <1>6, <1>8 DEF c
<1>10. PICK gs \in Seq(Tunnel!Frame), hs \in Seq(Tunnel!Frame) :
         CutAt(Onwards(s), t, tl, gs, hs)
  BY <1>9 DEF CutBetween
<1>11. Tunnel!Drain[s] = After(s, Tunnel!Drain[Onwards(s)])
  BY <1>5, DrainEquation
<1> DEFINE d == Tunnel!Drain[s]
           m == Tunnel!Drain[Onwards(s)]
<1>12. d.frames = <<f>> \o m.frames /\ d.rest = m.rest
  BY <1>7, <1>11, SMTT(30) DEF After
<1> HIDE DEF d, m
<1>13. m.frames = gs /\ tl = gs \o hs
  BY <1>10 DEF CutAt, m
<1>14. <<f>> \o gs \in Seq(Tunnel!Frame) /\ <<f>> \o tl = (<<f>> \o gs) \o hs
  <2>1. <<f>> \in Seq(Tunnel!Frame)
    BY CellsOfOne
  <2>2. (<<f>> \o gs) \o hs = <<f>> \o (gs \o hs)
    BY <1>10, <2>1, ConcatAssociative, SMTT(30)
  <2>3. <<f>> \o gs \in Seq(Tunnel!Frame)
    BY <1>10, <2>1, ConcatProperties
  <2> QED
    BY <1>13, <2>2, <2>3
<1>15. CutAt(s, t, <<f>> \o tl, <<f>> \o gs, hs)
  BY <1>10, <1>12, <1>13, <1>14 DEF CutAt, d, m
<1> QED
  BY <1>10, <1>14, <1>15 DEF CutBetween

LEMMA DrainCut ==
  ASSUME Tunnel!ConstantsOK, NEW fs \in Seq(Tunnel!Frame),
         NEW s \in Seq(Tunnel!Cell), NEW t \in Seq(Tunnel!Cell),
         s \o t = Tunnel!Cells[fs]
  PROVE  CutBetween(s, t, fs)
<1> DEFINE Q == {gs \in Seq(Tunnel!Frame) :
                   \A r, u \in Seq(Tunnel!Cell) :
                     r \o u = Tunnel!Cells[gs] => CutBetween(r, u, gs)}
<1>1. <<>> \in Q
  <2> SUFFICES ASSUME NEW r \in Seq(Tunnel!Cell), NEW u \in Seq(Tunnel!Cell),
                      r \o u = Tunnel!Cells[<<>>]
               PROVE  CutBetween(r, u, <<>>)
    BY EmptySeq
  <2>1. Tunnel!Cells[<<>>] = <<>>
    BY CellsJoin, EmptySeq DEF Joins
  <2>2. r = <<>>
    <3>1. Len(r \o u) = 0
      BY <2>1
    <3>2. Len(r) \in Nat /\ Len(u) \in Nat /\ Len(r \o u) = Len(r) + Len(u)
      BY ConcatProperties, LenProperties
    <3>3. Len(r) = 0
      BY <3>1, <3>2
    <3> QED
      BY <3>3, EmptySeq
  <2>3. ~Tunnel!HasFrame(<<>>) /\ ~Tunnel!BadLength(<<>>)
    BY TunnelNumbers DEF Tunnel!HasFrame, Tunnel!BadLength
  <2>4. Tunnel!Drain[<<>>] = [frames |-> <<>>, rest |-> <<>>]
    BY <2>2, <2>3, DrainEquation
  <2> DEFINE d == Tunnel!Drain[<<>>]
             nil == <<>>
  <2>5. d.frames = nil /\ d.rest = nil /\ nil \in Seq(Tunnel!Frame) /\ nil = nil \o nil
        /\ Len(nil) = 0 /\ ~Tunnel!BadLength(nil)
    BY <2>3, <2>4, EmptySeq, ConcatEmptySeq
  <2>6. r = nil /\ nil \o u = Tunnel!Cells[nil] /\ d = Tunnel!Drain[nil]
    BY <2>2
  <2> HIDE DEF d, nil
  <2>7. /\ d.frames = nil /\ d.rest \in Seq(Tunnel!Cell)
        /\ d.rest \o u = Tunnel!Cells[nil]
        /\ ~Tunnel!BadLength(d.rest) /\ Len(d.rest) < 3 + MaxPayload
    BY <2>2, <2>5, <2>6, TunnelNumbers
  <2>8. CutAt(nil, u, nil, nil, nil)
    BY <2>5, <2>6, <2>7 DEF CutAt
  <2>9. CutBetween(r, u, nil)
    BY <2>5, <2>6, <2>8 DEF CutBetween
  <2> QED
    BY <2>9 DEF nil
<1>2. ASSUME NEW gs \in Seq(Tunnel!Frame), gs # <<>>, Tail(gs) \in Q PROVE gs \in Q
  <2> DEFINE f == Head(gs)
             tl == Tail(gs)
  <2>1. f \in Tunnel!Frame /\ tl \in Seq(Tunnel!Frame) /\ gs = <<f>> \o tl
    <3>1. f \in Tunnel!Frame /\ tl \in Seq(Tunnel!Frame)
      BY <1>2, TailIsShorter
    <3> QED
      BY <1>2, <3>1, HeadAndTail
  <2>2. tl \in Q
    BY <1>2
  <2> HIDE DEF f, tl
  <2> SUFFICES ASSUME NEW r \in Seq(Tunnel!Cell), NEW u \in Seq(Tunnel!Cell),
                      r \o u = Tunnel!Cells[gs]
               PROVE  CutBetween(r, u, gs)
    OBVIOUS
  <2>3. r \o u = Tunnel!Encode(f) \o Tunnel!Cells[tl]
    BY <2>1, CellsOfOne
  <2>4. CASE Len(r) < Len(Tunnel!Encode(f))
    BY <2>1, <2>3, <2>4, CutInFrame
  <2>5. CASE Len(r) >= Len(Tunnel!Encode(f))
    <3>1. \A x \in Seq(Tunnel!Cell) : x \o u = Tunnel!Cells[tl] => CutBetween(x, u, tl)
      BY <2>2
    <3> QED
      BY <2>1, <2>3, <2>5, <3>1, CutBehindFrame
  <2>6. Len(r) \in Nat /\ Len(Tunnel!Encode(f)) \in Nat
    BY <2>1, Encoded, LenProperties
  <2> QED
    BY <2>4, <2>5, <2>6
<1> HIDE DEF Q
<1>3. fs \in Q
  BY <1>1, <1>2, SeqInduction
<1> QED
  BY <1>3 DEF Q

(* What one direction carries: the frames that have not come out are those *)
(* whose cells are in the far stage and on the wire.                       *)
Carried(sn, rc, stage, wire) ==
  \E hs \in Seq(Tunnel!Frame) : sn = rc \o hs /\ stage \o wire = Tunnel!Cells[hs]

LEMMA CarriedOn ==
  ASSUME Tunnel!ConstantsOK, NEW sn \in Seq(Tunnel!Frame), NEW rc \in Seq(Tunnel!Frame),
         NEW stage \in Seq(Tunnel!Cell), NEW wire \in Seq(Tunnel!Cell),
         NEW es \in Seq(Tunnel!Frame), Carried(sn, rc, stage, wire)
  PROVE  Carried(sn \o es, rc, stage, wire \o Tunnel!Cells[es])
<1>1. PICK hs \in Seq(Tunnel!Frame) : sn = rc \o hs /\ stage \o wire = Tunnel!Cells[hs]
  BY DEF Carried
<1>2. /\ Tunnel!Cells[es] \in Seq(Tunnel!Cell)
      /\ Tunnel!Cells[hs \o es] = Tunnel!Cells[hs] \o Tunnel!Cells[es]
  BY CellsOfTwo
<1>3. hs \o es \in Seq(Tunnel!Frame)
  BY ConcatProperties
<1>4. sn \o es = rc \o (hs \o es)
  <2> DEFINE F == Tunnel!Frame
  <2>1. rc \in Seq(F) /\ hs \in Seq(F) /\ es \in Seq(F)
    BY <1>1
  <2> HIDE DEF F
  <2>2. (rc \o hs) \o es = rc \o (hs \o es)
    BY <2>1, ConcatAssociative, SMTT(30)
  <2> QED
    BY <1>1, <2>2
<1> DEFINE c == Tunnel!Cells[es]
<1>5. (stage \o wire) \o c = stage \o (wire \o c)
  <2>1. stage \in Seq(Tunnel!Cell) /\ wire \in Seq(Tunnel!Cell) /\ c \in Seq(Tunnel!Cell)
    BY <1>2
  <2> HIDE DEF c
  <2> QED
    BY <2>1, ConcatAssociative, SMTT(30)
<1>6. stage \o (wire \o c) = Tunnel!Cells[hs \o es]
  BY <1>1, <1>2, <1>5
<1> QED
  BY <1>3, <1>4, <1>6 DEF Carried

(* What a chunk of the wire completes.                                     *)
Chunk(stage, wire, k) == Tunnel!Drain[stage \o SubSeq(wire, 1, k)]

Delivers(sn, rc, stage, wire, k, gs) ==
  /\ Chunk(stage, wire, k).frames = gs
  /\ \E hs \in Seq(Tunnel!Frame) : sn = (rc \o gs) \o hs
  /\ Carried(sn, rc \o gs, Chunk(stage, wire, k).rest,
             SubSeq(wire, k + 1, Len(wire)))
  /\ Chunk(stage, wire, k).rest \in Seq(Tunnel!Cell)
  /\ ~Tunnel!BadLength(Chunk(stage, wire, k).rest)
  /\ Len(Chunk(stage, wire, k).rest) < 3 + MaxPayload
  /\ SubSeq(wire, k + 1, Len(wire)) \in Seq(Tunnel!Cell)
  /\ rc \o gs \in Seq(Tunnel!Frame)

LEMMA Threefold ==
  ASSUME NEW rc \in Seq(Tunnel!Frame), NEW gs \in Seq(Tunnel!Frame),
         NEW hs \in Seq(Tunnel!Frame)
  PROVE  (rc \o gs) \o hs = rc \o (gs \o hs)
BY ConcatAssociative

LEMMA CarriedOut ==
  ASSUME Tunnel!ConstantsOK, NEW sn \in Seq(Tunnel!Frame), NEW rc \in Seq(Tunnel!Frame),
         NEW stage \in Seq(Tunnel!Cell), NEW wire \in Seq(Tunnel!Cell),
         NEW k \in 1 .. Len(wire), Carried(sn, rc, stage, wire)
  PROVE  \E gs \in Seq(Tunnel!Frame) : Delivers(sn, rc, stage, wire, k, gs)
<1> DEFINE a == SubSeq(wire, 1, k)
           b == SubSeq(wire, k + 1, Len(wire))
           d == Chunk(stage, wire, k)
<1>1. PICK fs \in Seq(Tunnel!Frame) : sn = rc \o fs /\ stage \o wire = Tunnel!Cells[fs]
  BY DEF Carried
<1>2. a \in Seq(Tunnel!Cell) /\ b \in Seq(Tunnel!Cell) /\ wire = a \o b
  <2>1. k \in 0 .. Len(wire)
    BY LenProperties
  <2> QED
    BY <2>1, CutInTwo
<1>3. d = Tunnel!Drain[stage \o a]
  BY DEF Chunk
<1> HIDE DEF a, b, d
<1>4. (stage \o a) \o b = Tunnel!Cells[fs] /\ stage \o a \in Seq(Tunnel!Cell)
  <2>1. (stage \o a) \o b = stage \o (a \o b)
    BY <1>2, ConcatAssociative, SMTT(30)
  <2> QED
    BY <1>1, <1>2, <2>1, ConcatProperties
<1> DEFINE s == stage \o a
<1>5. s \in Seq(Tunnel!Cell) /\ s \o b = Tunnel!Cells[fs] /\ d = Tunnel!Drain[s]
  BY <1>3, <1>4
<1> HIDE DEF s
<1>6. CutBetween(s, b, fs)
  BY <1>2, <1>5, DrainCut
<1>7. PICK gs \in Seq(Tunnel!Frame), hs \in Seq(Tunnel!Frame) : CutAt(s, b, fs, gs, hs)
  BY <1>6 DEF CutBetween
<1>8. /\ fs = gs \o hs /\ d.frames = gs /\ d.rest \in Seq(Tunnel!Cell)
      /\ d.rest \o b = Tunnel!Cells[hs]
      /\ ~Tunnel!BadLength(d.rest) /\ Len(d.rest) < 3 + MaxPayload
  BY <1>5, <1>7 DEF CutAt
<1>9. sn = (rc \o gs) \o hs /\ rc \o gs \in Seq(Tunnel!Frame)
  <2>1. rc \in Seq(Tunnel!Frame) /\ gs \in Seq(Tunnel!Frame) /\ hs \in Seq(Tunnel!Frame)
    BY <1>7
  <2>2. (rc \o gs) \o hs = rc \o (gs \o hs)
    BY <2>1, Threefold
  <2>3. rc \o gs \in Seq(Tunnel!Frame)
    BY <2>1, ConcatProperties
  <2> QED
    BY <1>1, <1>8, <2>2, <2>3
<1>10. Carried(sn, rc \o gs, d.rest, b)
  BY <1>7, <1>8, <1>9 DEF Carried
<1>11. Delivers(sn, rc, stage, wire, k, gs)
  BY <1>2, <1>7, <1>8, <1>9, <1>10 DEF Delivers, b, d
<1> QED
  BY <1>7, <1>11

-----------------------------------------------------------------------------
(* Frames on their way to an end whose consumer is known on the channels   *)
(* of far, from one whose consumer is known on those of near: what answers *)
(* somebody finds him, and who is answered is known.                       *)
Known(far, near) ==
  {f \in Tunnel!Frame : /\ f.re => f.ch \in far
                        /\ f.src = "consumer" => f.ch \in near}

LEMMA KnownGrows ==
  ASSUME NEW P, NEW H, NEW P2, NEW H2, P \subseteq P2, H \subseteq H2,
         NEW s \in Seq(Known(P, H))
  PROVE  s \in Seq(Known(P2, H2))
<1>1. Known(P, H) \subseteq Known(P2, H2)
  BY DEF Known
<1> QED
  BY <1>1, SeqMonotonic

LEMMA PartsAreIn ==
  ASSUME NEW S, NEW F, NEW g \in Seq(F), NEW h \in Seq(F), g \o h \in Seq(S)
  PROVE  g \in Seq(S) /\ h \in Seq(S)
<1> DEFINE u == g \o h
<1>1. /\ Len(g) \in Nat /\ Len(h) \in Nat /\ Len(u) = Len(g) + Len(h)
      /\ \A i \in 1 .. Len(u) : u[i] = IF i <= Len(g) THEN g[i] ELSE h[i - Len(g)]
  BY ConcatProperties, LenProperties
<1>2. u \in Seq(S)
  OBVIOUS
<1> HIDE DEF u
<1>3. \A i \in 1 .. Len(u) : u[i] \in S
  BY <1>2, ElementOfSeq
<1>4. \A i \in 1 .. Len(g) : g[i] \in S
  BY <1>1, <1>3
<1>5. \A i \in 1 .. Len(h) : h[i] \in S
  <2> TAKE i \in 1 .. Len(h)
  <2>1. /\ i + Len(g) \in 1 .. Len(u) /\ ~(i + Len(g) <= Len(g))
        /\ i + Len(g) - Len(g) = i
    BY <1>1
  <2>2. u[i + Len(g)] = h[i]
    BY <1>1, <2>1
  <2> QED
    BY <1>3, <2>1, <2>2
<1>6. g \in Seq(S)
  <2>1. SubSeq(g, 1, Len(g)) \in Seq(S)
    BY <1>1, <1>4, SubSeqProperties
  <2> QED
    BY <2>1, SubSeqFull
<1>7. h \in Seq(S)
  <2>1. SubSeq(h, 1, Len(h)) \in Seq(S)
    BY <1>1, <1>5, SubSeqProperties
  <2> QED
    BY <2>1, SubSeqFull
<1> QED
  BY <1>6, <1>7

(* What comes out of the wire is known like what went in.                  *)
LEMMA DeliveredIsKnown ==
  ASSUME NEW sn, NEW rc \in Seq(Tunnel!Frame), NEW stage, NEW wire, NEW k,
         NEW gs \in Seq(Tunnel!Frame),
         Delivers(sn, rc, stage, wire, k, gs), NEW S, sn \in Seq(S)
  PROVE  gs \in Seq(S)
<1>1. PICK hs \in Seq(Tunnel!Frame) : sn = (rc \o gs) \o hs
  BY DEF Delivers
<1> DEFINE x == rc \o gs
<1>2. x \in Seq(Tunnel!Frame)
  BY ConcatProperties
<1>3. x \o hs \in Seq(S)
  BY <1>1
<1> HIDE DEF x
<1>4. x \in Seq(S)
  BY <1>2, <1>3, PartsAreIn
<1> QED
  BY <1>4, PartsAreIn DEF x

LEMMA KnownFrames ==
  ASSUME NEW P, NEW H, NEW fs \in Seq(Known(P, H))
  PROVE  /\ Tunnel!Consumer(fs) \subseteq H \cap Channels
         /\ \A f \in Tunnel!OnChannels(fs) : f.re \in BOOLEAN /\ (f.re => f.ch \in P)
<1>1. \A f \in Tunnel!Range(fs) : f \in Known(P, H)
  BY LenProperties, ElementOfSeq DEF Tunnel!Range
<1>2. \A f \in Known(P, H) : /\ f.re \in BOOLEAN /\ (f.re => f.ch \in P)
                             /\ (f.src = "consumer" => f.ch \in H)
  BY DEF Known, Tunnel!Frame, Tunnel!Payload
<1> QED
  BY <1>1, <1>2 DEF Tunnel!Consumer, Tunnel!OnChannels

(* An echo answers nobody, and no consumer asked for it.                   *)
LEMMA EchoesAreKnown ==
  ASSUME Tunnel!ConstantsOK, NEW P \in SUBSET Channels, NEW H \in SUBSET Channels,
         NEW P2, NEW H2,
         NEW fs \in Seq(Known(P, H))
  PROVE  Tunnel!Echoes[fs] \in Seq(Known(P2, H2)) /\ Tunnel!Echoes[fs] \in Seq(Tunnel!Frame)
<1> DEFINE Q == {gs \in Seq(Known(P, H)) : Tunnel!Echoes[gs] \in Seq(Known(P2, H2))}
<1>1. Known(P, H) \subseteq Tunnel!Payload /\ Known(P2, H2) \subseteq Tunnel!Frame
  BY DEF Known, Tunnel!Frame
<1>2. \A gs \in Seq(Known(P, H)) : gs \in Seq(Tunnel!Payload)
  BY <1>1, SeqMonotonic
<1>3. \A gs \in Seq(Tunnel!Payload) :
        Tunnel!Echoes[gs] = IF gs = <<>> THEN <<>>
                            ELSE Answers[Head(gs)] \o Tunnel!Echoes[Tail(gs)]
  BY EchoesJoin DEF Joins
<1>4. <<>> \in Q
  BY <1>2, <1>3, EmptySeq
<1>5. ASSUME NEW gs \in Seq(Known(P, H)), gs # <<>>, Tail(gs) \in Q PROVE gs \in Q
  <2>1. Head(gs) \in Known(P, H) /\ Tail(gs) \in Seq(Known(P, H))
    BY <1>5, TailIsShorter
  <2>2. Answers[Head(gs)] = IF Head(gs).ch = "echo" THEN Tunnel!Fits(Head(gs)) ELSE <<>>
    BY <1>1, <2>1 DEF Answers
  <2>3. Head(gs).ch = "echo" => Head(gs) \in Known(P2, H2)
    BY <2>1 DEF Known, Tunnel!ConstantsOK
  <2>4. Answers[Head(gs)] \in Seq(Known(P2, H2))
    BY <2>2, <2>3, EmptySeq DEF Tunnel!Fits
  <2>5. Tunnel!Echoes[Tail(gs)] \in Seq(Known(P2, H2))
    BY <1>5
  <2>6. Tunnel!Echoes[gs] = Answers[Head(gs)] \o Tunnel!Echoes[Tail(gs)]
    BY <1>2, <1>3, <1>5
  <2> QED
    BY <2>4, <2>5, <2>6, ConcatProperties
<1> HIDE DEF Q
<1>6. fs \in Q
  BY <1>4, <1>5, SeqInduction
<1>7. Tunnel!Echoes[fs] \in Seq(Known(P2, H2))
  BY <1>6 DEF Q
<1> QED
  BY <1>1, <1>7, SeqMonotonic

-----------------------------------------------------------------------------
(* What is so as the tunnel runs: what is on its way, and who is known of  *)
(* those that frames answer or are answered by.                            *)
AtRest ==
  /\ sentVm = <<>> /\ rcvdVm = <<>> /\ vmStage = <<>> /\ toVm = <<>>
  /\ sentHost = <<>> /\ rcvdHost = <<>> /\ hostStage = <<>> /\ toHost = <<>>

Carries ==
  /\ Carried(sentVm, rcvdVm, vmStage, toVm)
  /\ Carried(sentHost, rcvdHost, hostStage, toHost)

Peers ==
  /\ sentVm \in Seq(Known(vmPeer, hostPeer))
  /\ sentHost \in Seq(Known(hostPeer, vmPeer))
  /\ hostHeard \subseteq vmPeer /\ vmHeard \subseteq hostPeer

TunnelInv ==
  /\ TunnelSafe /\ Peers
  /\ tcp = "up" => Carries
  /\ state = "idle" => tcp = "none"
  /\ state = "idle" \/ tcp = "connecting" => AtRest

(* A step of either direction is one of FrameFifo's.                       *)
Orderly ==
  /\ [Tunnel!VmWard!Next]_(Tunnel!VmWard!vars)
  /\ [Tunnel!HostWard!Next]_(Tunnel!HostWard!vars)

LEMMA NothingCarried ==
  ASSUME Tunnel!ConstantsOK
  PROVE  Carried(<<>>, <<>>, <<>>, <<>>)
<1>1. Tunnel!Cells[<<>>] = <<>>
  BY CellsJoin, EmptySeq DEF Joins
<1> DEFINE nil == <<>>
<1>2. nil \in Seq(Tunnel!Frame) /\ nil \o nil = nil /\ nil = Tunnel!Cells[nil]
  BY <1>1, EmptySeq, ConcatEmptySeq
<1> HIDE DEF nil
<1>3. Carried(nil, nil, nil, nil)
  BY <1>2 DEF Carried
<1> QED
  BY <1>3 DEF nil

LEMMA TunnelInit ==
  ASSUME Tunnel!ConstantsOK, Tunnel!Init
  PROVE  TunnelInv
<1>1. Tunnel!TypeOK
  BY EmptySeq DEF Tunnel!Init, Tunnel!TypeOK
<1>2. Tunnel!FramingHolds /\ Tunnel!RepliesFindSender
  <2>1. Len(vmStage) = 0 /\ Len(hostStage) = 0
    BY EmptySeq DEF Tunnel!Init
  <2>2. ~Tunnel!BadLength(hostStage) /\ ~Tunnel!BadLength(vmStage)
    BY <2>1, TunnelNumbers DEF Tunnel!BadLength
  <2>3. 0 < StageSize
    BY TunnelNumbers
  <2> QED
    BY <2>1, <2>2, <2>3 DEF Tunnel!FramingHolds, Tunnel!RepliesFindSender, Tunnel!Init
<1>3. Peers
  BY EmptySeq DEF Tunnel!Init, Peers
<1> QED
  BY <1>1, <1>2, <1>3
     DEF TunnelInv, TunnelSafe, Tunnel!TunnelSafe, AtRest, Tunnel!Init

LEMMA TunnelTypes ==
  ASSUME TunnelInv
  PROVE  /\ state \in {"idle", "starting", "ready", "stopped"}
         /\ tcp \in {"none", "connecting", "up"}
         /\ udp \in BOOLEAN /\ errors \in BOOLEAN
         /\ hostStage \in Seq(Tunnel!Cell) /\ vmStage \in Seq(Tunnel!Cell)
         /\ hostPeer \in SUBSET Channels /\ hostHeard \in SUBSET Channels
         /\ vmPeer \in SUBSET Channels /\ vmHeard \in SUBSET Channels
         /\ toVm \in Seq(Tunnel!Cell) /\ toHost \in Seq(Tunnel!Cell)
         /\ sentVm \in Seq(Tunnel!Frame) /\ rcvdVm \in Seq(Tunnel!Frame)
         /\ sentHost \in Seq(Tunnel!Frame) /\ rcvdHost \in Seq(Tunnel!Frame)
         /\ strays \subseteq [at : {"host", "vm"}, to : {"dstPort", "nobody"},
                              re : BOOLEAN]
BY DEF TunnelInv, TunnelSafe, Tunnel!TunnelSafe, Tunnel!TypeOK

(* Life: the connection comes up with nothing on it, and goes.             *)
LEMMA LifeInv ==
  ASSUME Tunnel!ConstantsOK, TunnelInv,
         Tunnel!Start \/ Tunnel!Connected \/ Tunnel!Refused \/ Tunnel!Stop
           \/ Tunnel!TcpCloses
  PROVE  TunnelInv' /\ Orderly
<1> USE DEF Tunnel!Start, Tunnel!Connected, Tunnel!Refused, Tunnel!Stop, Tunnel!TcpCloses,
            Tunnel!guest, Tunnel!log
<1>1. /\ UNCHANGED <<hostStage, vmStage, hostPeer, hostHeard, vmPeer, vmHeard, strays>>
      /\ UNCHANGED <<sentVm, rcvdVm, sentHost, rcvdHost>>
      /\ toVm' \in {toVm, <<>>} /\ toHost' \in {toHost, <<>>}
      /\ state' \in {"starting", "ready", "stopped", state}
      /\ tcp' \in {"none", "connecting", "up"}
      /\ udp' \in BOOLEAN /\ errors' \in BOOLEAN
  BY TunnelTypes
<1>2. Tunnel!TypeOK'
  BY <1>1, TunnelTypes, EmptySeq DEF Tunnel!TypeOK
<1>3. Tunnel!FramingHolds' /\ Tunnel!RepliesFindSender' /\ Peers'
  BY <1>1 DEF TunnelInv, TunnelSafe, Tunnel!TunnelSafe, Tunnel!FramingHolds,
              Tunnel!RepliesFindSender, Peers, Tunnel!BadLength, Tunnel!Length
<1>4. tcp' = "up" => Carries'
  <2> SUFFICES ASSUME tcp' = "up" PROVE Carries'
    OBVIOUS
  <2>1. Tunnel!Connected
    OBVIOUS
  <2>2. AtRest'
    BY <2>1 DEF TunnelInv, AtRest
  <2> QED
    BY <2>2, NothingCarried DEF AtRest, Carries
<1>5. (state' = "idle" => tcp' = "none")
      /\ (state' = "idle" \/ tcp' = "connecting" => AtRest')
  BY <1>1 DEF TunnelInv, AtRest
<1>6. Orderly
  BY <1>1, TunnelTypes
     DEF Orderly, Tunnel!VmWard!Next, Tunnel!VmWard!Toggle, Tunnel!VmWard!vars,
         Tunnel!HostWard!Next, Tunnel!HostWard!Toggle, Tunnel!HostWard!vars
<1> QED
  BY <1>2, <1>3, <1>4, <1>5, <1>6 DEF TunnelInv, TunnelSafe, Tunnel!TunnelSafe


(* Frames that are added behind the others.                                *)
LEMMA Behind ==
  ASSUME NEW S, NEW s \in Seq(S), NEW es \in Seq(S), es # <<>>
  PROVE  /\ s \o es \in Seq(S) /\ Len(s \o es) > Len(s)
         /\ SubSeq(s \o es, 1, Len(s)) = s
<1>1. /\ Len(s) \in Nat /\ Len(es) \in Nat \ {0}
      /\ s \o es \in Seq(S) /\ Len(s \o es) = Len(s) + Len(es)
  BY LenProperties, EmptySeq, ConcatProperties
<1>2. SubSeq(s \o es, 1, Len(s)) = s
  BY FrontOfTwo
<1> QED
  BY <1>1, <1>2

(* One frame, or none, enters at the host.                                 *)
Entering(f) ==
  /\ tcp' = tcp /\ sentVm' \in Seq(Tunnel!Frame) /\ toVm' \in Seq(Tunnel!Cell)
  /\ \/ sentVm' = sentVm /\ toVm' = toVm
     \/ /\ tcp = "up" /\ f \in Tunnel!Frame /\ sentVm' = sentVm \o <<f>>
        /\ Carried(sentVm', rcvdVm, vmStage, toVm')

LEMMA Entered ==
  ASSUME Tunnel!ConstantsOK, TunnelInv, NEW f \in Tunnel!Payload, Tunnel!SendToVm(f),
         tcp' = tcp
  PROVE  Entering(f)
<1>1. CASE tcp # "up" \/ f.size > MaxPayload
  BY <1>1, TunnelTypes DEF Tunnel!SendToVm, Entering
<1>2. CASE ~(tcp # "up" \/ f.size > MaxPayload)
  <2>1. /\ toVm' = toVm \o Tunnel!Encode(f) /\ sentVm' = Append(sentVm, f)
        /\ tcp = "up" /\ f.size <= MaxPayload
    <3>1. f.size \in Nat
      BY TunnelNumbers DEF Tunnel!Payload, Tunnel!Lengths
    <3> QED
      BY <1>2, <3>1, TunnelNumbers DEF Tunnel!SendToVm
  <2>2. f \in Tunnel!Frame
    BY <2>1 DEF Tunnel!Frame
  <2>3. sentVm' = sentVm \o <<f>> /\ sentVm' \in Seq(Tunnel!Frame)
    BY <2>1, <2>2, TunnelTypes, AppendIsConcat, AppendProperties
  <2>4. <<f>> \in Seq(Tunnel!Frame) /\ Tunnel!Cells[<<f>>] = Tunnel!Encode(f)
    <3>1. <<>> \in Seq(Tunnel!Frame)
      BY EmptySeq
    <3> QED
      BY <2>2, <3>1, CellsOfOne
  <2>5. Tunnel!Cells[<<f>>] \in Seq(Tunnel!Cell)
    BY <2>4, CellsOfTwo
  <2>6. toVm' \in Seq(Tunnel!Cell)
    BY <2>1, <2>4, <2>5, TunnelTypes, ConcatProperties
  <2>7. Carried(sentVm, rcvdVm, vmStage, toVm)
    BY <2>1 DEF TunnelInv, Carries
  <2>8. Carried(sentVm \o <<f>>, rcvdVm, vmStage, toVm \o Tunnel!Cells[<<f>>])
    BY <2>4, <2>7, TunnelTypes, CarriedOn
  <2> QED
    BY <2>1, <2>2, <2>3, <2>4, <2>6, <2>8 DEF Entering
<1> QED
  BY <1>1, <1>2

(* A frame of a consumer, or of the registrar or an echo; the consumer's   *)
(* address has been learnt.                                                *)
LEMMA EnterInv ==
  ASSUME Tunnel!ConstantsOK, TunnelInv, NEW f \in Tunnel!Payload, Tunnel!SendToVm(f),
         f.re => f.ch \in vmPeer, f.src = "consumer" => f.ch \in hostPeer',
         hostPeer \subseteq hostPeer', hostPeer' \in SUBSET Channels,
         UNCHANGED <<state, tcp, udp, hostStage, hostHeard, errors, vmStage, vmPeer,
                     vmHeard, toHost, sentHost, rcvdVm, rcvdHost, strays>>
  PROVE  TunnelInv' /\ Orderly
<1>1. Entering(f)
  BY Entered
<1>2. Tunnel!TypeOK'
  BY <1>1, TunnelTypes DEF Tunnel!TypeOK, Entering
<1>3. Tunnel!FramingHolds' /\ Tunnel!RepliesFindSender'
  BY DEF TunnelInv, TunnelSafe, Tunnel!TunnelSafe, Tunnel!FramingHolds,
         Tunnel!RepliesFindSender, Tunnel!BadLength, Tunnel!Length
<1>4. sentVm' \in Seq(Known(vmPeer, hostPeer'))
  <2>1. sentVm \in Seq(Known(vmPeer, hostPeer'))
    BY KnownGrows DEF TunnelInv, Peers
  <2>2. CASE sentVm' = sentVm
    BY <2>1, <2>2
  <2>3. CASE f \in Tunnel!Frame /\ sentVm' = sentVm \o <<f>>
    <3>1. f \in Known(vmPeer, hostPeer')
      BY <2>3 DEF Known
    <3>2. <<f>> \in Seq(Known(vmPeer, hostPeer'))
      BY <3>1
    <3> QED
      BY <2>1, <2>3, <3>2, ConcatProperties
  <2> QED
    BY <1>1, <2>2, <2>3 DEF Entering
<1>5. Peers'
  <2>1. sentHost' \in Seq(Known(hostPeer', vmPeer'))
    <3>1. sentHost \in Seq(Known(hostPeer', vmPeer))
      BY KnownGrows DEF TunnelInv, Peers
    <3> QED
      BY <3>1
  <2>2. sentVm' \in Seq(Known(vmPeer', hostPeer'))
    BY <1>4
  <2>3. hostHeard' \subseteq vmPeer' /\ vmHeard' \subseteq hostPeer'
    BY DEF TunnelInv, Peers
  <2> QED
    BY <2>1, <2>2, <2>3 DEF Peers
<1>6. tcp' = "up" => Carries'
  <2> SUFFICES ASSUME tcp' = "up" PROVE Carries'
    OBVIOUS
  <2>1. Carries
    BY DEF TunnelInv
  <2>2. Carried(sentVm', rcvdVm, vmStage, toVm')
    BY <1>1, <2>1 DEF Carries, Entering
  <2> QED
    BY <2>1, <2>2 DEF Carries
<1>7. (state' = "idle" => tcp' = "none")
      /\ (state' = "idle" \/ tcp' = "connecting" => AtRest')
  BY <1>1 DEF TunnelInv, AtRest, Entering
<1>8. Orderly
  <2>1. [Tunnel!VmWard!Next]_(Tunnel!VmWard!vars)
    <3>1. CASE sentVm' = sentVm
      BY <3>1 DEF Tunnel!VmWard!vars
    <3>2. CASE f \in Tunnel!Frame /\ sentVm' = sentVm \o <<f>>
      <4>1. <<f>> \in Seq(Tunnel!Frame) /\ <<f>> # <<>>
        BY <3>2
      <4>2. /\ sentVm' \in Seq(Tunnel!Frame) /\ Len(sentVm') > Len(sentVm)
            /\ SubSeq(sentVm', 1, Len(sentVm)) = sentVm
        <5>1. sentVm \in Seq(Tunnel!Frame)
          BY TunnelTypes
        <5> DEFINE es == <<f>>
        <5>2. es \in Seq(Tunnel!Frame) /\ es # <<>> /\ sentVm' = sentVm \o es
          BY <3>2, <4>1
        <5> HIDE DEF es
        <5> QED
          BY <5>1, <5>2, Behind
      <4> QED
        BY <4>2 DEF Tunnel!VmWard!Next, Tunnel!VmWard!Send
    <3> QED
      BY <1>1, <3>1, <3>2 DEF Entering
  <2>2. [Tunnel!HostWard!Next]_(Tunnel!HostWard!vars)
    BY DEF Tunnel!HostWard!vars
  <2> QED
    BY <2>1, <2>2 DEF Orderly
<1> QED
  BY <1>2, <1>3, <1>5, <1>6, <1>7, <1>8 DEF TunnelInv, TunnelSafe, Tunnel!TunnelSafe

LEMMA EnterVmInv ==
  ASSUME Tunnel!ConstantsOK, TunnelInv, NEW size \in Tunnel!Lengths,
         \/ \E c \in Channels : Tunnel!HostDatagram(c, size) \/ Tunnel!InjectFrame(c, size)
         \/ \E ch \in {"echo", "unknown"} : Tunnel!SendEcho(ch, size)
  PROVE  TunnelInv' /\ Orderly
<1>1. ASSUME NEW c \in Channels, Tunnel!HostDatagram(c, size)
      PROVE  TunnelInv' /\ Orderly
  <2> DEFINE f == [ch |-> c, src |-> "consumer", dst |-> VmPort,
                   re |-> c \in hostHeard, size |-> size]
  <2>1. f \in Tunnel!Payload
    BY DEF Tunnel!Payload, Tunnel!ConstantsOK
  <2>2. f.ch = c /\ (f.re => c \in hostHeard)
    OBVIOUS
  <2>3. /\ Tunnel!SendToVm(f) /\ hostPeer' = hostPeer \cup {c}
        /\ UNCHANGED <<state, tcp, udp, hostStage, hostHeard, errors, vmStage, vmPeer,
                       vmHeard, toHost, sentHost, rcvdVm, rcvdHost, strays>>
    BY <1>1 DEF Tunnel!HostDatagram, Tunnel!guest
  <2> HIDE DEF f
  <2>4. /\ f.re => f.ch \in vmPeer
        /\ f.src = "consumer" => f.ch \in hostPeer'
        /\ hostPeer \subseteq hostPeer' /\ hostPeer' \in SUBSET Channels
    BY <2>2, <2>3, TunnelTypes DEF TunnelInv, Peers
  <2> QED
    BY <2>1, <2>3, <2>4, EnterInv
<1>2. ASSUME NEW c \in Channels, Tunnel!InjectFrame(c, size)
      PROVE  TunnelInv' /\ Orderly
  <2> DEFINE f == [ch |-> c, src |-> "tunnel", dst |-> "other", re |-> TRUE,
                   size |-> size]
  <2>1. f \in Tunnel!Payload /\ f.ch = c /\ f.src # "consumer"
    BY DEF Tunnel!Payload
  <2>2. /\ Tunnel!SendToVm(f) /\ hostPeer' = hostPeer /\ c \in hostHeard
        /\ UNCHANGED <<state, tcp, udp, hostStage, hostHeard, errors, vmStage, vmPeer,
                       vmHeard, toHost, sentHost, rcvdVm, rcvdHost, strays>>
    BY <1>2 DEF Tunnel!InjectFrame, Tunnel!host, Tunnel!guest
  <2> HIDE DEF f
  <2>3. f.ch \in vmPeer /\ hostPeer \subseteq hostPeer' /\ hostPeer' \in SUBSET Channels
    BY <2>1, <2>2, TunnelTypes DEF TunnelInv, Peers
  <2> QED
    BY <2>1, <2>2, <2>3, EnterInv
<1>3. ASSUME NEW ch \in {"echo", "unknown"}, Tunnel!SendEcho(ch, size)
      PROVE  TunnelInv' /\ Orderly
  <2> DEFINE f == [ch |-> ch, src |-> "tunnel", dst |-> "wellKnown", re |-> FALSE,
                   size |-> size]
  <2>1. f \in Tunnel!Payload /\ ~f.re /\ f.src # "consumer"
    BY DEF Tunnel!Payload
  <2>2. /\ Tunnel!SendToVm(f) /\ hostPeer' = hostPeer
        /\ UNCHANGED <<state, tcp, udp, hostStage, hostHeard, errors, vmStage, vmPeer,
                       vmHeard, toHost, sentHost, rcvdVm, rcvdHost, strays>>
    BY <1>3 DEF Tunnel!SendEcho, Tunnel!host, Tunnel!guest
  <2> HIDE DEF f
  <2>3. hostPeer \subseteq hostPeer' /\ hostPeer' \in SUBSET Channels
    BY <2>2, TunnelTypes
  <2> QED
    BY <2>1, <2>2, <2>3, EnterInv
<1> QED
  BY <1>1, <1>2, <1>3


(* Frames are sent by the VM's end.                                        *)
LEMMA SentBack ==
  ASSUME Tunnel!ConstantsOK, TunnelInv, tcp = "up",
         NEW P, NEW H, sentHost \in Seq(Known(P, H)),
         NEW es \in Seq(Known(P, H)), Tunnel!SendToHost(es)
  PROVE  /\ sentHost' \in Seq(Tunnel!Frame) /\ toHost' \in Seq(Tunnel!Cell)
         /\ sentHost' \in Seq(Known(P, H))
         /\ Carried(sentHost', rcvdHost, hostStage, toHost')
         /\ sentHost' = sentHost
            \/ /\ Len(sentHost') > Len(sentHost)
               /\ SubSeq(sentHost', 1, Len(sentHost)) = sentHost
<1>1. toHost' = toHost \o Tunnel!Cells[es] /\ sentHost' = sentHost \o es
  BY DEF Tunnel!SendToHost
<1>2. es \in Seq(Tunnel!Frame)
  <2>1. Known(P, H) \subseteq Tunnel!Frame
    BY DEF Known
  <2> QED
    BY <2>1, SeqMonotonic
<1>3. Tunnel!Cells[es] \in Seq(Tunnel!Cell)
  BY <1>2, CellsOfTwo
<1>4. sentHost' \in Seq(Tunnel!Frame) /\ sentHost' \in Seq(Known(P, H))
  BY <1>1, <1>2, TunnelTypes, ConcatProperties
<1>5. toHost' \in Seq(Tunnel!Cell)
  BY <1>1, <1>3, TunnelTypes, ConcatProperties
<1>6. Carried(sentHost, rcvdHost, hostStage, toHost)
  BY DEF TunnelInv, Carries
<1>7. Carried(sentHost \o es, rcvdHost, hostStage, toHost \o Tunnel!Cells[es])
  BY <1>2, <1>6, TunnelTypes, CarriedOn
<1>8. es = <<>> => sentHost' = sentHost
  BY <1>1, TunnelTypes, ConcatEmptySeq
<1>9. es # <<>> => /\ Len(sentHost') > Len(sentHost)
                   /\ SubSeq(sentHost', 1, Len(sentHost)) = sentHost
  <2>1. sentHost \in Seq(Tunnel!Frame)
    BY TunnelTypes
  <2> QED
    BY <1>1, <1>2, <2>1, Behind
<1> QED
  BY <1>1, <1>4, <1>5, <1>7, <1>8, <1>9

(* A datagram of PJSIP's.                                                  *)
LEMMA EnterHostInv ==
  ASSUME Tunnel!ConstantsOK, TunnelInv, NEW c \in Channels, NEW size \in Tunnel!Lengths,
         Tunnel!VmDatagram(c, size)
  PROVE  TunnelInv' /\ Orderly
<1> DEFINE f == [ch |-> c, src |-> "consumer", dst |-> "wellKnown",
                 re |-> c \in vmHeard, size |-> Tunnel!Truncated(size)]
           es == <<f>>
           far == hostPeer
           near == vmPeer \cup {c}
<1>1. f \in Tunnel!Frame /\ f.ch = c /\ (f.re => c \in vmHeard)
  <2>1. Tunnel!Truncated(size) \in Tunnel!Lengths /\ Tunnel!Truncated(size) <= MaxPayload
    BY DEF Tunnel!Truncated, Tunnel!Lengths, Tunnel!ConstantsOK
  <2>2. f \in Tunnel!Payload /\ f.size <= MaxPayload
    BY <2>1 DEF Tunnel!Payload
  <2>3. f.ch = c /\ (f.re => c \in vmHeard)
    OBVIOUS
  <2> QED
    BY <2>2, <2>3 DEF Tunnel!Frame
<1>2. /\ tcp = "up" /\ vmPeer' = near /\ Tunnel!SendToHost(es)
      /\ UNCHANGED <<state, tcp, udp, hostStage, hostPeer, hostHeard, errors, vmStage,
                     vmHeard, toVm, sentVm, rcvdVm, rcvdHost, strays>>
  BY DEF Tunnel!VmDatagram, Tunnel!host
<1> HIDE DEF f
<1>3. es \in Seq(Known(far, near))
  <2>1. f \in Known(far, near)
    BY <1>1 DEF Known, TunnelInv, Peers
  <2> DEFINE K == Known(far, near)
  <2> HIDE DEF K
  <2>2. f \in K
    BY <2>1 DEF K
  <2>3. <<f>> \in Seq(K)
    BY <2>2
  <2> QED
    BY <2>3 DEF K
<1>4. sentHost \in Seq(Known(far, near))
  BY KnownGrows DEF TunnelInv, Peers
<1> HIDE DEF es, near, far
<1>5. /\ sentHost' \in Seq(Tunnel!Frame) /\ toHost' \in Seq(Tunnel!Cell)
      /\ sentHost' \in Seq(Known(far, near))
      /\ Carried(sentHost', rcvdHost, hostStage, toHost')
      /\ sentHost' = sentHost
         \/ /\ Len(sentHost') > Len(sentHost)
            /\ SubSeq(sentHost', 1, Len(sentHost)) = sentHost
  BY <1>2, <1>3, <1>4, SentBack
<1> USE DEF near, far
<1>6. Tunnel!TypeOK'
  BY <1>2, <1>5, TunnelTypes DEF Tunnel!TypeOK
<1>7. Tunnel!FramingHolds' /\ Tunnel!RepliesFindSender'
  BY <1>2 DEF TunnelInv, TunnelSafe, Tunnel!TunnelSafe, Tunnel!FramingHolds,
              Tunnel!RepliesFindSender, Tunnel!BadLength, Tunnel!Length
<1>8. Peers'
  <2>1. sentVm \in Seq(Known(near, hostPeer))
    BY KnownGrows DEF TunnelInv, Peers
  <2>2. sentVm' \in Seq(Known(vmPeer', hostPeer'))
    BY <1>2, <2>1
  <2>3. sentHost' \in Seq(Known(hostPeer', vmPeer'))
    BY <1>2, <1>5
  <2>4. hostHeard' \subseteq vmPeer' /\ vmHeard' \subseteq hostPeer'
    BY <1>2 DEF TunnelInv, Peers
  <2> QED
    BY <2>2, <2>3, <2>4 DEF Peers
<1>9. Carries'
  BY <1>2, <1>5 DEF TunnelInv, Carries
<1>10. (state' = "idle" => tcp' = "none")
       /\ (state' = "idle" \/ tcp' = "connecting" => AtRest')
  BY <1>2 DEF TunnelInv, AtRest
<1>11. Orderly
  <2>1. [Tunnel!VmWard!Next]_(Tunnel!VmWard!vars)
    BY <1>2 DEF Tunnel!VmWard!vars
  <2>2. [Tunnel!HostWard!Next]_(Tunnel!HostWard!vars)
    BY <1>2, <1>5 DEF Tunnel!HostWard!vars, Tunnel!HostWard!Next, Tunnel!HostWard!Send
  <2> QED
    BY <2>1, <2>2 DEF Orderly
<1> QED
  BY <1>6, <1>7, <1>8, <1>9, <1>10, <1>11 DEF TunnelInv, TunnelSafe, Tunnel!TunnelSafe

(* Whole frames come out.                                                  *)
WholeFrames(sn, rc, gs) ==
  \E n \in Len(rc) + 1 .. Len(sn) : rc \o gs = SubSeq(sn, 1, n)

LEMMA ComesOut ==
  ASSUME NEW sn \in Seq(Tunnel!Frame), NEW rc \in Seq(Tunnel!Frame),
         NEW gs \in Seq(Tunnel!Frame), NEW hs \in Seq(Tunnel!Frame), sn = (rc \o gs) \o hs, gs # <<>>
  PROVE  WholeFrames(sn, rc, gs)
<1> DEFINE x == rc \o gs
<1>1. x \in Seq(Tunnel!Frame) /\ Len(x) = Len(rc) + Len(gs) /\ sn = x \o hs
  BY ConcatProperties
<1> HIDE DEF x
<1>2. Len(sn) = Len(x) + Len(hs)
  BY <1>1, ConcatProperties
<1>3. Len(rc) \in Nat /\ Len(gs) \in Nat \ {0} /\ Len(hs) \in Nat
  BY LenProperties, EmptySeq
<1>4. Len(x) \in Len(rc) + 1 .. Len(sn)
  BY <1>1, <1>2, <1>3
<1>5. SubSeq(x \o hs, 1, Len(x)) = x
  BY <1>1, FrontOfTwo
<1>6. x = SubSeq(sn, 1, Len(x))
  BY <1>1, <1>5
<1> QED
  BY <1>4, <1>6 DEF x, WholeFrames

LEMMA HostChunkInv ==
  ASSUME Tunnel!ConstantsOK, TunnelInv, NEW k \in 1 .. Len(toHost), Tunnel!HostChunk(k)
  PROVE  TunnelInv' /\ Orderly
<1> DEFINE d == Chunk(hostStage, toHost, k)
<1>1. /\ tcp = "up" /\ toHost' = SubSeq(toHost, k + 1, Len(toHost))
      /\ hostStage' = d.rest /\ rcvdHost' = rcvdHost \o d.frames
      /\ hostHeard' = hostHeard \cup Tunnel!Consumer(d.frames)
      /\ strays' = strays \cup
           {[at |-> "host", to |-> "nobody", re |-> f.re] :
              f \in {g \in Tunnel!OnChannels(d.frames) : udp /\ g.ch \notin hostPeer}}
      /\ UNCHANGED <<state, tcp, udp, hostPeer, errors, vmStage, vmPeer, vmHeard, toVm,
                     sentVm, rcvdVm, sentHost>>
  BY DEF Tunnel!HostChunk, Tunnel!guest, Tunnel!Kept, Chunk
<1>2. PICK gs \in Seq(Tunnel!Frame) : Delivers(sentHost, rcvdHost, hostStage, toHost, k, gs)
  <2>1. Carried(sentHost, rcvdHost, hostStage, toHost)
    BY <1>1 DEF TunnelInv, Carries
  <2> QED
    BY <2>1, TunnelTypes, CarriedOut
<1>3. /\ d.frames = gs /\ d.rest \in Seq(Tunnel!Cell)
      /\ ~Tunnel!BadLength(d.rest)
      /\ Carried(sentHost, rcvdHost \o gs, d.rest, SubSeq(toHost, k + 1, Len(toHost)))
      /\ SubSeq(toHost, k + 1, Len(toHost)) \in Seq(Tunnel!Cell)
      /\ rcvdHost \o gs \in Seq(Tunnel!Frame)
  BY <1>2 DEF Delivers
<1>4. gs \in Seq(Known(hostPeer, vmPeer))
  <2>1. sentHost \in Seq(Known(hostPeer, vmPeer)) /\ rcvdHost \in Seq(Tunnel!Frame)
    BY TunnelTypes DEF TunnelInv, Peers
  <2> QED
    BY <1>2, <2>1, DeliveredIsKnown
<1>5. /\ Tunnel!Consumer(gs) \subseteq vmPeer \cap Channels
      /\ \A f \in Tunnel!OnChannels(gs) : f.re \in BOOLEAN /\ (f.re => f.ch \in hostPeer)
  BY <1>4, KnownFrames
<1> HIDE DEF d
<1> DEFINE quiet == [at |-> "host", to |-> "nobody", re |-> FALSE]
<1>6. strays' \subseteq strays \cup {quiet}
  <2> DEFINE X == {g \in Tunnel!OnChannels(gs) : udp /\ g.ch \notin hostPeer}
  <2>1. \A f \in X : f.re = FALSE
    BY <1>5
  <2>2. strays' = strays \cup {[at |-> "host", to |-> "nobody", re |-> f.re] : f \in X}
    BY <1>1, <1>3
  <2> HIDE DEF X
  <2>3. ASSUME NEW s \in strays', s \notin strays
        PROVE  s = [at |-> "host", to |-> "nobody", re |-> FALSE]
    <3>1. PICK f \in X : s = [at |-> "host", to |-> "nobody", re |-> f.re]
      BY <2>2, <2>3
    <3>2. f.re = FALSE
      BY <2>1
    <3> QED
      BY <3>1, <3>2
  <2> QED
    BY <2>3
<1>7. /\ quiet \in [at : {"host", "vm"}, to : {"dstPort", "nobody"}, re : BOOLEAN]
      /\ ~quiet.re
  OBVIOUS
<1> HIDE DEF quiet
<1>8. Tunnel!TypeOK'
  BY <1>1, <1>3, <1>5, <1>6, <1>7, TunnelTypes DEF Tunnel!TypeOK
<1>9. Tunnel!FramingHolds'
  BY <1>1, <1>3 DEF TunnelInv, TunnelSafe, Tunnel!TunnelSafe, Tunnel!FramingHolds,
                    Tunnel!BadLength, Tunnel!Length
<1>10. Tunnel!RepliesFindSender'
  BY <1>6, <1>7 DEF TunnelInv, TunnelSafe, Tunnel!TunnelSafe, Tunnel!RepliesFindSender
<1>11. Peers'
  BY <1>1, <1>3, <1>5 DEF TunnelInv, Peers
<1>12. Carries'
  BY <1>1, <1>3 DEF TunnelInv, Carries
<1>13. state' # "idle" /\ tcp' = "up"
  BY <1>1 DEF TunnelInv
<1>14. Orderly
  <2>1. [Tunnel!VmWard!Next]_(Tunnel!VmWard!vars)
    BY <1>1 DEF Tunnel!VmWard!vars
  <2>2. [Tunnel!HostWard!Next]_(Tunnel!HostWard!vars)
    <3>1. CASE gs = <<>>
      <4>1. rcvdHost' = rcvdHost
        BY <1>1, <1>3, <3>1, TunnelTypes, ConcatEmptySeq
      <4> QED
        BY <1>1, <4>1 DEF Tunnel!HostWard!vars
    <3>2. CASE gs # <<>>
      <4>1. PICK hs \in Seq(Tunnel!Frame) : sentHost = (rcvdHost \o gs) \o hs
        BY <1>2 DEF Delivers
      <4>2. sentHost \in Seq(Tunnel!Frame) /\ rcvdHost \in Seq(Tunnel!Frame)
        BY TunnelTypes
      <4>3. WholeFrames(sentHost, rcvdHost, gs)
        BY <3>2, <4>1, <4>2, ComesOut
      <4> QED
        BY <1>1, <1>3, <4>3
           DEF WholeFrames, Tunnel!HostWard!Next, Tunnel!HostWard!Receive
    <3> QED
      BY <3>1, <3>2
  <2> QED
    BY <2>1, <2>2 DEF Orderly
<1> QED
  BY <1>8, <1>9, <1>10, <1>11, <1>12, <1>13, <1>14
     DEF TunnelInv, TunnelSafe, Tunnel!TunnelSafe


LEMMA VmChunkInv ==
  ASSUME Tunnel!ConstantsOK, TunnelInv, NEW k \in 1 .. Len(toVm), Tunnel!VmChunk(k)
  PROVE  TunnelInv' /\ Orderly
<1> DEFINE d == Chunk(vmStage, toVm, k)
           es == Tunnel!Echoes[d.frames]
<1>1. /\ tcp = "up" /\ toVm' = SubSeq(toVm, k + 1, Len(toVm))
      /\ vmStage' = d.rest /\ rcvdVm' = rcvdVm \o d.frames
      /\ vmHeard' = vmHeard \cup Tunnel!Consumer(d.frames)
      /\ strays' = strays \cup
           {[at |-> "vm", to |-> Tunnel!Target(f), re |-> f.re] :
              f \in {g \in Tunnel!OnChannels(d.frames) : g.ch \notin vmPeer}}
      /\ Tunnel!SendToHost(es)
      /\ UNCHANGED <<state, tcp, udp, hostStage, hostPeer, hostHeard, errors, vmPeer,
                     sentVm, rcvdHost>>
  BY DEF Tunnel!VmChunk, Tunnel!host, Tunnel!Kept, Chunk
<1>2. PICK gs \in Seq(Tunnel!Frame) : Delivers(sentVm, rcvdVm, vmStage, toVm, k, gs)
  <2>1. Carried(sentVm, rcvdVm, vmStage, toVm)
    BY <1>1 DEF TunnelInv, Carries
  <2> QED
    BY <2>1, TunnelTypes, CarriedOut
<1>3. /\ d.frames = gs /\ d.rest \in Seq(Tunnel!Cell)
      /\ ~Tunnel!BadLength(d.rest) /\ Len(d.rest) < 3 + MaxPayload
      /\ Carried(sentVm, rcvdVm \o gs, d.rest, SubSeq(toVm, k + 1, Len(toVm)))
      /\ SubSeq(toVm, k + 1, Len(toVm)) \in Seq(Tunnel!Cell)
      /\ rcvdVm \o gs \in Seq(Tunnel!Frame)
  BY <1>2 DEF Delivers
<1>4. gs \in Seq(Known(vmPeer, hostPeer))
  <2>1. sentVm \in Seq(Known(vmPeer, hostPeer)) /\ rcvdVm \in Seq(Tunnel!Frame)
    BY TunnelTypes DEF TunnelInv, Peers
  <2> QED
    BY <1>2, <2>1, DeliveredIsKnown
<1>5. /\ Tunnel!Consumer(gs) \subseteq hostPeer \cap Channels
      /\ \A f \in Tunnel!OnChannels(gs) : f.re \in BOOLEAN /\ (f.re => f.ch \in vmPeer)
  BY <1>4, KnownFrames
<1>6. es \in Seq(Known(hostPeer, vmPeer))
  <2>1. vmPeer \in SUBSET Channels /\ hostPeer \in SUBSET Channels
    BY TunnelTypes
  <2>2. Tunnel!Echoes[gs] \in Seq(Known(hostPeer, vmPeer))
    BY <1>4, <2>1, EchoesAreKnown
  <2> QED
    BY <1>3, <2>2
<1> HIDE DEF d, es
<1>7. /\ sentHost' \in Seq(Tunnel!Frame) /\ toHost' \in Seq(Tunnel!Cell)
      /\ sentHost' \in Seq(Known(hostPeer, vmPeer))
      /\ Carried(sentHost', rcvdHost, hostStage, toHost')
      /\ sentHost' = sentHost
         \/ /\ Len(sentHost') > Len(sentHost)
            /\ SubSeq(sentHost', 1, Len(sentHost)) = sentHost
  <2>1. sentHost \in Seq(Known(hostPeer, vmPeer))
    BY DEF TunnelInv, Peers
  <2> QED
    BY <1>1, <1>6, <2>1, SentBack
<1> DEFINE quiet(t) == [at |-> "vm", to |-> t, re |-> FALSE]
<1>8. \A s \in strays' : s \in strays \/ \E t \in {"dstPort", "nobody"} : s = quiet(t)
  <2> DEFINE X == {g \in Tunnel!OnChannels(gs) : g.ch \notin vmPeer}
  <2>1. \A f \in X : f.re = FALSE
    BY <1>5
  <2>2. strays' = strays \cup {[at |-> "vm", to |-> Tunnel!Target(f), re |-> f.re] : f \in X}
    BY <1>1, <1>3
  <2> HIDE DEF X
  <2>3. ASSUME NEW s \in strays', s \notin strays
        PROVE  \E t \in {"dstPort", "nobody"} : s = quiet(t)
    <3>1. PICK f \in X : s = [at |-> "vm", to |-> Tunnel!Target(f), re |-> f.re]
      BY <2>2, <2>3
    <3>2. f.re = FALSE
      BY <2>1
    <3>3. Tunnel!Target(f) \in {"dstPort", "nobody"}
      BY DEF Tunnel!Target
    <3>4. s = quiet(Tunnel!Target(f))
      BY <3>1, <3>2
    <3> HIDE DEF quiet
    <3> QED
      BY <3>3, <3>4
  <2> QED
    BY <2>3
<1>9. \A t \in {"dstPort", "nobody"} :
        /\ quiet(t) \in [at : {"host", "vm"}, to : {"dstPort", "nobody"}, re : BOOLEAN]
        /\ ~quiet(t).re
  OBVIOUS
<1> HIDE DEF quiet
<1>10. Tunnel!TypeOK'
  <2>1. strays' \subseteq [at : {"host", "vm"}, to : {"dstPort", "nobody"}, re : BOOLEAN]
    BY <1>8, <1>9, TunnelTypes
  <2> QED
    BY <1>1, <1>3, <1>5, <1>7, <2>1, TunnelTypes DEF Tunnel!TypeOK
<1>11. Tunnel!FramingHolds'
  <2>1. Len(vmStage') < StageSize
    BY <1>1, <1>3, TunnelNumbers, LenProperties
  <2> QED
    BY <1>1, <1>3, <2>1 DEF TunnelInv, TunnelSafe, Tunnel!TunnelSafe,
                            Tunnel!FramingHolds, Tunnel!BadLength, Tunnel!Length
<1>12. Tunnel!RepliesFindSender'
  BY <1>8, <1>9 DEF TunnelInv, TunnelSafe, Tunnel!TunnelSafe, Tunnel!RepliesFindSender
<1>13. Peers'
  BY <1>1, <1>3, <1>5, <1>7 DEF TunnelInv, Peers
<1>14. Carries'
  BY <1>1, <1>3, <1>7 DEF TunnelInv, Carries
<1>15. state' # "idle" /\ tcp' = "up"
  BY <1>1 DEF TunnelInv
<1>16. Orderly
  <2>1. [Tunnel!VmWard!Next]_(Tunnel!VmWard!vars)
    <3>1. CASE gs = <<>>
      <4>1. rcvdVm' = rcvdVm
        BY <1>1, <1>3, <3>1, TunnelTypes, ConcatEmptySeq
      <4> QED
        BY <1>1, <4>1 DEF Tunnel!VmWard!vars
    <3>2. CASE gs # <<>>
      <4>1. PICK hs \in Seq(Tunnel!Frame) : sentVm = (rcvdVm \o gs) \o hs
        BY <1>2 DEF Delivers
      <4>2. sentVm \in Seq(Tunnel!Frame) /\ rcvdVm \in Seq(Tunnel!Frame)
        BY TunnelTypes
      <4>3. WholeFrames(sentVm, rcvdVm, gs)
        BY <3>2, <4>1, <4>2, ComesOut
      <4> QED
        BY <1>1, <1>3, <4>3
           DEF WholeFrames, Tunnel!VmWard!Next, Tunnel!VmWard!Receive
    <3> QED
      BY <3>1, <3>2
  <2>2. [Tunnel!HostWard!Next]_(Tunnel!HostWard!vars)
    BY <1>1, <1>7 DEF Tunnel!HostWard!vars, Tunnel!HostWard!Next, Tunnel!HostWard!Send
  <2> QED
    BY <2>1, <2>2 DEF Orderly
<1> QED
  BY <1>10, <1>11, <1>12, <1>13, <1>14, <1>15, <1>16
     DEF TunnelInv, TunnelSafe, Tunnel!TunnelSafe

LEMMA TunnelNext ==
  ASSUME Tunnel!ConstantsOK, TunnelInv, [Tunnel!Next]_(Tunnel!vars)
  PROVE  TunnelInv' /\ Orderly
<1>1. CASE Tunnel!Start \/ Tunnel!Connected \/ Tunnel!Refused \/ Tunnel!Stop
             \/ Tunnel!TcpCloses
  BY <1>1, LifeInv
<1>2. CASE Tunnel!Enter
  <2>1. ASSUME NEW c \in Channels, NEW size \in Tunnel!Lengths, Tunnel!VmDatagram(c, size)
        PROVE  TunnelInv' /\ Orderly
    BY <2>1, EnterHostInv
  <2>2. ASSUME NEW size \in Tunnel!Lengths,
               \/ \E c \in Channels :
                    Tunnel!HostDatagram(c, size) \/ Tunnel!InjectFrame(c, size)
               \/ \E ch \in {"echo", "unknown"} : Tunnel!SendEcho(ch, size)
        PROVE  TunnelInv' /\ Orderly
    BY <2>2, EnterVmInv
  <2> QED
    BY <1>2, <2>1, <2>2 DEF Tunnel!Enter
<1>3. CASE Tunnel!HostReads
  BY <1>3, HostChunkInv DEF Tunnel!HostReads
<1>4. CASE Tunnel!VmReads
  BY <1>4, VmChunkInv DEF Tunnel!VmReads
<1>5. CASE UNCHANGED Tunnel!vars
  <2> USE <1>5 DEF Tunnel!vars, Tunnel!host, Tunnel!guest, Tunnel!log
  <2>1. TunnelInv'
    <3>1. Tunnel!TypeOK' /\ Tunnel!FramingHolds' /\ Tunnel!RepliesFindSender'
      BY DEF TunnelInv, TunnelSafe, Tunnel!TunnelSafe, Tunnel!TypeOK,
             Tunnel!FramingHolds, Tunnel!RepliesFindSender, Tunnel!BadLength,
             Tunnel!Length
    <3> QED
      BY <3>1 DEF TunnelInv, TunnelSafe, Tunnel!TunnelSafe, Peers, Carries, AtRest
  <2>2. Orderly
    BY DEF Orderly, Tunnel!VmWard!vars, Tunnel!HostWard!vars
  <2> QED
    BY <2>1, <2>2
<1> QED
  BY <1>1, <1>2, <1>3, <1>4, <1>5 DEF Tunnel!Next

(* The composition takes steps of one part at a time.                      *)
LEMMA PartsRun ==
  MCSpec => /\ Tunnel!Init /\ [][Tunnel!Next]_(Tunnel!vars)
            /\ Playout!Init /\ [][Playout!Next]_(Playout!vars)
<1>1. MCInit => Tunnel!Init /\ Playout!Init
  BY DEF MCInit
<1>2. [MCNext]_all => [Tunnel!Next]_(Tunnel!vars) /\ [Playout!Next]_(Playout!vars)
  BY DEF MCNext, TunnelRuns, BridgeRuns, PlayoutRuns, ToHostRuns, ToVmRuns, Runs, all,
         tunnelVars, playoutVars, Tunnel!vars, Tunnel!host, Tunnel!guest, Tunnel!log,
         Playout!vars
<1> QED
  BY <1>1, <1>2, PTL DEF MCSpec

(* For any channels, sizes and numbers of frames, and however TCP cuts the *)
(* bytes: neither end meets a length it takes for a broken stream, the     *)
(* VM's stage buffer always has room to read into, and what answers a      *)
(* datagram finds the socket it came from.                                 *)
THEOREM TunnelSafeAlways == Tunnel!ConstantsOK => (MCSpec => []TunnelSafe)
<1>1. CASE Tunnel!ConstantsOK
  <2>1. Tunnel!Init => TunnelInv
    BY <1>1, TunnelInit
  <2>2. TunnelInv /\ [Tunnel!Next]_(Tunnel!vars) => TunnelInv'
    BY <1>1, TunnelNext
  <2>3. TunnelInv => TunnelSafe
    BY DEF TunnelInv
  <2> QED
    BY <2>1, <2>2, <2>3, PartsRun, PTL
<1> QED
  BY <1>1

(* And each direction implements the queue of frames: every frame that     *)
(* comes out is the next one that went in, whole.                          *)
THEOREM FramesKeepOrder == Tunnel!ConstantsOK => (MCSpec => FramesInOrder)
<1>1. CASE Tunnel!ConstantsOK
  <2>1. Tunnel!Init => TunnelInv
    BY <1>1, TunnelInit
  <2>2. TunnelInv /\ [Tunnel!Next]_(Tunnel!vars) => TunnelInv'
    BY <1>1, TunnelNext
  <2>3. Tunnel!Init => Tunnel!VmWard!Init /\ Tunnel!HostWard!Init
    BY DEF Tunnel!Init, Tunnel!VmWard!Init, Tunnel!HostWard!Init
  <2>4. TunnelInv /\ [Tunnel!Next]_(Tunnel!vars)
          => /\ [Tunnel!VmWard!Next]_(Tunnel!VmWard!vars)
             /\ [Tunnel!HostWard!Next]_(Tunnel!HostWard!vars)
    BY <1>1, TunnelNext DEF Orderly
  <2> QED
    BY <2>1, <2>2, <2>3, <2>4, PartsRun, PTL
       DEF FramesInOrder, Tunnel!FramesInOrder, Tunnel!VmWard!Order,
           Tunnel!HostWard!Order
<1> QED
  BY <1>1

(* The playout, as the other parts run too.                                *)
THEOREM PlayoutHoldsAlways == Playout!ConstantsOK => (MCSpec => PlayoutHolds)
<1>1. CASE Playout!ConstantsOK
  <2>1. Playout!Spec => Playout!PlayoutHolds
    BY <1>1, PlayoutAlways
  <2>2. Playout!Spec <=> Playout!Init /\ [][Playout!Next]_(Playout!vars)
    BY DEF Playout!Spec
  <2>3. PlayoutHolds <=> Playout!PlayoutHolds
    BY DEF PlayoutHolds
  <2> QED
    BY <2>1, <2>2, <2>3, PartsRun, PTL
<1> QED
  BY <1>1

-----------------------------------------------------------------------------
(* The framing of the control channel.  First, a frame and its bytes.      *)

Octet == 0 .. 255

(* What both ends agree to send.                                           *)
Sendable == {f \in Framing!Frame : Len(f.payload) <= WirePayload}

OctetsOf == [f \in Sendable |-> Framing!Encode(f)]

(* The bytes of frames are theirs, one after the other.                    *)
Stream == CHOOSE join : Joins(join, Sendable, Octet, OctetsOf)

LEMMA FramingNumbers ==
  ASSUME Framing!ConstantsOK
  PROVE  /\ Types \subseteq Octet /\ Bytes \subseteq Octet /\ Sizes \subseteq Nat
         /\ WirePayload \in Nat /\ WirePayload >= 1 /\ WirePayload < 65534
         /\ ToVmFrames \in Nat /\ ToHostFrames \in Nat
         /\ BadHeaders \in Nat /\ BadHeaders <= 1 /\ Framing!HeaderSize = 3
BY DEF Framing!ConstantsOK, Octet, Framing!HeaderSize

LEMMA Sent ==
  ASSUME Framing!ConstantsOK, NEW f \in Sendable
  PROVE  /\ f.type \in Octet /\ f.payload \in Seq(Octet)
         /\ Len(f.payload) \in 0 .. WirePayload
<1>1. f.type \in Types /\ f.payload \in Framing!Payloads /\ Len(f.payload) <= WirePayload
  BY DEF Sendable, Framing!Frame
<1>2. PICK n \in Sizes : f.payload \in [1 .. n -> Bytes]
  BY <1>1 DEF Framing!Payloads
<1>3. n \in Nat /\ f.payload \in [1 .. n -> Octet]
  BY <1>2, FramingNumbers
<1>4. f.payload \in Seq(Octet)
  BY <1>3
<1>5. Len(f.payload) \in Nat
  BY <1>4, LenProperties
<1> QED
  BY <1>1, <1>4, <1>5, FramingNumbers

(* A length of two bytes, little-endian.                                   *)
LEMMA TwoOctets ==
  ASSUME NEW n \in Nat, n < 65536
  PROVE  /\ Framing!LowByte(n) \in Octet /\ Framing!HighByte(n) \in Octet
         /\ Framing!LowByte(n) + 256 * Framing!HighByte(n) = n
<1>1. PICK r \in Int : r = n % 256
  OBVIOUS
<1>2. PICK q \in Int : q = n \div 256
  OBVIOUS
<1>3. r \in 0 .. 255 /\ n = 256 * q + r
  BY <1>1, <1>2
<1>4. q \in 0 .. 255
  BY <1>3
<1> QED
  BY <1>1, <1>2, <1>3, <1>4 DEF Octet, Framing!LowByte, Framing!HighByte

Heads(h, n, type) ==
  h \in Seq(Octet) /\ Len(h) = 3 /\ Framing!WireLen(h) = n /\ h[3] = type

LEMMA HeaderOctets ==
  ASSUME NEW n \in Nat, n < 65536, NEW type \in Octet
  PROVE  Heads(Framing!Header(n, type), n, type)
<1>1. PICK a \in Octet : a = Framing!LowByte(n)
  BY TwoOctets
<1>2. PICK b \in Octet : b = Framing!HighByte(n)
  BY TwoOctets
<1>3. a + 256 * b = n
  BY <1>1, <1>2, TwoOctets
<1> DEFINE h == <<a, b, type>>
<1>4. h \in Seq(Octet) /\ Len(h) = 3 /\ h[1] = a /\ h[2] = b /\ h[3] = type
  OBVIOUS
<1>5. h = Framing!Header(n, type)
  BY <1>1, <1>2 DEF Framing!Header
<1> HIDE DEF h
<1> QED
  BY <1>3, <1>4, <1>5 DEF Framing!WireLen, Heads

(* What a frame's bytes say of it.                                         *)
Says(e, f) ==
  /\ e \in Seq(Octet) /\ Len(e) = 3 + Len(f.payload) /\ Len(e) \in Nat
  /\ Framing!WireLen(e) = Len(f.payload) + 1 /\ e[3] = f.type
  /\ SubSeq(e, 4, Len(e)) = f.payload

LEMMA FrameOctets ==
  ASSUME Framing!ConstantsOK, NEW f \in Sendable
  PROVE  Says(Framing!Encode(f), f)
<1> DEFINE t == f.payload
           n == Len(t) + 1
           h == Framing!Header(n, f.type)
           e == h \o t
<1>1. f.type \in Octet /\ t \in Seq(Octet) /\ Len(t) \in 0 .. WirePayload
  BY Sent
<1>2. e = Framing!Encode(f)
  BY DEF Framing!Encode
<1> HIDE DEF t
<1>3. n \in Nat /\ n < 65536 /\ Len(t) \in Nat /\ n = Len(t) + 1
  <2>1. WirePayload \in Nat /\ WirePayload < 65534
    BY FramingNumbers
  <2>2. Len(t) \in Nat /\ Len(t) <= WirePayload
    BY <1>1, <2>1
  <2> QED
    BY <2>1, <2>2
<1> HIDE DEF n
<1>4. Heads(h, n, f.type)
  BY <1>1, <1>3, HeaderOctets
<1> HIDE DEF h
<1>5. h \in Seq(Octet) /\ Len(h) = 3 /\ Framing!WireLen(h) = n /\ h[3] = f.type
  BY <1>4 DEF Heads
<1>6. /\ e \in Seq(Octet) /\ Len(e) = 3 + Len(t)
      /\ e[1] = h[1] /\ e[2] = h[2] /\ e[3] = h[3]
  <2>1. /\ e \in Seq(Octet) /\ Len(e) = Len(h) + Len(t)
        /\ \A i \in 1 .. Len(h) + Len(t) : e[i] = IF i <= Len(h) THEN h[i] ELSE t[i - Len(h)]
    BY <1>1, <1>5, ConcatProperties
  <2>2. 1 \in 1 .. 3 + Len(t) /\ 2 \in 1 .. 3 + Len(t) /\ 3 \in 1 .. 3 + Len(t)
    BY <1>3
  <2> HIDE DEF e
  <2> QED
    BY <1>5, <2>1, <2>2
<1>7. SubSeq(e, 4, Len(e)) = t
  <2>1. SubSeq(e, Len(h) + 1, Len(e)) = t
    BY <1>1, <1>5, FrontOfTwo
  <2> HIDE DEF e
  <2> QED
    BY <1>5, <2>1
<1> HIDE DEF e
<1>8. Framing!WireLen(e) = n
  BY <1>5, <1>6 DEF Framing!WireLen
<1>9. Len(e) \in Nat
  BY <1>3, <1>6
<1>10. Says(e, f)
  BY <1>3, <1>5, <1>6, <1>7, <1>8, <1>9 DEF Says, t
<1> QED
  BY <1>2, <1>10

LEMMA StreamJoins ==
  ASSUME Framing!ConstantsOK
  PROVE  Joins(Stream, Sendable, Octet, OctetsOf)
<1>1. OctetsOf \in [Sendable -> Seq(Octet)]
  BY FrameOctets DEF OctetsOf, Says
<1>2. \E join : Joins(join, Sendable, Octet, OctetsOf)
  <2> DEFINE F == Sendable
             C == Octet
             code == OctetsOf
  <2>1. code \in [F -> Seq(C)]
    BY <1>1
  <2> HIDE DEF F, C, code
  <2>2. \E join : Joins(join, F, C, code)
    BY <2>1, JoinExists
  <2> QED
    BY <2>2 DEF F, C, code
<1> QED
  BY <1>2 DEF Stream

LEMMA Streams ==
  ASSUME Framing!ConstantsOK
  PROVE  /\ \A fs \in Seq(Sendable) : Stream[fs] \in Seq(Octet)
         /\ Stream[<<>>] = <<>>
         /\ \A f \in Sendable, fs \in Seq(Sendable) :
              /\ <<f>> \o fs \in Seq(Sendable)
              /\ Stream[<<f>> \o fs] = Framing!Encode(f) \o Stream[fs]
         /\ \A f \in Sendable : <<f>> \in Seq(Sendable) /\ Stream[<<f>>] = Framing!Encode(f)
         /\ \A fs, gs \in Seq(Sendable) : Stream[fs \o gs] = Stream[fs] \o Stream[gs]
<1>1. Joins(Stream, Sendable, Octet, OctetsOf)
  BY StreamJoins
<1>2. Extends(Stream, Sendable, OctetsOf)
  BY <1>1, JoinOfOne
<1>3. Splits(Stream, Sendable)
  BY <1>1, JoinOfTwo
<1>4. \A fs \in Seq(Sendable) : Stream[fs] \in Seq(Octet)
  BY <1>1 DEF Joins
<1>5. ASSUME NEW f \in Sendable
      PROVE  <<f>> \in Seq(Sendable) /\ Stream[<<f>>] = Framing!Encode(f)
  <2>1. <<f>> \in Seq(Sendable) /\ <<f>> \o <<>> = <<f>> /\ <<>> \in Seq(Sendable)
    BY ConcatEmptySeq, EmptySeq
  <2>2. Stream[<<f>> \o <<>>] = OctetsOf[f] \o Stream[<<>>] /\ Stream[<<>>] = <<>>
    BY <1>2, <2>1 DEF Extends
  <2>3. OctetsOf[f] = Framing!Encode(f) /\ Framing!Encode(f) \in Seq(Octet)
    BY FrameOctets DEF OctetsOf, Says
  <2>4. Framing!Encode(f) \o <<>> = Framing!Encode(f)
    BY <2>3, ConcatEmptySeq
  <2> QED
    BY <2>1, <2>2, <2>3, <2>4
<1>6. \A f \in Sendable : OctetsOf[f] = Framing!Encode(f)
  BY DEF OctetsOf
<1> QED
  BY <1>2, <1>3, <1>4, <1>5, <1>6 DEF Extends, Splits


(* Bytes that begin with a frame's.                                        *)
Beyond(s) == SubSeq(s, Framing!FrameSize(s) + 1, Len(s))

(* The header is there.                                                    *)
Headed(s, f) ==
  /\ Framing!WireLen(s) = Len(f.payload) + 1
  /\ Framing!FrameSize(s) = Len(Framing!Encode(f))
  /\ ~Framing!BadLength(s)

(* The frame is there.                                                     *)
Whole(s, t, f, c) ==
  /\ Headed(s, f) /\ s[3] = f.type
  /\ SubSeq(s, 4, Framing!FrameSize(s)) = f.payload
  /\ Beyond(s) \in Seq(Octet) /\ Beyond(s) \o t = c

LEMMA HeaderFirst ==
  ASSUME Framing!ConstantsOK, NEW f \in Sendable, NEW s \in Seq(Octet),
         NEW t \in Seq(Octet), NEW c \in Seq(Octet),
         s \o t = Framing!Encode(f) \o c, Len(s) >= 3
  PROVE  Headed(s, f) /\ s[3] = f.type
<1> DEFINE e == Framing!Encode(f)
           n == Len(f.payload)
<1>1. Says(e, f)
  BY FrameOctets
<1>2. n \in 0 .. WirePayload /\ WirePayload \in Nat
  <2>1. WirePayload \in Nat
    BY FramingNumbers
  <2> QED
    BY <2>1, Sent
<1>3. Overlap(s, t, e, c)
  <2>1. e \in Seq(Octet) /\ s \o t = e \o c
    BY <1>1 DEF Says
  <2> HIDE DEF e
  <2> QED
    BY <2>1, SamePrefix
<1> HIDE DEF e
<1>4. /\ Len(e) = 3 + n /\ Len(e) \in Nat /\ Framing!WireLen(e) = n + 1
      /\ e[3] = f.type
  BY <1>1 DEF Says
<1> HIDE DEF n
<1>5. /\ 1 \in 1 .. Len(s) /\ 2 \in 1 .. Len(s) /\ 3 \in 1 .. Len(s)
      /\ 1 <= Len(e) /\ 2 <= Len(e) /\ 3 <= Len(e)
  <2>1. Len(s) \in Nat
    BY LenProperties
  <2> QED
    BY <1>2, <1>4, <2>1
<1>6. s[1] = e[1] /\ s[2] = e[2] /\ s[3] = e[3]
  BY <1>3, <1>5 DEF Overlap
<1>7. Framing!WireLen(s) = n + 1
  BY <1>4, <1>6 DEF Framing!WireLen
<1>8. Framing!FrameSize(s) = Len(e)
  BY <1>2, <1>4, <1>7 DEF Framing!FrameSize, Framing!HeaderSize
<1>9. ~Framing!BadLength(s)
  BY <1>2, <1>7 DEF Framing!BadLength
<1> QED
  BY <1>4, <1>6, <1>7, <1>8, <1>9 DEF Headed, e, n

(* The bytes behind the first, of a sequence that begins with another.     *)
LEMMA PartOfPrefix ==
  ASSUME NEW S, NEW e \in Seq(S), NEW b \in Seq(S), NEW k \in 1 .. Len(e) + 1
  PROVE  SubSeq(e \o b, k, Len(e)) = SubSeq(e, k, Len(e))
<1> DEFINE s == e \o b
           n == Len(e)
<1>1. /\ s \in Seq(S) /\ Len(s) = n + Len(b) /\ n \in Nat /\ Len(b) \in Nat
      /\ \A i \in 1 .. n : s[i] = e[i] /\ e[i] \in S
  <2>1. n \in Nat /\ Len(b) \in Nat /\ \A i \in 1 .. n : i \in 1 .. n + Len(b) /\ i <= n
    BY LenProperties
  <2> QED
    BY <2>1, ConcatProperties, ElementOfSeq
<1> HIDE DEF s
<1>2. \A i \in k .. n : e[i] \in S /\ s[i] = e[i] /\ s[i] \in S
  <2>1. \A i \in k .. n : i \in 1 .. n
    BY <1>1
  <2> QED
    BY <1>1, <2>1
<1>3. k \in Nat \ {0} /\ n \in Nat /\ k - 1 <= n
  BY <1>1
<1> DEFINE x == SubSeq(e, k, n)
           y == SubSeq(s, k, n)
<1>4. /\ x \in Seq(S) /\ Len(x) = IF k <= n THEN n - k + 1 ELSE 0
      /\ \A i \in 1 .. n - k + 1 : x[i] = e[k + i - 1]
  <2> HIDE DEF n
  <2> QED
    BY <1>2, <1>3, SubSeqProperties
<1>5. /\ y \in Seq(S) /\ Len(y) = IF k <= n THEN n - k + 1 ELSE 0
      /\ \A i \in 1 .. n - k + 1 : y[i] = s[k + i - 1]
  <2> HIDE DEF n
  <2> QED
    BY <1>1, <1>2, <1>3, SubSeqProperties
<1> HIDE DEF x, y
<1>6. Len(x) = Len(y) /\ \A i \in 1 .. Len(x) : x[i] = y[i]
  <2>1. \A i \in 1 .. Len(x) : i \in 1 .. n - k + 1 /\ k + i - 1 \in k .. n
    BY <1>3, <1>4
  <2>2. ASSUME NEW i \in 1 .. Len(x) PROVE x[i] = y[i]
    <3>1. x[i] = e[k + i - 1] /\ y[i] = s[k + i - 1]
      BY <1>4, <1>5, <2>1
    <3> QED
      BY <1>2, <2>1, <3>1
  <2> QED
    BY <1>4, <1>5, <2>2
<1>7. x = y
  BY <1>4, <1>5, <1>6, SeqEqual
<1> QED
  BY <1>7 DEF x, y, s, n

LEMMA FrameFirst ==
  ASSUME Framing!ConstantsOK, NEW f \in Sendable, NEW s \in Seq(Octet),
         NEW t \in Seq(Octet), NEW c \in Seq(Octet),
         s \o t = Framing!Encode(f) \o c, Len(s) >= Len(Framing!Encode(f))
  PROVE  Whole(s, t, f, c)
<1> DEFINE e == Framing!Encode(f)
           n == Len(e)
           b == SubSeq(s, n + 1, Len(s))
<1>1. Says(e, f)
  BY FrameOctets
<1>2. e \in Seq(Octet) /\ n = 3 + Len(f.payload) /\ n \in Nat /\ SubSeq(e, 4, n) = f.payload
  BY <1>1 DEF Says
<1>3. Len(f.payload) \in Nat /\ Len(s) \in Nat
  BY Sent, LenProperties
<1>4. Len(s) >= 3 /\ n >= 3 /\ n <= Len(s)
  BY <1>2, <1>3
<1>5. Headed(s, f) /\ s[3] = f.type
  BY <1>4, HeaderFirst
<1>6. Overlap(s, t, e, c)
  <2> HIDE DEF e
  <2> QED
    BY <1>2, SamePrefix DEF e
<1> HIDE DEF e
<1>7. SubSeq(s, 1, n) = e /\ b \o t = c
  BY <1>4, <1>6 DEF Overlap
<1>8. b \in Seq(Octet) /\ e \o b = s
  <2>1. n \in 0 .. Len(s)
    BY <1>2, <1>3, <1>4
  <2>2. b \in Seq(Octet) /\ SubSeq(s, 1, n) \o b = s
    BY <2>1, CutInTwo
  <2> HIDE DEF b, n
  <2> QED
    BY <1>7, <2>2
<1> HIDE DEF b
<1>9. SubSeq(s, 4, n) = f.payload
  <2>1. 4 \in 1 .. Len(e) + 1
    BY <1>2, <1>4
  <2>2. SubSeq(e \o b, 4, Len(e)) = SubSeq(e, 4, Len(e))
    BY <1>2, <1>8, <2>1, PartOfPrefix
  <2> QED
    BY <1>2, <1>8, <2>2
<1>10. Framing!FrameSize(s) = n
  BY <1>5 DEF Headed, e
<1>11. Beyond(s) = b
  BY <1>10 DEF Beyond, b
<1> QED
  BY <1>5, <1>7, <1>8, <1>9, <1>10, <1>11 DEF Whole

(* What a loop computes that is written as a recursive function over all   *)
(* sequences, if each step from a result of the right kind is known.       *)
LEMMA Loop ==
  ASSUME NEW D, NEW T, NEW rank, NEW Rec, NEW on, NEW stop, NEW step,
         Recursive(D, T, rank, Rec, on, stop, step),
         NEW g, DOMAIN g = D, g = [d \in DOMAIN g |-> g[d]],
         \A d \in D : d \notin Rec => g[d] = stop[d],
         \A d \in Rec : g[on[d]] \in T => g[d] = step[d][g[on[d]]]
  PROVE  Solves(g, D, T, Rec, on, stop, step)
<1>1. /\ rank \in [D -> Nat] /\ Rec \subseteq D /\ on \in [Rec -> D]
      /\ \A d \in Rec : rank[on[d]] < rank[d]
      /\ stop \in [D -> T] /\ step \in [D -> [T -> T]]
  BY DEF Recursive
<1> DEFINE N == {n \in Nat : \A d \in D : rank[d] <= n => g[d] \in T}
<1>2. ASSUME NEW d \in Rec, g[on[d]] \in T PROVE g[d] \in T
  BY <1>1, <1>2
<1>3. 0 \in N
  <2> SUFFICES ASSUME NEW d \in D, rank[d] <= 0 PROVE g[d] \in T
    OBVIOUS
  <2>1. d \notin Rec
    BY <1>1
  <2> QED
    BY <1>1, <2>1
<1>4. ASSUME NEW n \in Nat, n \in N PROVE n + 1 \in N
  <2> SUFFICES ASSUME NEW d \in D, rank[d] <= n + 1 PROVE g[d] \in T
    OBVIOUS
  <2>1. CASE d \in Rec
    <3>1. on[d] \in D /\ rank[on[d]] <= n
      <4>1. on[d] \in D /\ rank[on[d]] \in Nat /\ rank[d] \in Nat /\ rank[on[d]] < rank[d]
        BY <1>1, <2>1
      <4> QED
        BY <4>1
    <3>2. g[on[d]] \in T
      BY <1>4, <3>1
    <3> QED
      BY <1>2, <2>1, <3>2
  <2> QED
    BY <1>1, <2>1
<1> HIDE DEF N
<1>5. \A n \in Nat : n \in N
  BY <1>3, <1>4, SetInduction
<1>6. \A d \in D : g[d] \in T
  <2> TAKE d \in D
  <2>1. rank[d] \in Nat /\ rank[d] \in N
    BY <1>1, <1>5
  <2> QED
    BY <2>1 DEF N
<1>7. g \in [D -> T]
  BY <1>6
<1>8. \A d \in D : g[d] = IF d \in Rec THEN step[d][g[on[d]]] ELSE stop[d]
  BY <1>1, <1>6
<1> QED
  BY <1>7, <1>8 DEF Solves

(* The loop of the host's parser.                                          *)
Heard == [type : Octet, payload : Seq(Octet)]
Fed == [frames : Seq(Heard), rest : Seq(Octet), fatal : BOOLEAN]

FirstOf(s) == [type |-> s[3], payload |-> SubSeq(s, 4, Framing!FrameSize(s))]

Goes(s) == Len(s) >= 3 /\ ~Framing!BadLength(s) /\ Len(s) >= Framing!FrameSize(s)
Stopped(s) ==
  IF Len(s) >= 3 /\ Framing!BadLength(s)
  THEN [frames |-> <<>>, rest |-> <<>>, fatal |-> TRUE]
  ELSE [frames |-> <<>>, rest |-> s, fatal |-> FALSE]
FedOn(s, more) ==
  [frames |-> <<FirstOf(s)>> \o more.frames, rest |-> more.rest, fatal |-> more.fatal]

LEMMA Numerals ==
  ASSUME NEW s \in Seq(Octet), Len(s) >= 3
  PROVE  /\ Len(s) \in Nat /\ s[1] \in Octet /\ s[2] \in Octet /\ s[3] \in Octet
         /\ Framing!WireLen(s) \in Nat /\ Framing!FrameSize(s) \in Nat
         /\ Framing!FrameSize(s) >= 2
         /\ Framing!FrameSize(s) = 2 + Framing!WireLen(s)
<1>1. Len(s) \in Nat
  BY LenProperties
<1>2. 1 \in 1 .. Len(s) /\ 2 \in 1 .. Len(s) /\ 3 \in 1 .. Len(s)
  BY <1>1
<1>3. s[1] \in Octet /\ s[2] \in Octet /\ s[3] \in Octet
  BY <1>2, ElementOfSeq
<1>4. s[1] \in Nat /\ s[2] \in Nat
  <2>1. \A x \in Octet : x \in Nat
    BY DEF Octet
  <2> QED
    BY <1>3, <2>1
<1>5. Framing!WireLen(s) \in Nat
  BY <1>4 DEF Framing!WireLen
<1>6. Framing!FrameSize(s) = 3 + Framing!WireLen(s) - 1
  BY DEF Framing!FrameSize, Framing!HeaderSize
<1> QED
  BY <1>1, <1>3, <1>5, <1>6

LEMMA BeyondFrame ==
  ASSUME NEW s \in Seq(Octet), Len(s) >= 3, Len(s) >= Framing!FrameSize(s)
  PROVE  Beyond(s) \in Seq(Octet) /\ Len(Beyond(s)) < Len(s)
         /\ Len(Beyond(s)) = Len(s) - Framing!FrameSize(s)
<1> DEFINE n == Framing!FrameSize(s)
<1>1. Len(s) \in Nat /\ n \in Nat /\ n >= 2 /\ n <= Len(s)
  BY Numerals
<1> HIDE DEF n
<1>2. n \in 0 .. Len(s)
  BY <1>1
<1>3. /\ SubSeq(s, n + 1, Len(s)) \in Seq(Octet)
      /\ Len(SubSeq(s, n + 1, Len(s))) = Len(s) - n
  BY <1>2, CutInTwo
<1>4. Beyond(s) = SubSeq(s, n + 1, Len(s))
  BY DEF Beyond, n
<1> QED
  BY <1>1, <1>3, <1>4 DEF n

LEMMA PartOf ==
  ASSUME NEW s \in Seq(Octet), NEW n \in Nat, n <= Len(s)
  PROVE  SubSeq(s, 4, n) \in Seq(Octet)
         /\ Len(SubSeq(s, 4, n)) = IF 4 <= n THEN n - 3 ELSE 0
<1>1. \A i \in 4 .. n : s[i] \in Octet
  <2>1. \A i \in 4 .. n : i \in 1 .. Len(s)
    BY LenProperties
  <2> QED
    BY <2>1, ElementOfSeq
<1>2. /\ SubSeq(s, 4, n) \in Seq(Octet)
      /\ Len(SubSeq(s, 4, n)) = IF 4 <= n THEN n - 4 + 1 ELSE 0
  BY <1>1, SubSeqProperties
<1> QED
  BY <1>2

LEMMA FirstIsHeard ==
  ASSUME NEW s \in Seq(Octet), Len(s) >= 3, Len(s) >= Framing!FrameSize(s)
  PROVE  FirstOf(s) \in Heard
<1>1. SubSeq(s, 4, Framing!FrameSize(s)) \in Seq(Octet)
  BY PartOf, Numerals
<1> QED
  BY <1>1, Numerals DEF FirstOf, Heard

LEMMA ExceptFrames ==
  ASSUME NEW F, NEW R, NEW B, NEW more \in [frames : F, rest : R, fatal : B], NEW x
  PROVE  [more EXCEPT !.frames = x]
           = [frames |-> x, rest |-> more.rest, fatal |-> more.fatal]
OBVIOUS

LEMMA FeedEquation ==
  ASSUME Framing!ConstantsOK
  PROVE  /\ Framing!Feed \in [Seq(Octet) -> Fed]
         /\ \A s \in Seq(Octet) :
              Framing!Feed[s] = IF Goes(s) THEN FedOn(s, Framing!Feed[Beyond(s)])
                                ELSE Stopped(s)
<1> DEFINE D == Seq(Octet)
           T == Fed
           rank == [d \in D |-> Len(d)]
           Rec == {d \in D : Goes(d)}
           on == [d \in Rec |-> Beyond(d)]
           stop == [d \in D |-> Stopped(d)]
           step == [d \in D |-> [t \in T |-> IF d \in Rec THEN FedOn(d, t) ELSE t]]
           More(g, s) == g[SubSeq(s, Framing!FrameSize(s) + 1, Len(s))]
           One(s) == [type |-> s[3],
                      payload |-> SubSeq(s, Framing!HeaderSize + 1, Framing!FrameSize(s))]
           Value(g, s) ==
             IF Len(s) < Framing!HeaderSize
             THEN [frames |-> <<>>, rest |-> s, fatal |-> FALSE]
             ELSE IF Framing!BadLength(s)
             THEN [frames |-> <<>>, rest |-> <<>>, fatal |-> TRUE]
             ELSE IF Len(s) < Framing!FrameSize(s)
             THEN [frames |-> <<>>, rest |-> s, fatal |-> FALSE]
             ELSE [More(g, s) EXCEPT !.frames = <<One(s)>> \o @]
           Is(g) == g = [s \in Seq(0 .. 255) |-> Value(g, s)]
<1>1. /\ rank \in [D -> Nat] /\ Rec \subseteq D /\ on \in [Rec -> D]
      /\ \A d \in Rec : rank[on[d]] < rank[d]
  BY BeyondFrame, LenProperties DEF Goes
<1>2. stop \in [D -> T]
  <2>1. \A s \in D : Stopped(s) \in T
    BY EmptySeq DEF Stopped, Fed
  <2> HIDE DEF D, T
  <2> QED
    BY <2>1
<1>3. \A d \in Rec, t \in T : FedOn(d, t) \in T
  <2> TAKE d \in Rec, t \in T
  <2>1. FirstOf(d) \in Heard
    BY FirstIsHeard DEF Goes
  <2>2. t.frames \in Seq(Heard) /\ t.rest \in Seq(Octet) /\ t.fatal \in BOOLEAN
    BY DEF Fed
  <2>3. <<FirstOf(d)>> \o t.frames \in Seq(Heard)
    BY <2>1, <2>2, ConcatProperties
  <2> QED
    BY <2>2, <2>3 DEF FedOn, Fed
<1>4. step \in [D -> [T -> T]]
  <2> HIDE DEF D, T, Rec
  <2> QED
    BY <1>3
<1>5. Recursive(D, T, rank, Rec, on, stop, step)
  <2> HIDE DEF D, T, rank, Rec, on, stop, step
  <2> QED
    BY <1>1, <1>2, <1>4 DEF Recursive
<1>6. ASSUME NEW g, NEW s \in D, s \notin Rec
      PROVE  Value(g, s) = stop[s]
  <2>1. Len(s) \in Nat /\ (Len(s) >= 3 => Framing!FrameSize(s) \in Nat)
    BY LenProperties, Numerals
  <2>2. ~Goes(s)
    BY <1>6
  <2> DEFINE wait == [frames |-> <<>>, rest |-> s, fatal |-> FALSE]
             lost == [frames |-> <<>>, rest |-> <<>>, fatal |-> TRUE]
             go == [More(g, s) EXCEPT !.frames = <<One(s)>> \o @]
  <2>3. Value(g, s) = IF Len(s) < 3 THEN wait
                      ELSE IF Framing!BadLength(s) THEN lost
                      ELSE IF Len(s) < Framing!FrameSize(s) THEN wait ELSE go
    BY DEF Framing!HeaderSize
  <2>4. Stopped(s) = IF Len(s) >= 3 /\ Framing!BadLength(s) THEN lost ELSE wait
    BY DEF Stopped
  <2> HIDE DEF wait, lost, go, Value
  <2>5. Value(g, s) = Stopped(s)
    BY <2>1, <2>2, <2>3, <2>4 DEF Goes
  <2> QED
    BY <2>5
<1>7. ASSUME NEW g, NEW s \in Rec, g[on[s]] \in T
      PROVE  Value(g, s) = step[s][g[on[s]]]
  <2> DEFINE m == More(g, s)
             x == <<One(s)>> \o m.frames
  <2>1. s \in D /\ Goes(s) /\ m = g[on[s]] /\ m \in T
    BY <1>7 DEF Beyond
  <2>2. Value(g, s) = [m EXCEPT !.frames = x]
    <3>1. Len(s) \in Nat /\ Framing!FrameSize(s) \in Nat
      BY <2>1, LenProperties, Numerals DEF Goes
    <3>2. /\ ~(Len(s) < Framing!HeaderSize) /\ ~Framing!BadLength(s)
          /\ ~(Len(s) < Framing!FrameSize(s))
      BY <2>1, <3>1 DEF Goes, Framing!HeaderSize
    <3> QED
      BY <3>2
  <2>3. x = <<FirstOf(s)>> \o m.frames
    <3>1. One(s) = FirstOf(s)
      BY DEF FirstOf, Framing!HeaderSize
    <3> QED
      BY <3>1
  <2> HIDE DEF x, Value
  <2>4. [m EXCEPT !.frames = x] = [frames |-> x, rest |-> m.rest, fatal |-> m.fatal]
    <3> HIDE DEF m
    <3> QED
      BY <2>1, ExceptFrames DEF Fed
  <2>5. Value(g, s) = FedOn(s, m)
    BY <2>2, <2>3, <2>4 DEF FedOn
  <2>6. step[s][m] = FedOn(s, m)
    <3> HIDE DEF m, D, T, Rec
    <3> QED
      BY <2>1
  <2> QED
    BY <2>1, <2>5, <2>6
<1>8. PICK f : Solves(f, D, T, Rec, on, stop, step)
  <2> HIDE DEF D, T, rank, Rec, on, stop, step
  <2> QED
    BY <1>5, Recursion
<1>9. Is(f)
  <2>1. /\ f \in [D -> T]
        /\ \A d \in D : f[d] = IF d \in Rec THEN step[d][f[on[d]]] ELSE stop[d]
    <3> HIDE DEF D, T, Rec, on, stop, step
    <3> QED
      BY <1>8 DEF Solves
  <2>2. \A s \in D : f[s] = Value(f, s)
    <3> TAKE s \in D
    <3>1. CASE s \in Rec
      <4>1. on[s] \in D /\ f[on[s]] \in T
        <5> HIDE DEF D, T, Rec, on
        <5> QED
          BY <1>1, <2>1, <3>1
      <4>2. Value(f, s) = step[s][f[on[s]]]
        <5> HIDE DEF D, T, Rec, on, step, Value
        <5> QED
          BY <1>7, <3>1, <4>1
      <4> HIDE DEF D, T, Rec, on, step, stop, Value
      <4> QED
        BY <2>1, <3>1, <4>2
    <3>2. CASE s \notin Rec
      <4> HIDE DEF D, T, Rec, on, step, stop, Value
      <4> QED
        BY <1>6, <2>1, <3>2
    <3> QED
      BY <3>1, <3>2
  <2>3. f = [s \in D |-> f[s]]
    BY <2>1
  <2>4. f = [s \in D |-> Value(f, s)]
    <3> HIDE DEF Value, D
    <3> QED
      BY <2>2, <2>3
  <2> HIDE DEF Value
  <2> QED
    BY <2>4 DEF Octet
<1> DEFINE feed == Framing!Feed
<1>10. Is(feed)
  <2>1. Framing!Feed = CHOOSE g : Is(g)
    BY SMTT(30) DEF Framing!Feed
  <2> HIDE DEF Is
  <2> QED
    BY <1>9, <2>1
<1> HIDE DEF feed
<1>11. feed = [s \in D |-> Value(feed, s)]
  <2> HIDE DEF Value
  <2> QED
    BY <1>10 DEF Octet
<1>12. DOMAIN feed = D /\ feed = [s \in DOMAIN feed |-> feed[s]]
       /\ \A s \in D : feed[s] = Value(feed, s)
  <2> HIDE DEF Value, D
  <2> QED
    BY <1>11
<1>13. Solves(feed, D, T, Rec, on, stop, step)
  <2>1. \A s \in D : s \notin Rec => feed[s] = stop[s]
    <3> HIDE DEF D, T, Rec, on, step, stop, Value
    <3> QED
      BY <1>6, <1>12
  <2>2. \A s \in Rec : feed[on[s]] \in T => feed[s] = step[s][feed[on[s]]]
    <3> HIDE DEF D, T, Rec, on, step, stop, Value
    <3> QED
      BY <1>1, <1>7, <1>12
  <2> HIDE DEF D, T, rank, Rec, on, step, stop, Value
  <2> QED
    BY <1>5, <1>12, <2>1, <2>2, Loop
<1>14. /\ feed \in [D -> T]
       /\ \A d \in D : feed[d] = IF d \in Rec THEN step[d][feed[on[d]]] ELSE stop[d]
  <2> HIDE DEF D, T, Rec, on, step, stop
  <2> QED
    BY <1>13 DEF Solves
<1>15. ASSUME NEW s \in D
       PROVE  feed[s] = IF Goes(s) THEN FedOn(s, feed[Beyond(s)]) ELSE Stopped(s)
  <2>1. CASE s \in Rec
    <3>1. on[s] = Beyond(s) /\ Beyond(s) \in D /\ feed[Beyond(s)] \in T
      <4>1. on[s] = Beyond(s)
        BY <2>1
      <4> HIDE DEF D, T, Rec, on
      <4> QED
        BY <1>1, <1>14, <2>1, <4>1
    <3>2. feed[s] = step[s][feed[Beyond(s)]]
      <4> HIDE DEF D, T, Rec, on, step, stop
      <4> QED
        BY <1>14, <2>1, <3>1
    <3>3. step[s][feed[Beyond(s)]] = FedOn(s, feed[Beyond(s)])
      <4> HIDE DEF D, T, Rec, on
      <4> QED
        BY <1>15, <2>1, <3>1
    <3> QED
      BY <2>1, <3>2, <3>3
  <2>2. CASE s \notin Rec
    <3>1. feed[s] = stop[s]
      <4> HIDE DEF D, T, Rec, on, step, stop
      <4> QED
        BY <1>14, <2>2
    <3> QED
      BY <2>2, <3>1
  <2> QED
    BY <2>1, <2>2
<1> QED
  BY <1>14, <1>15 DEF feed

(* The loop of modemd-ctrl, which looks at a frame's payload after the     *)
(* bytes behind the frame have been moved to the front.                    *)
VmFed == [frames : Seq(Heard), rest : Seq(Octet)]

VmGoes(s) == Len(s) >= 3 /\ Len(s) >= Framing!FrameSize(s)
Left(s) == Framing!Memory(s, Beyond(s))
VmFirstOf(s) == [type |-> s[3], payload |-> SubSeq(Left(s), 4, Framing!FrameSize(s))]
Waits(s) == [frames |-> <<>>, rest |-> s]
VmFedOn(s, more) ==
  [frames |-> <<VmFirstOf(s)>> \o more.frames, rest |-> more.rest]

LEMMA MemoryIsKept ==
  ASSUME NEW s \in Seq(Octet), NEW r \in Seq(Octet)
  PROVE  Framing!Memory(s, r) \in Seq(Octet) /\ Len(Framing!Memory(s, r)) = Len(s)
<1> DEFINE m == [i \in 1 .. Len(s) |-> IF i <= Len(r) THEN r[i] ELSE s[i]]
<1>1. Len(s) \in Nat /\ Len(r) \in Nat /\ DOMAIN s = 1 .. Len(s)
  BY LenProperties
<1>2. \A i \in 1 .. Len(s) : m[i] \in Octet
  <2> TAKE i \in 1 .. Len(s)
  <2>1. CASE i <= Len(r)
    <3>1. i \in 1 .. Len(r)
      BY <1>1, <2>1
    <3> QED
      BY <2>1, <3>1, ElementOfSeq
  <2>2. CASE ~(i <= Len(r))
    BY <2>2, ElementOfSeq
  <2> QED
    BY <2>1, <2>2
<1>3. m \in [1 .. Len(s) -> Octet]
  BY <1>2
<1> HIDE DEF m
<1>4. m \in Seq(Octet) /\ DOMAIN m = 1 .. Len(s)
  BY <1>1, <1>3
<1>5. Len(m) = Len(s)
  BY <1>1, <1>4, LenProperties
<1>6. m = Framing!Memory(s, r)
  BY <1>1 DEF m, Framing!Memory
<1> QED
  BY <1>4, <1>5, <1>6

(* So a frame's type and length are what they were, whatever its payload.  *)
LEMMA VmFirstIsHeard ==
  ASSUME NEW s \in Seq(Octet), Len(s) >= 3, Len(s) >= Framing!FrameSize(s)
  PROVE  /\ VmFirstOf(s) \in Heard /\ VmFirstOf(s).type = s[3]
         /\ Len(VmFirstOf(s).payload) = IF 4 <= Framing!FrameSize(s)
                                        THEN Framing!FrameSize(s) - 3 ELSE 0
<1>1. Left(s) \in Seq(Octet) /\ Len(Left(s)) = Len(s)
  BY BeyondFrame, MemoryIsKept DEF Left
<1>2. Framing!FrameSize(s) \in Nat /\ s[3] \in Octet
  BY Numerals
<1> DEFINE p == SubSeq(Left(s), 4, Framing!FrameSize(s))
<1>3. /\ p \in Seq(Octet)
      /\ Len(p) = IF 4 <= Framing!FrameSize(s) THEN Framing!FrameSize(s) - 3 ELSE 0
  <2> DEFINE l == Left(s)
             n == Framing!FrameSize(s)
  <2>1. l \in Seq(Octet) /\ n \in Nat /\ n <= Len(l)
    BY <1>1, <1>2
  <2> HIDE DEF l, n
  <2>2. SubSeq(l, 4, n) \in Seq(Octet) /\ Len(SubSeq(l, 4, n)) = IF 4 <= n THEN n - 3 ELSE 0
    BY <2>1, PartOf
  <2> QED
    BY <2>2 DEF l, n
<1>4. VmFirstOf(s) = [type |-> s[3], payload |-> p]
  BY DEF VmFirstOf
<1> HIDE DEF p
<1> QED
  BY <1>2, <1>3, <1>4 DEF Heard

LEMMA VmFeedEquation ==
  ASSUME Framing!ConstantsOK
  PROVE  /\ Framing!VmFeed \in [Seq(Octet) -> VmFed]
         /\ \A s \in Seq(Octet) :
              Framing!VmFeed[s] = IF VmGoes(s) THEN VmFedOn(s, Framing!VmFeed[Beyond(s)])
                                ELSE Waits(s)
<1> DEFINE D == Seq(Octet)
           T == VmFed
           rank == [d \in D |-> Len(d)]
           Rec == {d \in D : VmGoes(d)}
           on == [d \in Rec |-> Beyond(d)]
           stop == [d \in D |-> Waits(d)]
           step == [d \in D |-> [t \in T |-> IF d \in Rec THEN VmFedOn(d, t) ELSE t]]
           More(g, s) == g[Framing!TryParse(s).rest]
           One(s) == [type |-> Framing!TryParse(s).type,
                      payload |-> Framing!TryParse(s).payload]
           Value(g, s) ==
             IF Len(s) < Framing!HeaderSize \/ Len(s) < Framing!FrameSize(s)
             THEN [frames |-> <<>>, rest |-> s]
             ELSE [More(g, s) EXCEPT !.frames = <<One(s)>> \o @]
           Is(g) == g = [s \in Seq(0 .. 255) |-> Value(g, s)]
<1>1. /\ rank \in [D -> Nat] /\ Rec \subseteq D /\ on \in [Rec -> D]
      /\ \A d \in Rec : rank[on[d]] < rank[d]
  BY BeyondFrame, LenProperties DEF VmGoes
<1>2. stop \in [D -> T]
  <2>1. \A s \in D : Waits(s) \in T
    BY EmptySeq DEF Waits, VmFed
  <2> HIDE DEF D, T
  <2> QED
    BY <2>1
<1>3. \A d \in Rec, t \in T : VmFedOn(d, t) \in T
  <2> TAKE d \in Rec, t \in T
  <2>1. VmFirstOf(d) \in Heard
    BY VmFirstIsHeard DEF VmGoes
  <2>2. t.frames \in Seq(Heard) /\ t.rest \in Seq(Octet)
    BY DEF VmFed
  <2>3. <<VmFirstOf(d)>> \o t.frames \in Seq(Heard)
    BY <2>1, <2>2, ConcatProperties
  <2> QED
    BY <2>2, <2>3 DEF VmFedOn, VmFed
<1>4. step \in [D -> [T -> T]]
  <2> HIDE DEF D, T, Rec
  <2> QED
    BY <1>3
<1>5. Recursive(D, T, rank, Rec, on, stop, step)
  <2> HIDE DEF D, T, rank, Rec, on, stop, step
  <2> QED
    BY <1>1, <1>2, <1>4 DEF Recursive
<1>6. ASSUME NEW g, NEW s \in D, s \notin Rec
      PROVE  Value(g, s) = stop[s]
  <2>1. Len(s) \in Nat /\ (Len(s) >= 3 => Framing!FrameSize(s) \in Nat)
    BY LenProperties, Numerals
  <2>2. ~VmGoes(s)
    BY <1>6
  <2>3. Value(g, s) = [frames |-> <<>>, rest |-> s]
    BY <2>1, <2>2 DEF VmGoes, Framing!HeaderSize
  <2> QED
    BY <2>3 DEF Waits
<1>7. ASSUME NEW g, NEW s \in Rec, g[on[s]] \in T
      PROVE  Value(g, s) = step[s][g[on[s]]]
  <2> DEFINE m == More(g, s)
             x == <<One(s)>> \o m.frames
  <2>1. s \in D /\ VmGoes(s) /\ m = g[on[s]] /\ m \in T
    BY <1>7 DEF Beyond, Framing!TryParse
  <2>2. Value(g, s) = [m EXCEPT !.frames = x]
    <3>1. Len(s) \in Nat /\ Framing!FrameSize(s) \in Nat
      BY <2>1, LenProperties, Numerals DEF VmGoes
    <3>2. ~(Len(s) < Framing!HeaderSize) /\ ~(Len(s) < Framing!FrameSize(s))
      BY <2>1, <3>1 DEF VmGoes, Framing!HeaderSize
    <3> QED
      BY <3>2
  <2>3. x = <<VmFirstOf(s)>> \o m.frames
    <3>1. One(s) = VmFirstOf(s)
      BY DEF VmFirstOf, Left, Beyond, Framing!TryParse, Framing!HeaderSize
    <3> QED
      BY <3>1
  <2> HIDE DEF x, Value
  <2>4. [m EXCEPT !.frames = x] = [frames |-> x, rest |-> m.rest]
    <3> HIDE DEF m
    <3> QED
      BY <2>1, OneField DEF VmFed
  <2>5. Value(g, s) = VmFedOn(s, m)
    BY <2>2, <2>3, <2>4 DEF VmFedOn
  <2>6. step[s][m] = VmFedOn(s, m)
    <3> HIDE DEF m, D, T, Rec
    <3> QED
      BY <2>1
  <2> QED
    BY <2>1, <2>5, <2>6
<1>8. PICK f : Solves(f, D, T, Rec, on, stop, step)
  <2> HIDE DEF D, T, rank, Rec, on, stop, step
  <2> QED
    BY <1>5, Recursion
<1>9. Is(f)
  <2>1. /\ f \in [D -> T]
        /\ \A d \in D : f[d] = IF d \in Rec THEN step[d][f[on[d]]] ELSE stop[d]
    <3> HIDE DEF D, T, Rec, on, stop, step
    <3> QED
      BY <1>8 DEF Solves
  <2>2. \A s \in D : f[s] = Value(f, s)
    <3> TAKE s \in D
    <3>1. CASE s \in Rec
      <4>1. on[s] \in D /\ f[on[s]] \in T
        <5> HIDE DEF D, T, Rec, on
        <5> QED
          BY <1>1, <2>1, <3>1
      <4>2. Value(f, s) = step[s][f[on[s]]]
        <5> HIDE DEF D, T, Rec, on, step, Value
        <5> QED
          BY <1>7, <3>1, <4>1
      <4> HIDE DEF D, T, Rec, on, step, stop, Value
      <4> QED
        BY <2>1, <3>1, <4>2
    <3>2. CASE s \notin Rec
      <4> HIDE DEF D, T, Rec, on, step, stop, Value
      <4> QED
        BY <1>6, <2>1, <3>2
    <3> QED
      BY <3>1, <3>2
  <2>3. f = [s \in D |-> f[s]]
    BY <2>1
  <2>4. f = [s \in D |-> Value(f, s)]
    <3> HIDE DEF Value, D
    <3> QED
      BY <2>2, <2>3
  <2> HIDE DEF Value
  <2> QED
    BY <2>4 DEF Octet
<1> DEFINE feed == Framing!VmFeed
<1>10. Is(feed)
  <2>1. Framing!VmFeed = CHOOSE g : Is(g)
    BY SMTT(30) DEF Framing!VmFeed
  <2> HIDE DEF Is
  <2> QED
    BY <1>9, <2>1
<1> HIDE DEF feed
<1>11. feed = [s \in D |-> Value(feed, s)]
  <2> HIDE DEF Value
  <2> QED
    BY <1>10 DEF Octet
<1>12. DOMAIN feed = D /\ feed = [s \in DOMAIN feed |-> feed[s]]
       /\ \A s \in D : feed[s] = Value(feed, s)
  <2> HIDE DEF Value, D
  <2> QED
    BY <1>11
<1>13. Solves(feed, D, T, Rec, on, stop, step)
  <2>1. \A s \in D : s \notin Rec => feed[s] = stop[s]
    <3> HIDE DEF D, T, Rec, on, step, stop, Value
    <3> QED
      BY <1>6, <1>12
  <2>2. \A s \in Rec : feed[on[s]] \in T => feed[s] = step[s][feed[on[s]]]
    <3> HIDE DEF D, T, Rec, on, step, stop, Value
    <3> QED
      BY <1>1, <1>7, <1>12
  <2> HIDE DEF D, T, rank, Rec, on, step, stop, Value
  <2> QED
    BY <1>5, <1>12, <2>1, <2>2, Loop
<1>14. /\ feed \in [D -> T]
       /\ \A d \in D : feed[d] = IF d \in Rec THEN step[d][feed[on[d]]] ELSE stop[d]
  <2> HIDE DEF D, T, Rec, on, step, stop
  <2> QED
    BY <1>13 DEF Solves
<1>15. ASSUME NEW s \in D
       PROVE  feed[s] = IF VmGoes(s) THEN VmFedOn(s, feed[Beyond(s)]) ELSE Waits(s)
  <2>1. CASE s \in Rec
    <3>1. on[s] = Beyond(s) /\ Beyond(s) \in D /\ feed[Beyond(s)] \in T
      <4>1. on[s] = Beyond(s)
        BY <2>1
      <4> HIDE DEF D, T, Rec, on
      <4> QED
        BY <1>1, <1>14, <2>1, <4>1
    <3>2. feed[s] = step[s][feed[Beyond(s)]]
      <4> HIDE DEF D, T, Rec, on, step, stop
      <4> QED
        BY <1>14, <2>1, <3>1
    <3>3. step[s][feed[Beyond(s)]] = VmFedOn(s, feed[Beyond(s)])
      <4> HIDE DEF D, T, Rec, on
      <4> QED
        BY <1>15, <2>1, <3>1
    <3> QED
      BY <2>1, <3>2, <3>3
  <2>2. CASE s \notin Rec
    <3>1. feed[s] = stop[s]
      <4> HIDE DEF D, T, Rec, on, step, stop
      <4> QED
        BY <1>14, <2>2
    <3> QED
      BY <2>2, <3>1
  <2> QED
    BY <2>1, <2>2
<1> QED
  BY <1>14, <1>15 DEF feed

(* Where the stream is cut, the host's parser holds whole frames and the   *)
(* start of the next one; behind all frames there may be a header that no  *)
(* frame has.                                                              *)
Junk(j) == j \in Seq(Octet) /\ (j # <<>> => Len(j) >= 3 /\ Framing!BadLength(j))

HostCutAt(s, t, fs, j, gs, hs) ==
  /\ fs = gs \o hs
  /\ Framing!Feed[s].frames = gs
  /\ Framing!Feed[s].rest \in Seq(Octet)
  /\ Framing!Feed[s].fatal \in BOOLEAN
  /\ IF Framing!Feed[s].fatal THEN j # <<>>
     ELSE Framing!Feed[s].rest \o t = Stream[hs] \o j

HostCut(s, t, fs, j) == \E gs, hs \in Seq(Sendable) : HostCutAt(s, t, fs, j, gs, hs)

(* A parser that completes nothing.                                        *)
LEMMA HostWaits ==
  ASSUME Framing!ConstantsOK, NEW fs \in Seq(Sendable), NEW s \in Seq(Octet),
         NEW t \in Seq(Octet), NEW j \in Seq(Octet), s \o t = Stream[fs] \o j,
         ~Goes(s), Len(s) >= 3 /\ Framing!BadLength(s) => j # <<>>
  PROVE  HostCut(s, t, fs, j)
<1> DEFINE d == Framing!Feed[s]
           nil == <<>>
<1>1. d = Stopped(s)
  BY FeedEquation
<1>2. nil \in Seq(Sendable) /\ nil \in Seq(Octet) /\ fs = nil \o fs
  BY EmptySeq, ConcatEmptySeq
<1>3. d.frames = nil /\ d.rest \in Seq(Octet) /\ d.fatal \in BOOLEAN
      /\ IF d.fatal THEN j # <<>> ELSE d.rest = s
  <2>1. CASE Len(s) >= 3 /\ Framing!BadLength(s)
    <3>1. d = [frames |-> nil, rest |-> nil, fatal |-> TRUE]
      BY <1>1, <2>1 DEF Stopped
    <3> HIDE DEF d, nil
    <3> QED
      BY <1>2, <2>1, <3>1
  <2>2. CASE ~(Len(s) >= 3 /\ Framing!BadLength(s))
    <3>1. d = [frames |-> nil, rest |-> s, fatal |-> FALSE]
      BY <1>1, <2>2 DEF Stopped
    <3> HIDE DEF d, nil
    <3> QED
      BY <1>2, <2>2, <3>1
  <2> QED
    BY <2>1, <2>2
<1> HIDE DEF d, nil
<1>4. HostCutAt(s, t, fs, j, nil, fs)
  BY <1>2, <1>3 DEF HostCutAt, d
<1> QED
  BY <1>2, <1>4 DEF HostCut

LEMMA ThreeParts ==
  ASSUME NEW S, NEW x \in Seq(S), NEW y \in Seq(S), NEW z \in Seq(S)
  PROVE  /\ (x \o y) \o z = x \o (y \o z) /\ x \o y \in Seq(S) /\ y \o z \in Seq(S)
         /\ Len(x \o y) = Len(x) + Len(y) /\ Len(x) \in Nat /\ Len(y) \in Nat
<1>1. (x \o y) \o z = x \o (y \o z)
  BY ConcatAssociative
<1> QED
  BY <1>1, ConcatProperties, LenProperties

Regroups(x, y, z) == (x \o y) \o z = x \o (y \o z) /\ y \o z \in Seq(Octet)

LEMMA OctetParts ==
  ASSUME NEW x \in Seq(Octet), NEW y \in Seq(Octet), NEW z \in Seq(Octet)
  PROVE  Regroups(x, y, z)
<1> DEFINE S == Octet
<1>1. x \in Seq(S) /\ y \in Seq(S) /\ z \in Seq(S)
  OBVIOUS
<1> HIDE DEF S
<1>2. (x \o y) \o z = x \o (y \o z) /\ x \o y \in Seq(S) /\ y \o z \in Seq(S)
  BY <1>1, ThreeParts
<1> QED
  BY <1>2 DEF S, Regroups

(* A first frame that is not complete.                                     *)
LEMMA InFirstFrame ==
  ASSUME Framing!ConstantsOK, NEW f \in Sendable, NEW s \in Seq(Octet),
         NEW t \in Seq(Octet), NEW c \in Seq(Octet),
         s \o t = Framing!Encode(f) \o c, Len(s) < Len(Framing!Encode(f))
  PROVE  /\ ~Goes(s) /\ ~VmGoes(s) /\ ~(Len(s) >= 3 /\ Framing!BadLength(s))
         /\ Len(s) < 3 + WirePayload
<1>1. Len(s) >= 3 => Headed(s, f)
  BY HeaderFirst
<1>2. Len(s) \in Nat
  BY LenProperties
<1>3. Len(Framing!Encode(f)) = 3 + Len(f.payload) /\ Len(Framing!Encode(f)) \in Nat
  BY FrameOctets DEF Says
<1>4. Len(f.payload) \in 0 .. WirePayload /\ WirePayload \in Nat
  BY Sent, FramingNumbers
<1>5. Len(s) < 3 + WirePayload
  BY <1>2, <1>3, <1>4
<1>6. Len(s) >= 3 => ~(Len(s) >= Framing!FrameSize(s))
  BY <1>1, <1>2, <1>3 DEF Headed
<1> QED
  BY <1>1, <1>5, <1>6 DEF Headed, Goes, VmGoes

LEMMA HostInFrame ==
  ASSUME Framing!ConstantsOK, NEW f \in Sendable, NEW tl \in Seq(Sendable),
         NEW s \in Seq(Octet), NEW t \in Seq(Octet), NEW j \in Seq(Octet),
         s \o t = Framing!Encode(f) \o (Stream[tl] \o j),
         Len(s) < Len(Framing!Encode(f))
  PROVE  HostCut(s, t, <<f>> \o tl, j)
<1> DEFINE e == Framing!Encode(f)
           c == Stream[tl]
           fs == <<f>> \o tl
<1>1. e \in Seq(Octet) /\ c \in Seq(Octet) /\ fs \in Seq(Sendable) /\ Stream[fs] = e \o c
  BY FrameOctets, Streams DEF Says
<1> HIDE DEF e, c, fs
<1>2. s \o t = e \o (c \o j) /\ Len(s) < Len(e)
  BY DEF e, c
<1>3. e \o (c \o j) = (e \o c) \o j /\ c \o j \in Seq(Octet)
  <2>1. e \in Seq(Octet) /\ c \in Seq(Octet)
    BY <1>1
  <2>2. (e \o c) \o j = e \o (c \o j) /\ c \o j \in Seq(Octet)
    <3>1. Regroups(e, c, j)
      BY <2>1, OctetParts
    <3> QED
      BY <3>1 DEF Regroups
  <2> QED
    BY <2>2
<1>4. ~Goes(s) /\ ~(Len(s) >= 3 /\ Framing!BadLength(s))
  BY <1>2, <1>3, InFirstFrame DEF e
<1>5. s \o t = Stream[fs] \o j
  BY <1>1, <1>2, <1>3
<1>6. HostCut(s, t, fs, j)
  BY <1>1, <1>4, <1>5, HostWaits
<1> QED
  BY <1>6 DEF fs

LEMMA HostBehindFrame ==
  ASSUME Framing!ConstantsOK, NEW f \in Sendable, NEW tl \in Seq(Sendable),
         NEW s \in Seq(Octet), NEW t \in Seq(Octet), NEW j \in Seq(Octet),
         s \o t = Framing!Encode(f) \o (Stream[tl] \o j),
         Len(s) >= Len(Framing!Encode(f)),
         \A r \in Seq(Octet) : r \o t = Stream[tl] \o j => HostCut(r, t, tl, j)
  PROVE  HostCut(s, t, <<f>> \o tl, j)
<1> DEFINE c == Stream[tl] \o j
           r == Beyond(s)
<1>1. c \in Seq(Octet)
  BY Streams, ConcatProperties
<1>2. Whole(s, t, f, c)
  BY <1>1, FrameFirst
<1>3. r \in Seq(Octet) /\ r \o t = c /\ Headed(s, f)
  BY <1>2 DEF Whole
<1>4. PICK gs \in Seq(Sendable), hs \in Seq(Sendable) : HostCutAt(r, t, tl, j, gs, hs)
  BY <1>3 DEF HostCut
<1>5. Goes(s)
  <2>1. Len(s) \in Nat /\ Len(Framing!Encode(f)) \in Nat /\ Len(Framing!Encode(f)) >= 3
    <3>1. Len(Framing!Encode(f)) = 3 + Len(f.payload) /\ Len(f.payload) \in Nat
      BY FrameOctets, Sent DEF Says
    <3> QED
      BY <3>1, LenProperties
  <2> QED
    BY <1>3, <2>1 DEF Goes, Headed
<1>6. FirstOf(s) = f
  <2>1. s[3] = f.type /\ SubSeq(s, 4, Framing!FrameSize(s)) = f.payload
    BY <1>2 DEF Whole
  <2>2. f = [type |-> f.type, payload |-> f.payload]
    BY DEF Sendable, Framing!Frame
  <2> QED
    BY <2>1, <2>2 DEF FirstOf
<1> DEFINE d == Framing!Feed[s]
           m == Framing!Feed[r]
<1>7. d = FedOn(s, m)
  BY <1>5, FeedEquation
<1>8. d.frames = <<f>> \o m.frames /\ d.rest = m.rest /\ d.fatal = m.fatal
  <2> HIDE DEF d, m
  <2> QED
    BY <1>6, <1>7 DEF FedOn
<1> HIDE DEF c, r, d, m
<1>9. /\ tl = gs \o hs /\ m.frames = gs /\ m.rest \in Seq(Octet) /\ m.fatal \in BOOLEAN
      /\ IF m.fatal THEN j # <<>> ELSE m.rest \o t = Stream[hs] \o j
  BY <1>4 DEF HostCutAt, m
<1>10. <<f>> \in Seq(Sendable)
  BY Streams
<1>11. <<f>> \o gs \in Seq(Sendable) /\ (<<f>> \o gs) \o hs = <<f>> \o (gs \o hs)
  BY <1>10, ThreeParts
<1>12. HostCutAt(s, t, <<f>> \o tl, j, <<f>> \o gs, hs)
  BY <1>8, <1>9, <1>11 DEF HostCutAt, d
<1> QED
  BY <1>11, <1>12 DEF HostCut

LEMMA FeedCut ==
  ASSUME Framing!ConstantsOK, NEW fs \in Seq(Sendable), NEW s \in Seq(Octet),
         NEW t \in Seq(Octet), NEW j, Junk(j), s \o t = Stream[fs] \o j
  PROVE  HostCut(s, t, fs, j)
<1> DEFINE Q == {gs \in Seq(Sendable) :
                   \A r, u \in Seq(Octet) :
                     r \o u = Stream[gs] \o j => HostCut(r, u, gs, j)}
<1>1. j \in Seq(Octet) /\ (j # <<>> => Len(j) >= 3 /\ Framing!BadLength(j))
  BY DEF Junk
<1>2. <<>> \in Q
  <2> DEFINE nil == <<>>
  <2>1. nil \in Seq(Sendable) /\ nil \in Seq(Octet) /\ Stream[nil] = nil /\ nil \o j = j
        /\ Len(nil) = 0
    BY <1>1, EmptySeq, ConcatEmptySeq, Streams
  <2> HIDE DEF nil
  <2>2. ASSUME NEW r \in Seq(Octet), NEW u \in Seq(Octet), r \o u = Stream[nil] \o j
        PROVE  HostCut(r, u, nil, j)
    <3>1. r \o u = nil \o j /\ r \o u = j
      BY <2>1, <2>2
    <3>2. Len(r) \in Nat /\ Len(u) \in Nat /\ Len(j) = Len(r) + Len(u)
      BY <3>1, ConcatProperties, LenProperties
    <3>3. Len(r) >= 3 => j # <<>>
      <4>1. j = <<>> => Len(j) = 0
        OBVIOUS
      <4> QED
        BY <3>2, <4>1
    <3>4. Len(r) >= 3 => Framing!BadLength(r)
      <4> SUFFICES ASSUME Len(r) >= 3 PROVE Framing!BadLength(r)
        OBVIOUS
      <4>1. Framing!BadLength(j)
        BY <1>1, <3>3
      <4>2. 1 \in 1 .. Len(r) /\ 2 \in 1 .. Len(r)
        BY <3>2
      <4>3. j[1] = r[1] /\ j[2] = r[2]
        <5>1. \A i \in 1 .. Len(r) : (r \o u)[i] = r[i]
          <6>1. \A i \in 1 .. Len(r) : i \in 1 .. Len(r) + Len(u) /\ i <= Len(r)
            BY <3>2
          <6> QED
            BY <6>1, ConcatProperties
        <5> QED
          BY <3>1, <4>2, <5>1
      <4> QED
        BY <4>1, <4>3 DEF Framing!BadLength, Framing!WireLen
    <3>5. ~Goes(r)
      BY <3>4 DEF Goes
    <3> QED
      BY <1>1, <2>1, <2>2, <3>3, <3>5, HostWaits
  <2>3. nil \in Q
    BY <2>1, <2>2
  <2> QED
    BY <2>3 DEF nil
<1>3. ASSUME NEW gs \in Seq(Sendable), gs # <<>>, Tail(gs) \in Q PROVE gs \in Q
  <2> DEFINE f == Head(gs)
             tl == Tail(gs)
  <2>1. f \in Sendable /\ tl \in Seq(Sendable) /\ gs = <<f>> \o tl
    <3>1. f \in Sendable /\ tl \in Seq(Sendable)
      BY <1>3, TailIsShorter
    <3> QED
      BY <1>3, <3>1, HeadAndTail
  <2>2. tl \in Q
    BY <1>3
  <2> HIDE DEF f, tl
  <2> SUFFICES ASSUME NEW r \in Seq(Octet), NEW u \in Seq(Octet),
                      r \o u = Stream[gs] \o j
               PROVE  HostCut(r, u, gs, j)
    OBVIOUS
  <2> DEFINE e == Framing!Encode(f)
             c == Stream[tl]
  <2>3. e \in Seq(Octet) /\ Len(e) \in Nat /\ c \in Seq(Octet) /\ Stream[gs] = e \o c
    BY <2>1, FrameOctets, Streams DEF Says
  <2>4. r \o u = e \o (c \o j)
    <3> HIDE DEF e, c
    <3>1. (e \o c) \o j = e \o (c \o j)
      <4>1. e \in Seq(Octet) /\ c \in Seq(Octet) /\ j \in Seq(Octet)
        BY <1>1, <2>3
      <4>2. Regroups(e, c, j)
        BY <4>1, OctetParts
      <4> QED
        BY <4>2 DEF Regroups
    <3> QED
      BY <2>3, <3>1
  <2>5. CASE Len(r) < Len(e)
    BY <1>1, <2>1, <2>4, <2>5, HostInFrame
  <2>6. CASE Len(r) >= Len(e)
    <3>1. \A x \in Seq(Octet) : x \o u = Stream[tl] \o j => HostCut(x, u, tl, j)
      BY <2>2
    <3> QED
      BY <1>1, <2>1, <2>4, <2>6, <3>1, HostBehindFrame
  <2>7. Len(r) \in Nat
    BY LenProperties
  <2> QED
    BY <2>3, <2>5, <2>6, <2>7
<1> HIDE DEF Q
<1>4. fs \in Q
  BY <1>2, <1>3, SeqInduction
<1> QED
  BY <1>4 DEF Q

(* Frames heard in the VM, of the types and lengths of those sent.         *)
Alike(rs, gs) ==
  /\ Len(rs) = Len(gs)
  /\ \A i \in 1 .. Len(gs) :
       rs[i].type = gs[i].type /\ Len(rs[i].payload) = Len(gs[i].payload)

LEMMA AlikeTwo ==
  ASSUME NEW a \in Seq(Heard), NEW b \in Seq(Heard),
         NEW c \in Seq(Sendable), NEW d \in Seq(Sendable), Alike(a, c), Alike(b, d)
  PROVE  Alike(a \o b, c \o d)
<1> DEFINE x == a \o b
           y == c \o d
           n == Len(a)
           m == Len(b)
<1>1. n \in Nat /\ m \in Nat /\ Len(c) = n /\ Len(d) = m
  BY LenProperties DEF Alike
<1>2. /\ Len(x) = n + m
      /\ \A i \in 1 .. n + m : x[i] = IF i <= n THEN a[i] ELSE b[i - n]
  BY ConcatProperties
<1>3. /\ Len(y) = n + m
      /\ \A i \in 1 .. n + m : y[i] = IF i <= n THEN c[i] ELSE d[i - n]
  <2>1. /\ Len(y) = Len(c) + Len(d)
        /\ \A i \in 1 .. Len(c) + Len(d) : y[i] = IF i <= Len(c) THEN c[i] ELSE d[i - Len(c)]
    BY ConcatProperties
  <2> HIDE DEF y, n, m
  <2> QED
    BY <1>1, <2>1
<1> HIDE DEF x, y, n, m
<1>4. \A i \in 1 .. n : a[i].type = c[i].type /\ Len(a[i].payload) = Len(c[i].payload)
  BY <1>1 DEF Alike
<1>5. \A i \in 1 .. m : b[i].type = d[i].type /\ Len(b[i].payload) = Len(d[i].payload)
  BY <1>1 DEF Alike
<1>6. ASSUME NEW i \in 1 .. n + m
      PROVE  x[i].type = y[i].type /\ Len(x[i].payload) = Len(y[i].payload)
  <2>1. CASE i <= n
    <3>1. i \in 1 .. n /\ x[i] = a[i] /\ y[i] = c[i]
      BY <1>1, <1>2, <1>3, <2>1
    <3> QED
      BY <1>4, <3>1
  <2>2. CASE ~(i <= n)
    <3>1. i - n \in 1 .. m /\ x[i] = b[i - n] /\ y[i] = d[i - n]
      BY <1>1, <1>2, <1>3, <2>2
    <3> QED
      BY <1>5, <3>1
  <2> QED
    BY <2>1, <2>2
<1>7. Alike(x, y)
  BY <1>2, <1>3, <1>6 DEF Alike
<1> QED
  BY <1>7 DEF x, y

(* The VM's buffer holds whole frames and the start of the next one; what  *)
(* is left has room to grow to a frame.                                    *)
VmCutAt(s, t, fs, gs, hs) ==
  /\ fs = gs \o hs
  /\ Framing!VmFeed[s].frames \in Seq(Heard)
  /\ Alike(Framing!VmFeed[s].frames, gs)
  /\ Framing!VmFeed[s].rest \in Seq(Octet)
  /\ Framing!VmFeed[s].rest \o t = Stream[hs]
  /\ Len(Framing!VmFeed[s].rest) < 3 + WirePayload

VmCut(s, t, fs) == \E gs, hs \in Seq(Sendable) : VmCutAt(s, t, fs, gs, hs)

LEMMA VmWaits ==
  ASSUME Framing!ConstantsOK, NEW fs \in Seq(Sendable), NEW s \in Seq(Octet),
         NEW t \in Seq(Octet), s \o t = Stream[fs], ~VmGoes(s),
         Len(s) < 3 + WirePayload
  PROVE  VmCut(s, t, fs)
<1> DEFINE d == Framing!VmFeed[s]
           nil == <<>>
<1>1. d = [frames |-> nil, rest |-> s]
  BY VmFeedEquation DEF Waits
<1>2. nil \in Seq(Sendable) /\ nil \in Seq(Heard) /\ fs = nil \o fs /\ Len(nil) = 0
  BY EmptySeq, ConcatEmptySeq
<1> HIDE DEF d, nil
<1>3. d.frames = nil /\ d.rest = s
  BY <1>1
<1>4. Alike(nil, nil)
  BY <1>2 DEF Alike
<1>5. VmCutAt(s, t, fs, nil, fs)
  BY <1>2, <1>3, <1>4 DEF VmCutAt, d
<1> QED
  BY <1>2, <1>5 DEF VmCut

LEMMA VmInFrame ==
  ASSUME Framing!ConstantsOK, NEW f \in Sendable, NEW tl \in Seq(Sendable),
         NEW s \in Seq(Octet), NEW t \in Seq(Octet),
         s \o t = Framing!Encode(f) \o Stream[tl],
         Len(s) < Len(Framing!Encode(f))
  PROVE  VmCut(s, t, <<f>> \o tl)
<1> DEFINE e == Framing!Encode(f)
           c == Stream[tl]
           fs == <<f>> \o tl
<1>1. e \in Seq(Octet) /\ c \in Seq(Octet) /\ fs \in Seq(Sendable) /\ Stream[fs] = e \o c
  BY FrameOctets, Streams DEF Says
<1> HIDE DEF e, c, fs
<1>2. s \o t = e \o c /\ Len(s) < Len(e)
  BY DEF e, c
<1>3. ~VmGoes(s) /\ Len(s) < 3 + WirePayload
  BY <1>1, <1>2, InFirstFrame DEF e
<1>4. VmCut(s, t, fs)
  BY <1>1, <1>2, <1>3, VmWaits
<1> QED
  BY <1>4 DEF fs

LEMMA VmBehindFrame ==
  ASSUME Framing!ConstantsOK, NEW f \in Sendable, NEW tl \in Seq(Sendable),
         NEW s \in Seq(Octet), NEW t \in Seq(Octet),
         s \o t = Framing!Encode(f) \o Stream[tl],
         Len(s) >= Len(Framing!Encode(f)),
         \A r \in Seq(Octet) : r \o t = Stream[tl] => VmCut(r, t, tl)
  PROVE  VmCut(s, t, <<f>> \o tl)
<1> DEFINE c == Stream[tl]
           r == Beyond(s)
<1>1. c \in Seq(Octet)
  BY Streams
<1>2. Whole(s, t, f, c)
  BY <1>1, FrameFirst
<1>3. r \in Seq(Octet) /\ r \o t = c /\ Headed(s, f) /\ s[3] = f.type
  BY <1>2 DEF Whole
<1>4. PICK gs \in Seq(Sendable), hs \in Seq(Sendable) : VmCutAt(r, t, tl, gs, hs)
  BY <1>3 DEF VmCut
<1>5. /\ Framing!FrameSize(s) = 3 + Len(f.payload) /\ Len(f.payload) \in Nat
      /\ Len(s) \in Nat /\ Len(s) >= 3 /\ Len(s) >= Framing!FrameSize(s)
  <2>1. Len(Framing!Encode(f)) = 3 + Len(f.payload) /\ Len(f.payload) \in Nat
    BY FrameOctets, Sent DEF Says
  <2>2. Framing!FrameSize(s) = Len(Framing!Encode(f)) /\ Len(s) \in Nat
    BY <1>3, LenProperties DEF Headed
  <2> QED
    BY <2>1, <2>2
<1> DEFINE d == Framing!VmFeed[s]
           m == Framing!VmFeed[r]
           o == VmFirstOf(s)
<1>6. d = VmFedOn(s, m)
  BY <1>5, VmFeedEquation DEF VmGoes
<1>7. d.frames = <<o>> \o m.frames /\ d.rest = m.rest
  <2> HIDE DEF d, m
  <2> QED
    BY <1>6 DEF VmFedOn
<1>8. o \in Heard /\ o.type = f.type /\ Len(o.payload) = Len(f.payload)
  <2>1. /\ o \in Heard /\ o.type = s[3]
        /\ Len(o.payload) = IF 4 <= Framing!FrameSize(s)
                            THEN Framing!FrameSize(s) - 3 ELSE 0
    BY <1>5, VmFirstIsHeard
  <2> HIDE DEF o
  <2> QED
    BY <1>3, <1>5, <2>1
<1> HIDE DEF c, r, d, m, o
<1>9. /\ tl = gs \o hs /\ m.frames \in Seq(Heard) /\ Alike(m.frames, gs)
      /\ m.rest \in Seq(Octet) /\ m.rest \o t = Stream[hs] /\ Len(m.rest) < 3 + WirePayload
  BY <1>4 DEF VmCutAt, m
<1>10. <<f>> \in Seq(Sendable) /\ <<o>> \in Seq(Heard)
  BY <1>8, Streams
<1>11. <<f>> \o gs \in Seq(Sendable) /\ (<<f>> \o gs) \o hs = <<f>> \o (gs \o hs)
  BY <1>10, ThreeParts
<1>12. <<o>> \o m.frames \in Seq(Heard)
  BY <1>9, <1>10, ConcatProperties
<1>13. Alike(<<o>>, <<f>>)
  BY <1>8 DEF Alike
<1>14. Alike(<<o>> \o m.frames, <<f>> \o gs)
  BY <1>9, <1>10, <1>13, AlikeTwo
<1>15. VmCutAt(s, t, <<f>> \o tl, <<f>> \o gs, hs)
  BY <1>7, <1>9, <1>11, <1>12, <1>14 DEF VmCutAt, d
<1> QED
  BY <1>11, <1>15 DEF VmCut

LEMMA VmFeedCut ==
  ASSUME Framing!ConstantsOK, NEW fs \in Seq(Sendable), NEW s \in Seq(Octet),
         NEW t \in Seq(Octet), s \o t = Stream[fs]
  PROVE  VmCut(s, t, fs)
<1> DEFINE Q == {gs \in Seq(Sendable) :
                   \A r, u \in Seq(Octet) : r \o u = Stream[gs] => VmCut(r, u, gs)}
<1>1. <<>> \in Q
  <2> DEFINE nil == <<>>
  <2>1. nil \in Seq(Sendable) /\ Stream[nil] = nil /\ Len(nil) = 0
    BY EmptySeq, Streams
  <2> HIDE DEF nil
  <2>2. ASSUME NEW r \in Seq(Octet), NEW u \in Seq(Octet), r \o u = Stream[nil]
        PROVE  VmCut(r, u, nil)
    <3>1. Len(r) \in Nat /\ Len(u) \in Nat /\ Len(r \o u) = Len(r) + Len(u)
      BY ConcatProperties, LenProperties
    <3>2. Len(r) = 0
      <4>1. Len(r \o u) = 0
        BY <2>1, <2>2
      <4> QED
        BY <3>1, <4>1
    <3>3. ~VmGoes(r) /\ Len(r) < 3 + WirePayload
      BY <3>2, FramingNumbers DEF VmGoes
    <3> QED
      BY <2>1, <2>2, <3>3, VmWaits
  <2>3. nil \in Q
    BY <2>1, <2>2
  <2> QED
    BY <2>3 DEF nil
<1>2. ASSUME NEW gs \in Seq(Sendable), gs # <<>>, Tail(gs) \in Q PROVE gs \in Q
  <2> DEFINE f == Head(gs)
             tl == Tail(gs)
  <2>1. f \in Sendable /\ tl \in Seq(Sendable) /\ gs = <<f>> \o tl
    <3>1. f \in Sendable /\ tl \in Seq(Sendable)
      BY <1>2, TailIsShorter
    <3> QED
      BY <1>2, <3>1, HeadAndTail
  <2>2. tl \in Q
    BY <1>2
  <2> HIDE DEF f, tl
  <2> SUFFICES ASSUME NEW r \in Seq(Octet), NEW u \in Seq(Octet), r \o u = Stream[gs]
               PROVE  VmCut(r, u, gs)
    OBVIOUS
  <2>3. r \o u = Framing!Encode(f) \o Stream[tl]
    BY <2>1, Streams
  <2>4. CASE Len(r) < Len(Framing!Encode(f))
    BY <2>1, <2>3, <2>4, VmInFrame
  <2>5. CASE Len(r) >= Len(Framing!Encode(f))
    <3>1. \A x \in Seq(Octet) : x \o u = Stream[tl] => VmCut(x, u, tl)
      BY <2>2
    <3> QED
      BY <2>1, <2>3, <2>5, <3>1, VmBehindFrame
  <2>6. Len(r) \in Nat /\ Len(Framing!Encode(f)) \in Nat
    BY <2>1, FrameOctets, LenProperties DEF Says
  <2> QED
    BY <2>4, <2>5, <2>6
<1> HIDE DEF Q
<1>3. fs \in Q
  BY <1>1, <1>2, SeqInduction
<1> QED
  BY <1>3 DEF Q

(* What is so as the framing runs.  To the host: the frames that have not  *)
(* come out are those whose bytes are in the parser and on the wire; those *)
(* written after the framing was lost will never come out.                 *)
Underway(hs, more, j) ==
  /\ toldHost = (heardHost \o hs) \o more
  /\ Junk(j) /\ (j = <<>> => more = <<>>) /\ (bad = 0 => j = <<>>)
  /\ ~dead => parsed \o hostWire = Stream[hs] \o j

HostInv ==
  /\ toldHost \in Seq(Sendable) /\ heardHost \in Seq(Sendable)
  /\ hostWire \in Seq(Octet) /\ parsed \in Seq(Octet)
  /\ dead \in BOOLEAN /\ bad \in 0 .. BadHeaders
  /\ faults = IF dead THEN 1 ELSE 0
  /\ dead => bad # 0
  /\ \E hs, more \in Seq(Sendable), j \in Seq(Octet) : Underway(hs, more, j)

(* To the VM: likewise, and its buffer has room.                           *)
UnderwayVm(gs, hs) ==
  toldVm = gs \o hs /\ Alike(heardVm, gs) /\ rxBuf \o vmWire = Stream[hs]

VmInv ==
  /\ toldVm \in Seq(Sendable) /\ heardVm \in Seq(Heard)
  /\ vmWire \in Seq(Octet) /\ rxBuf \in Seq(Octet) /\ Len(rxBuf) < 3 + WirePayload
  /\ \E gs, hs \in Seq(Sendable) : UnderwayVm(gs, hs)

LEMMA FramingInit ==
  ASSUME Framing!ConstantsOK, Framing!Init
  PROVE  HostInv /\ VmInv
<1> DEFINE nil == <<>>
<1>1. /\ hostWire = nil /\ vmWire = nil /\ parsed = nil /\ dead = FALSE /\ faults = 0
      /\ rxBuf = nil /\ toldVm = nil /\ heardVm = nil /\ toldHost = nil /\ heardHost = nil
      /\ bad = 0
  BY DEF Framing!Init
<1>2. /\ nil \in Seq(Sendable) /\ nil \in Seq(Heard) /\ nil \in Seq(Octet)
      /\ nil \o nil = nil /\ Len(nil) = 0 /\ Stream[nil] = nil
  BY EmptySeq, ConcatEmptySeq, Streams
<1>3. Junk(nil) /\ Alike(nil, nil)
  BY <1>2 DEF Junk, Alike
<1> HIDE DEF nil
<1>4. Junk(nil) /\ (nil = <<>> => nil = <<>>) /\ (bad = 0 => nil = <<>>)
  BY <1>3 DEF nil
<1>5. Underway(nil, nil, nil)
  BY <1>1, <1>2, <1>4 DEF Underway, nil
<1>6. UnderwayVm(nil, nil)
  BY <1>1, <1>2, <1>3 DEF UnderwayVm
<1>7. bad \in 0 .. BadHeaders /\ Len(rxBuf) < 3 + WirePayload
  BY <1>1, <1>2, FramingNumbers
<1> QED
  BY <1>1, <1>2, <1>5, <1>6, <1>7 DEF HostInv, VmInv

(* One more frame behind those on their way.                               *)
LEMMA OneMoreFrame ==
  ASSUME Framing!ConstantsOK, NEW f \in Sendable, NEW sn \in Seq(Sendable)
  PROVE  /\ Append(sn, f) = sn \o <<f>> /\ Append(sn, f) \in Seq(Sendable)
         /\ Len(Append(sn, f)) = Len(sn) + 1 /\ Len(sn) \in Nat
         /\ SubSeq(Append(sn, f), 1, Len(sn)) = sn
         /\ <<f>> \in Seq(Sendable)
         /\ Stream[Append(sn, f)] = Stream[sn] \o Framing!Encode(f)
         /\ Framing!Encode(f) \in Seq(Octet)
<1>1. <<f>> \in Seq(Sendable) /\ Stream[<<f>>] = Framing!Encode(f)
  BY Streams
<1>2. Append(sn, f) = sn \o <<f>>
  BY AppendIsConcat
<1>3. Stream[sn \o <<f>>] = Stream[sn] \o Stream[<<f>>]
  BY <1>1, Streams
<1>4. sn \o <<f>> \in Seq(Sendable) /\ Len(sn \o <<f>>) = Len(sn) + 1 /\ Len(sn) \in Nat
  BY <1>1, ConcatProperties, LenProperties
<1>5. SubSeq(sn \o <<f>>, 1, Len(sn)) = sn
  BY <1>1, FrontOfTwo
<1>6. Framing!Encode(f) \in Seq(Octet)
  BY FrameOctets DEF Says
<1> QED
  BY <1>1, <1>2, <1>3, <1>4, <1>5, <1>6

LEMMA OneMoreOf ==
  ASSUME Framing!ConstantsOK, NEW f \in Sendable, NEW a \in Seq(Sendable),
         NEW b \in Seq(Sendable)
  PROVE  Append(a \o b, f) = a \o Append(b, f)
<1>1. a \o b \in Seq(Sendable) /\ <<f>> \in Seq(Sendable)
  BY ConcatProperties, OneMoreFrame
<1>2. Append(a \o b, f) = (a \o b) \o <<f>> /\ Append(b, f) = b \o <<f>>
  BY <1>1, OneMoreFrame
<1>3. (a \o b) \o <<f>> = a \o (b \o <<f>>)
  BY <1>1, ThreeParts
<1> QED
  BY <1>2, <1>3

(* Bytes behind those on their way.                                        *)
Same(a, b, x, y) == a \o b = x \o y

LEMMA MoreBehind ==
  ASSUME NEW a \in Seq(Octet), NEW b \in Seq(Octet), NEW c \in Seq(Octet),
         NEW x \in Seq(Octet), NEW y \in Seq(Octet), Same(a, b, x, y)
  PROVE  Same(a, b \o c, x, y \o c)
<1>1. Regroups(a, b, c) /\ Regroups(x, y, c)
  BY OctetParts
<1> QED
  BY <1>1 DEF Regroups, Same

LEMMA JunkGrows ==
  ASSUME NEW j, Junk(j), j # <<>>, NEW e \in Seq(Octet)
  PROVE  Junk(j \o e) /\ j \o e # <<>>
<1>1. j \in Seq(Octet) /\ Len(j) >= 3 /\ Framing!BadLength(j)
  BY DEF Junk
<1>2. Len(j) \in Nat /\ Len(e) \in Nat
  BY <1>1, LenProperties
<1>3. 1 \in 1 .. Len(j) + Len(e) /\ 2 \in 1 .. Len(j) + Len(e) /\ 1 <= Len(j) /\ 2 <= Len(j)
  BY <1>1, <1>2
<1> DEFINE w == j \o e
<1>4. w \in Seq(Octet) /\ Len(w) = Len(j) + Len(e) /\ w[1] = j[1] /\ w[2] = j[2]
  BY <1>1, <1>3, ConcatProperties
<1> HIDE DEF w
<1>5. Framing!BadLength(w)
  BY <1>1, <1>4 DEF Framing!BadLength, Framing!WireLen
<1>6. Len(w) >= 3
  BY <1>1, <1>2, <1>4
<1>7. w # <<>>
  <2>1. w = <<>> => Len(w) = 0
    OBVIOUS
  <2> QED
    BY <1>6, <2>1
<1> QED
  BY <1>4, <1>5, <1>6, <1>7 DEF Junk, w

LEMMA VmWritesInv ==
  ASSUME Framing!ConstantsOK, HostInv, NEW f \in Framing!Frame, Framing!VmWrites(f)
  PROVE  HostInv' /\ Framing!HostWard!Next
<1> DEFINE e == Framing!Encode(f)
<1>1. /\ f \in Sendable /\ hostWire' = hostWire \o e /\ toldHost' = Append(toldHost, f)
      /\ UNCHANGED <<parsed, dead, faults, heardHost, bad>>
  BY DEF Framing!VmWrites, Framing!hostVars, Sendable
<1>2. /\ toldHost \in Seq(Sendable) /\ heardHost \in Seq(Sendable)
      /\ hostWire \in Seq(Octet) /\ parsed \in Seq(Octet)
  BY DEF HostInv
<1>3. PICK hs \in Seq(Sendable), more \in Seq(Sendable), j \in Seq(Octet) :
        Underway(hs, more, j)
  BY DEF HostInv
<1>4. /\ toldHost = (heardHost \o hs) \o more
      /\ Junk(j) /\ (j = <<>> => more = <<>>) /\ (bad = 0 => j = <<>>)
      /\ ~dead => parsed \o hostWire = Stream[hs] \o j
  BY <1>3 DEF Underway
<1>5. e \in Seq(Octet) /\ hostWire' \in Seq(Octet) /\ toldHost' \in Seq(Sendable)
      /\ Stream[hs] \in Seq(Octet) /\ heardHost \o hs \in Seq(Sendable)
  BY <1>1, <1>2, OneMoreFrame, ConcatProperties, Streams
<1> HIDE DEF e
<1>6. \E hs_, more_ \in Seq(Sendable), j_ \in Seq(Octet) : Underway(hs_, more_, j_)'
  <2>1. CASE j = <<>>
    <3> DEFINE nil == <<>>
               hh == Append(hs, f)
    <3>1. more = nil /\ j = nil /\ nil \in Seq(Sendable) /\ nil \in Seq(Octet)
          /\ (heardHost \o hs) \o nil = heardHost \o hs
      BY <1>4, <1>5, <2>1, EmptySeq, ConcatEmptySeq
    <3>2. hh \in Seq(Sendable) /\ Stream[hh] = Stream[hs] \o e /\ heardHost \o hh \in Seq(Sendable)
      BY <1>1, <1>2, OneMoreFrame, ConcatProperties DEF e
    <3>3. toldHost' = heardHost \o hh
      <4>1. toldHost = heardHost \o hs
        BY <1>4, <3>1
      <4>2. Append(heardHost \o hs, f) = heardHost \o hh
        BY <1>1, <1>2, OneMoreOf
      <4> HIDE DEF hh
      <4> QED
        BY <1>1, <4>1, <4>2
    <3> HIDE DEF hh, nil
    <3>4. toldHost' = (heardHost' \o hh) \o nil
      <4>1. (heardHost \o hh) \o nil = heardHost \o hh
        BY <3>2, ConcatEmptySeq DEF nil
      <4> QED
        BY <1>1, <3>3, <4>1
    <3>5. ~dead => parsed \o hostWire' = Stream[hh] \o nil
      <4> SUFFICES ASSUME ~dead PROVE parsed \o hostWire' = Stream[hh] \o nil
        OBVIOUS
      <4>1. parsed \o (hostWire \o e) = Stream[hs] \o (nil \o e)
        <5>1. Same(parsed, hostWire, Stream[hs], nil)
          BY <1>4, <3>1 DEF Same
        <5>2. Same(parsed, hostWire \o e, Stream[hs], nil \o e)
          BY <1>2, <1>5, <3>1, <5>1, MoreBehind
        <5> QED
          BY <5>2 DEF Same
      <4>2. nil \o e = e
        BY <1>5, ConcatEmptySeq DEF nil
      <4>3. Stream[hh] \in Seq(Octet) /\ Stream[hh] \o nil = Stream[hh]
        BY <3>2, Streams, ConcatEmptySeq DEF nil
      <4> QED
        BY <1>1, <3>2, <4>1, <4>2, <4>3
    <3>6. Underway(hh, nil, nil)'
      BY <1>1, <1>4, <3>1, <3>4, <3>5 DEF Underway, nil
    <3> QED
      BY <3>1, <3>2, <3>6
  <2>2. CASE j # <<>>
    <3> DEFINE mm == Append(more, f)
               jj == j \o e
    <3>1. Junk(jj) /\ jj # <<>> /\ jj \in Seq(Octet)
      BY <1>4, <1>5, <2>2, JunkGrows DEF Junk
    <3>2. mm \in Seq(Sendable)
      BY <1>1, OneMoreFrame
    <3>3. toldHost' = (heardHost' \o hs) \o mm
      BY <1>1, <1>4, <1>5, OneMoreOf
    <3>4. ~dead => parsed \o hostWire' = Stream[hs] \o jj
      <4> SUFFICES ASSUME ~dead PROVE parsed \o hostWire' = Stream[hs] \o jj
        OBVIOUS
      <4>1. Same(parsed, hostWire, Stream[hs], j)
        BY <1>4 DEF Same
      <4>2. Same(parsed, hostWire \o e, Stream[hs], j \o e)
        BY <1>2, <1>5, <4>1, MoreBehind
      <4> QED
        BY <1>1, <4>2 DEF Same
    <3>5. bad' # 0
      BY <1>1, <1>4, <2>2
    <3> HIDE DEF mm, jj
    <3>6. Underway(hs, mm, jj)'
      BY <1>1, <3>1, <3>3, <3>4, <3>5 DEF Underway
    <3> QED
      BY <3>1, <3>2, <3>6
  <2> QED
    BY <2>1, <2>2
<1>7. HostInv'
  BY <1>1, <1>2, <1>5, <1>6 DEF HostInv
<1>8. Framing!HostWard!Send
  <2>1. toldHost' \in Seq(Framing!Frame)
    BY <1>5 DEF Sendable
  <2>2. /\ Len(toldHost') = Len(toldHost) + 1 /\ Len(toldHost) \in Nat
        /\ SubSeq(toldHost', 1, Len(toldHost)) = toldHost
    BY <1>1, <1>2, OneMoreFrame
  <2>3. Len(toldHost') > Len(toldHost)
    BY <2>2
  <2> QED
    BY <1>1, <2>1, <2>2, <2>3 DEF Framing!HostWard!Send
<1> QED
  BY <1>7, <1>8 DEF Framing!HostWard!Next

LEMMA DesyncInv ==
  ASSUME Framing!ConstantsOK, HostInv, NEW len \in {0, WirePayload + 2},
         Framing!Desync(len)
  PROVE  HostInv' /\ UNCHANGED <<toldHost, heardHost, dead>>
<1> DEFINE h == Framing!Header(len, 0)
<1>1. /\ bad < BadHeaders /\ bad' = bad + 1 /\ hostWire' = hostWire \o h
      /\ UNCHANGED <<parsed, dead, faults, toldHost, heardHost>>
  BY DEF Framing!Desync, Framing!hostVars
<1>2. /\ toldHost \in Seq(Sendable) /\ heardHost \in Seq(Sendable)
      /\ hostWire \in Seq(Octet) /\ parsed \in Seq(Octet) /\ bad \in 0 .. BadHeaders
      /\ faults = IF dead THEN 1 ELSE 0
      /\ dead \in BOOLEAN
  BY DEF HostInv
<1>3. bad = 0 /\ bad' \in 0 .. BadHeaders /\ bad' # 0
  <2>1. BadHeaders \in Nat /\ BadHeaders <= 1
    BY FramingNumbers
  <2> QED
    BY <1>1, <1>2, <2>1
<1>4. PICK hs \in Seq(Sendable), more \in Seq(Sendable), j \in Seq(Octet) :
        Underway(hs, more, j)
  BY DEF HostInv
<1>5. /\ toldHost = (heardHost \o hs) \o more /\ j = <<>> /\ more = <<>>
      /\ ~dead => parsed \o hostWire = Stream[hs] \o j
  BY <1>3, <1>4 DEF Underway
<1>6. h \in Seq(Octet) /\ Len(h) = 3 /\ Framing!BadLength(h)
  <2>1. WirePayload \in Nat /\ WirePayload < 65534
    BY FramingNumbers
  <2>2. len \in Nat /\ len < 65536
    BY <2>1
  <2>3. 0 \in Octet
    BY DEF Octet
  <2>4. Heads(h, len, 0)
    BY <2>2, <2>3, HeaderOctets
  <2> HIDE DEF h
  <2>5. h \in Seq(Octet) /\ Len(h) = 3 /\ Framing!WireLen(h) = len
    BY <2>4 DEF Heads
  <2> QED
    BY <2>1, <2>5 DEF Framing!BadLength
<1> HIDE DEF h
<1>7. Junk(h) /\ h # <<>>
  <2>1. h = <<>> => Len(h) = 0
    OBVIOUS
  <2> QED
    BY <1>6, <2>1 DEF Junk
<1>8. ~dead => parsed \o hostWire' = Stream[hs] \o h
  <2> SUFFICES ASSUME ~dead PROVE parsed \o hostWire' = Stream[hs] \o h
    OBVIOUS
  <2>1. Same(parsed, hostWire, Stream[hs], j)
    BY <1>5 DEF Same
  <2>2. Stream[hs] \in Seq(Octet)
    BY Streams
  <2>3. Same(parsed, hostWire \o h, Stream[hs], j \o h)
    BY <1>2, <1>6, <2>1, <2>2, MoreBehind
  <2>4. j \o h = h
    BY <1>5, <1>6, ConcatEmptySeq
  <2> QED
    BY <1>1, <2>3, <2>4 DEF Same
<1>9. Underway(hs, more, h)'
  BY <1>1, <1>3, <1>5, <1>7, <1>8 DEF Underway
<1>10. hostWire' \in Seq(Octet)
  BY <1>1, <1>2, <1>6, ConcatProperties
<1>11. \E hs_, more_ \in Seq(Sendable), j_ \in Seq(Octet) : Underway(hs_, more_, j_)'
  BY <1>6, <1>9
<1> QED
  BY <1>1, <1>2, <1>3, <1>10, <1>11 DEF HostInv

(* What the parser makes of a chunk.                                       *)
ChunkOf(k) == Framing!Feed[parsed \o SubSeq(hostWire, 1, k)]

Parses(k, gs, hs, more, j) ==
  /\ toldHost = ((heardHost \o gs) \o hs) \o more
  /\ heardHost \o gs \in Seq(Sendable)
  /\ ChunkOf(k).frames = gs
  /\ ChunkOf(k).rest \in Seq(Octet) /\ ChunkOf(k).fatal \in BOOLEAN
  /\ Junk(j) /\ (j = <<>> => more = <<>>) /\ (bad = 0 => j = <<>>)
  /\ IF ChunkOf(k).fatal THEN j # <<>>
     ELSE ChunkOf(k).rest \o SubSeq(hostWire, k + 1, Len(hostWire)) = Stream[hs] \o j

Groups(x, y, z) ==
  /\ (x \o y) \o z = x \o (y \o z)
  /\ x \o y \in Seq(Sendable) /\ y \o z \in Seq(Sendable)
  /\ Len(x \o y) = Len(x) + Len(y) /\ Len(x) \in Nat /\ Len(y) \in Nat
  /\ SubSeq(x \o y, 1, Len(x)) = x

LEMMA FrameParts ==
  ASSUME NEW x \in Seq(Sendable), NEW y \in Seq(Sendable), NEW z \in Seq(Sendable)
  PROVE  Groups(x, y, z)
<1> DEFINE S == Sendable
<1>1. x \in Seq(S) /\ y \in Seq(S) /\ z \in Seq(S)
  OBVIOUS
<1> HIDE DEF S
<1>2. /\ (x \o y) \o z = x \o (y \o z) /\ x \o y \in Seq(S) /\ y \o z \in Seq(S)
      /\ Len(x \o y) = Len(x) + Len(y) /\ Len(x) \in Nat /\ Len(y) \in Nat
  BY <1>1, ThreeParts
<1>3. SubSeq(x \o y, 1, Len(x)) = x
  BY <1>1, FrontOfTwo
<1> QED
  BY <1>2, <1>3 DEF S, Groups

LEMMA ChunkParses ==
  ASSUME Framing!ConstantsOK, HostInv, ~dead, NEW k \in 1 .. Len(hostWire)
  PROVE  \E gs, hs, more \in Seq(Sendable), j \in Seq(Octet) : Parses(k, gs, hs, more, j)
<1> DEFINE a == SubSeq(hostWire, 1, k)
           b == SubSeq(hostWire, k + 1, Len(hostWire))
           d == ChunkOf(k)
           s == parsed \o a
<1>1. /\ toldHost \in Seq(Sendable) /\ heardHost \in Seq(Sendable)
      /\ hostWire \in Seq(Octet) /\ parsed \in Seq(Octet)
  BY DEF HostInv
<1>2. PICK fs \in Seq(Sendable), more \in Seq(Sendable), j \in Seq(Octet) :
        Underway(fs, more, j)
  BY DEF HostInv
<1>3. /\ toldHost = (heardHost \o fs) \o more
      /\ Junk(j) /\ (j = <<>> => more = <<>>) /\ (bad = 0 => j = <<>>)
      /\ parsed \o hostWire = Stream[fs] \o j
  BY <1>2 DEF Underway
<1>4. a \in Seq(Octet) /\ b \in Seq(Octet) /\ a \o b = hostWire
  <2>1. k \in 0 .. Len(hostWire)
    BY <1>1, LenProperties
  <2> QED
    BY <1>1, <2>1, CutInTwo
<1>5. d = Framing!Feed[s]
  BY DEF ChunkOf
<1> HIDE DEF a, b, d
<1>6. s \in Seq(Octet) /\ s \o b = parsed \o (a \o b)
  <2>1. Regroups(parsed, a, b)
    BY <1>1, <1>4, OctetParts
  <2> QED
    BY <1>1, <1>4, <2>1, ConcatProperties DEF Regroups
<1> HIDE DEF s
<1>7. s \o b = Stream[fs] \o j
  BY <1>3, <1>4, <1>6
<1>8. HostCut(s, b, fs, j)
  BY <1>3, <1>4, <1>6, <1>7, FeedCut
<1>9. PICK gs \in Seq(Sendable), hs \in Seq(Sendable) : HostCutAt(s, b, fs, j, gs, hs)
  BY <1>8 DEF HostCut
<1>10. /\ fs = gs \o hs /\ d.frames = gs /\ d.rest \in Seq(Octet) /\ d.fatal \in BOOLEAN
       /\ IF d.fatal THEN j # <<>> ELSE d.rest \o b = Stream[hs] \o j
  BY <1>5, <1>9 DEF HostCutAt
<1>11. (heardHost \o gs) \o hs = heardHost \o (gs \o hs) /\ heardHost \o gs \in Seq(Sendable)
  <2>1. Groups(heardHost, gs, hs)
    BY <1>1, <1>9, FrameParts
  <2> QED
    BY <2>1 DEF Groups
<1>12. toldHost = ((heardHost \o gs) \o hs) \o more
  BY <1>3, <1>10, <1>11
<1>13. Parses(k, gs, hs, more, j)
  BY <1>3, <1>10, <1>11, <1>12 DEF Parses, d, b
<1> QED
  BY <1>2, <1>9, <1>13

LEMMA HostReadsInv ==
  ASSUME Framing!ConstantsOK, HostInv, NEW k \in 1 .. Len(hostWire), Framing!HostReads(k)
  PROVE  HostInv' /\ [Framing!HostWard!Next]_(Framing!HostWard!vars)
<1> DEFINE b == SubSeq(hostWire, k + 1, Len(hostWire))
           d == ChunkOf(k)
<1>1. /\ toldHost \in Seq(Sendable) /\ heardHost \in Seq(Sendable)
      /\ hostWire \in Seq(Octet) /\ parsed \in Seq(Octet)
      /\ dead \in BOOLEAN /\ bad \in 0 .. BadHeaders
      /\ faults = (IF dead THEN 1 ELSE 0) /\ (dead => bad # 0)
  BY DEF HostInv
<1>2. hostWire' = b /\ UNCHANGED <<toldHost, bad>>
  BY DEF Framing!HostReads
<1>3. b \in Seq(Octet)
  <2>1. k \in 0 .. Len(hostWire)
    BY <1>1, LenProperties
  <2> QED
    BY <1>1, <2>1, CutInTwo
<1>4. CASE dead
  <2>1. UNCHANGED <<parsed, dead, faults, heardHost>>
    BY <1>4 DEF Framing!HostReads, Framing!hostVars
  <2> HIDE DEF b, d
  <2>2. PICK hs \in Seq(Sendable), more \in Seq(Sendable), j \in Seq(Octet) :
          Underway(hs, more, j)
    BY DEF HostInv
  <2>3. Underway(hs, more, j)'
    BY <1>2, <1>4, <2>1, <2>2 DEF Underway
  <2>4. HostInv'
    BY <1>1, <1>2, <1>3, <2>1, <2>2, <2>3 DEF HostInv
  <2>5. UNCHANGED Framing!HostWard!vars
    BY <1>2, <2>1 DEF Framing!HostWard!vars
  <2> QED
    BY <2>4, <2>5
<1>5. CASE ~dead
  <2>1. /\ parsed' = d.rest /\ dead' = d.fatal
        /\ faults' = faults + (IF d.fatal THEN 1 ELSE 0)
        /\ heardHost' = heardHost \o d.frames
    BY <1>5 DEF Framing!HostReads, ChunkOf
  <2>2. PICK gs \in Seq(Sendable), hs \in Seq(Sendable), more \in Seq(Sendable),
             j \in Seq(Octet) : Parses(k, gs, hs, more, j)
    BY <1>5, ChunkParses
  <2>3. /\ toldHost = ((heardHost \o gs) \o hs) \o more
        /\ heardHost \o gs \in Seq(Sendable)
        /\ d.frames = gs /\ d.rest \in Seq(Octet) /\ d.fatal \in BOOLEAN
        /\ Junk(j) /\ (j = <<>> => more = <<>>) /\ (bad = 0 => j = <<>>)
        /\ IF d.fatal THEN j # <<>> ELSE d.rest \o b = Stream[hs] \o j
    BY <2>2 DEF Parses
  <2> HIDE DEF b, d
  <2>4. heardHost' = heardHost \o gs
    BY <2>1, <2>3
  <2>5. Underway(hs, more, j)'
    BY <1>2, <2>1, <2>3, <2>4 DEF Underway
  <2>6. faults' = (IF dead' THEN 1 ELSE 0) /\ (dead' => bad' # 0) /\ dead' \in BOOLEAN
    <3>1. dead' = d.fatal /\ d.fatal \in BOOLEAN
      BY <2>1, <2>3
    <3>2. faults' = IF d.fatal THEN 1 ELSE 0
      BY <1>1, <1>5, <2>1
    <3>3. d.fatal => bad' # 0
      BY <1>2, <2>3
    <3> QED
      BY <3>1, <3>2, <3>3
  <2>7. HostInv'
    BY <1>1, <1>2, <1>3, <2>1, <2>2, <2>3, <2>4, <2>5, <2>6 DEF HostInv
  <2>8. [Framing!HostWard!Next]_(Framing!HostWard!vars)
    <3> DEFINE r == heardHost \o gs
               u == hs \o more
               n == Len(r)
    <3>1. r \in Seq(Sendable) /\ n = Len(heardHost) + Len(gs)
          /\ Len(heardHost) \in Nat /\ Len(gs) \in Nat
      <4>1. Groups(heardHost, gs, hs)
        BY <1>1, <2>2, FrameParts
      <4> QED
        BY <4>1 DEF Groups
    <3>2. toldHost = (r \o hs) \o more /\ heardHost' = r
      BY <2>3, <2>4
    <3> HIDE DEF r
    <3>3. toldHost = r \o u /\ u \in Seq(Sendable)
      <4>1. Groups(r, hs, more)
        BY <2>2, <3>1, FrameParts
      <4> QED
        BY <3>2, <4>1 DEF Groups
    <3>4. SubSeq(toldHost, 1, n) = heardHost' /\ Len(toldHost) >= n /\ n \in Nat
          /\ Len(toldHost) \in Nat
      <4> HIDE DEF u
      <4>1. Groups(r, u, u)
        BY <3>1, <3>3, FrameParts
      <4>2. Len(toldHost) = n + Len(u) /\ n \in Nat /\ Len(u) \in Nat
            /\ SubSeq(toldHost, 1, n) = r
        BY <3>3, <4>1, LenProperties DEF Groups
      <4> QED
        BY <3>2, <4>2
    <3>5. CASE Len(gs) = 0
      <4>1. heardHost' = heardHost
        <5>1. gs = <<>>
          BY <2>2, <3>5, EmptySeq
        <5> QED
          BY <1>1, <2>4, <5>1, ConcatEmptySeq
      <4>2. CASE dead' = dead
        BY <1>2, <4>1, <4>2 DEF Framing!HostWard!vars
      <4>3. CASE dead' # dead
        <5>1. Framing!HostWard!Toggle
          <6>1. dead \in BOOLEAN /\ dead' \in BOOLEAN
            BY <1>1, <2>6
          <6>2. dead = FALSE /\ dead' = TRUE
            BY <1>5, <4>3, <6>1
          <6>3. (~dead)' # (~dead) /\ (~dead)' \in BOOLEAN
            BY <6>2
          <6> QED
            BY <1>2, <4>1, <6>3 DEF Framing!HostWard!Toggle
        <5> QED
          BY <5>1 DEF Framing!HostWard!Next
      <4> QED
        BY <4>2, <4>3
    <3>6. CASE Len(gs) # 0
      <4>1. n \in Len(heardHost) + 1 .. Len(toldHost)
        BY <3>1, <3>4, <3>6
      <4> HIDE DEF n
      <4>2. Framing!HostWard!Receive
        BY <1>2, <1>5, <2>6, <3>4, <4>1 DEF Framing!HostWard!Receive
      <4> QED
        BY <4>2 DEF Framing!HostWard!Next
    <3> QED
      BY <3>5, <3>6
  <2> QED
    BY <2>7, <2>8
<1> QED
  BY <1>1, <1>4, <1>5

(* A step on the way to the host.                                          *)
LEMMA ToHostInv ==
  ASSUME Framing!ConstantsOK, HostInv, Framing!NextToHost
  PROVE  HostInv' /\ [Framing!HostWard!Next]_(Framing!HostWard!vars)
<1>1. ASSUME NEW f \in Framing!Frame, Framing!VmWrites(f)
      PROVE  HostInv' /\ Framing!HostWard!Next
  BY <1>1, VmWritesInv
<1>2. ASSUME NEW len \in {0, WirePayload + 2}, Framing!Desync(len)
      PROVE  HostInv' /\ UNCHANGED Framing!HostWard!vars
  BY <1>2, DesyncInv DEF Framing!HostWard!vars
<1>3. ASSUME NEW k \in 1 .. Len(hostWire), Framing!HostReads(k)
      PROVE  HostInv' /\ [Framing!HostWard!Next]_(Framing!HostWard!vars)
  BY <1>3, HostReadsInv
<1> QED
  BY <1>1, <1>2, <1>3 DEF Framing!NextToHost, Framing!HostFeeds

(* To the VM: the host writes, the VM reads.                               *)
LEMMA HostWritesInv ==
  ASSUME Framing!ConstantsOK, VmInv, NEW f \in Framing!Frame, Framing!HostWrites(f)
  PROVE  VmInv'
<1> DEFINE e == Framing!Encode(f)
<1>1. /\ f \in Sendable /\ vmWire' = vmWire \o e /\ toldVm' = Append(toldVm, f)
      /\ UNCHANGED <<rxBuf, heardVm>>
  BY DEF Framing!HostWrites, Sendable
<1>2. /\ toldVm \in Seq(Sendable) /\ heardVm \in Seq(Heard)
      /\ vmWire \in Seq(Octet) /\ rxBuf \in Seq(Octet) /\ Len(rxBuf) < 3 + WirePayload
  BY DEF VmInv
<1>3. PICK gs \in Seq(Sendable), hs \in Seq(Sendable) : UnderwayVm(gs, hs)
  BY DEF VmInv
<1>4. toldVm = gs \o hs /\ Alike(heardVm, gs) /\ rxBuf \o vmWire = Stream[hs]
  BY <1>3 DEF UnderwayVm
<1> DEFINE hh == Append(hs, f)
<1>5. /\ e \in Seq(Octet) /\ vmWire' \in Seq(Octet) /\ toldVm' \in Seq(Sendable)
      /\ hh \in Seq(Sendable) /\ Stream[hh] = Stream[hs] \o e
  BY <1>1, <1>2, OneMoreFrame, ConcatProperties
<1>6. toldVm' = gs \o hh
  <2>1. Append(gs \o hs, f) = gs \o hh
    BY <1>1, OneMoreOf
  <2> HIDE DEF hh
  <2> QED
    BY <1>1, <1>4, <2>1
<1> HIDE DEF e, hh
<1>7. rxBuf \o vmWire' = Stream[hh]
  <2>1. Regroups(rxBuf, vmWire, e)
    BY <1>2, <1>5, OctetParts
  <2>2. (rxBuf \o vmWire) \o e = rxBuf \o (vmWire \o e)
    BY <2>1 DEF Regroups
  <2> QED
    BY <1>1, <1>4, <1>5, <2>2
<1>8. UnderwayVm(gs, hh)'
  BY <1>1, <1>4, <1>6, <1>7 DEF UnderwayVm
<1> QED
  BY <1>1, <1>2, <1>5, <1>8 DEF VmInv

LEMMA VmReadsInv ==
  ASSUME Framing!ConstantsOK, VmInv, NEW k \in 1 .. Len(vmWire), Framing!VmReads(k)
  PROVE  VmInv'
<1> DEFINE a == SubSeq(vmWire, 1, k)
           b == SubSeq(vmWire, k + 1, Len(vmWire))
           s == rxBuf \o a
           d == Framing!VmFeed[s]
<1>1. /\ toldVm \in Seq(Sendable) /\ heardVm \in Seq(Heard)
      /\ vmWire \in Seq(Octet) /\ rxBuf \in Seq(Octet) /\ Len(rxBuf) < 3 + WirePayload
  BY DEF VmInv
<1>2. /\ vmWire' = b /\ rxBuf' = d.rest /\ heardVm' = heardVm \o d.frames
      /\ toldVm' = toldVm
  BY DEF Framing!VmReads
<1>3. PICK fs \in Seq(Sendable), es \in Seq(Sendable) : UnderwayVm(fs, es)
  BY DEF VmInv
<1>4. toldVm = fs \o es /\ Alike(heardVm, fs) /\ rxBuf \o vmWire = Stream[es]
  BY <1>3 DEF UnderwayVm
<1>5. a \in Seq(Octet) /\ b \in Seq(Octet) /\ a \o b = vmWire
  <2>1. k \in 0 .. Len(vmWire)
    BY <1>1, LenProperties
  <2> QED
    BY <1>1, <2>1, CutInTwo
<1> HIDE DEF a, b
<1>6. s \in Seq(Octet) /\ s \o b = Stream[es]
  <2>1. Regroups(rxBuf, a, b)
    BY <1>1, <1>5, OctetParts
  <2>2. s \o b = rxBuf \o vmWire
    BY <1>5, <2>1 DEF Regroups
  <2>3. s \in Seq(Octet)
    BY <1>1, <1>5, ConcatProperties
  <2> QED
    BY <1>4, <2>2, <2>3
<1> HIDE DEF s
<1>7. VmCut(s, b, es)
  BY <1>5, <1>6, VmFeedCut
<1>8. PICK gs \in Seq(Sendable), hs \in Seq(Sendable) : VmCutAt(s, b, es, gs, hs)
  BY <1>7 DEF VmCut
<1>9. /\ es = gs \o hs /\ d.frames \in Seq(Heard) /\ Alike(d.frames, gs)
      /\ d.rest \in Seq(Octet) /\ d.rest \o b = Stream[hs] /\ Len(d.rest) < 3 + WirePayload
  BY <1>8 DEF VmCutAt
<1> HIDE DEF d
<1>10. Alike(heardVm', fs \o gs) /\ heardVm' \in Seq(Heard)
  BY <1>1, <1>2, <1>4, <1>9, AlikeTwo, ConcatProperties
<1>11. toldVm' = (fs \o gs) \o hs /\ fs \o gs \in Seq(Sendable)
  <2>1. Groups(fs, gs, hs)
    BY FrameParts
  <2> QED
    BY <1>2, <1>4, <1>9, <2>1 DEF Groups
<1> DEFINE g == fs \o gs
<1> HIDE DEF g
<1>12. UnderwayVm(g, hs)'
  BY <1>2, <1>9, <1>10, <1>11 DEF UnderwayVm, g
<1>13. g \in Seq(Sendable)
  BY <1>11 DEF g
<1> QED
  BY <1>1, <1>2, <1>5, <1>9, <1>10, <1>12, <1>13 DEF VmInv

LEMMA ToVmInv ==
  ASSUME Framing!ConstantsOK, VmInv, Framing!NextToVm
  PROVE  VmInv'
BY HostWritesInv, VmReadsInv DEF Framing!NextToVm, Framing!VmFeeds

(* Neither direction has anything to do with the other.                    *)
LEMMA FramingNext ==
  ASSUME Framing!ConstantsOK, HostInv, VmInv, [Framing!Next]_(Framing!vars)
  PROVE  HostInv' /\ VmInv' /\ [Framing!HostWard!Next]_(Framing!HostWard!vars)
<1>1. ASSUME UNCHANGED <<hostWire, parsed, dead, faults, toldHost, heardHost, bad>>
      PROVE  HostInv' /\ UNCHANGED Framing!HostWard!vars
  BY <1>1 DEF HostInv, Underway, Framing!HostWard!vars
<1>2. ASSUME UNCHANGED <<vmWire, rxBuf, toldVm, heardVm>>
      PROVE  VmInv'
  BY <1>2 DEF VmInv, UnderwayVm
<1>3. CASE Framing!NextToHost
  <2>1. UNCHANGED <<vmWire, rxBuf, toldVm, heardVm>>
    BY <1>3 DEF Framing!NextToHost, Framing!HostFeeds, Framing!VmWrites, Framing!Desync,
                Framing!HostReads
  <2> QED
    BY <1>2, <1>3, <2>1, ToHostInv
<1>4. CASE Framing!NextToVm
  <2>1. UNCHANGED <<hostWire, parsed, dead, faults, toldHost, heardHost, bad>>
    BY <1>4 DEF Framing!NextToVm, Framing!VmFeeds, Framing!HostWrites, Framing!VmReads,
                Framing!hostVars
  <2> QED
    BY <1>1, <1>4, <2>1, ToVmInv
<1>5. CASE UNCHANGED Framing!vars
  BY <1>1, <1>2, <1>5 DEF Framing!vars, Framing!hostVars
<1> QED
  BY <1>3, <1>4, <1>5 DEF Framing!Next

(* What the invariant says of the frames.                                  *)
LEMMA FrameSizes ==
  ASSUME Framing!ConstantsOK, NEW s \in Seq(Sendable)
  PROVE  \A i \in DOMAIN s : s[i].type \in Octet /\ Len(s[i].payload) <= WirePayload
<1> TAKE i \in DOMAIN s
<1>1. s[i] \in Sendable
  BY ElementOfSeq, LenProperties
<1>2. s[i].type \in Octet /\ Len(s[i].payload) \in 0 .. WirePayload
  BY <1>1, Sent
<1> QED
  BY <1>2, FramingNumbers

LEMMA FramingSafe ==
  ASSUME Framing!ConstantsOK, HostInv, VmInv
  PROVE  Framing!ToHostSafe /\ Framing!ToVmSafe
<1>1. /\ toldHost \in Seq(Sendable) /\ heardHost \in Seq(Sendable)
      /\ hostWire \in Seq(Octet) /\ parsed \in Seq(Octet)
      /\ dead \in BOOLEAN /\ bad \in 0 .. BadHeaders
      /\ faults = (IF dead THEN 1 ELSE 0) /\ (dead => bad # 0)
  BY DEF HostInv
<1>2. /\ toldVm \in Seq(Sendable) /\ heardVm \in Seq(Heard)
      /\ vmWire \in Seq(Octet) /\ rxBuf \in Seq(Octet) /\ Len(rxBuf) < 3 + WirePayload
  BY DEF VmInv
<1>3. PICK hs \in Seq(Sendable), more \in Seq(Sendable), j \in Seq(Octet) :
        toldHost = (heardHost \o hs) \o more
  BY DEF HostInv, Underway
<1>4. PICK gs \in Seq(Sendable), ws \in Seq(Sendable) :
        toldVm = gs \o ws /\ Alike(heardVm, gs)
  BY DEF VmInv, UnderwayVm
<1>5. /\ Len(heardVm) = Len(gs) /\ Len(gs) \in Nat /\ Len(gs) <= Len(toldVm)
      /\ DOMAIN heardVm = 1 .. Len(gs)
      /\ \A i \in 1 .. Len(gs) : toldVm[i] = gs[i]
  <2>1. Len(toldVm) = Len(gs) + Len(ws) /\ Len(gs) \in Nat /\ Len(ws) \in Nat
    BY <1>4, ConcatProperties, LenProperties
  <2>2. \A i \in 1 .. Len(gs) : i \in 1 .. Len(gs) + Len(ws) /\ i <= Len(gs)
    BY <2>1
  <2>3. \A i \in 1 .. Len(gs) : toldVm[i] = gs[i]
    BY <1>4, <2>2, ConcatProperties
  <2>4. Len(heardVm) = Len(gs) /\ DOMAIN heardVm = 1 .. Len(heardVm)
    BY <1>2, <1>4, LenProperties DEF Alike
  <2> QED
    BY <2>1, <2>3, <2>4
<1>6. \A i \in DOMAIN heardVm :
        /\ heardVm[i].type = toldVm[i].type
        /\ Len(heardVm[i].payload) = Len(toldVm[i].payload)
  BY <1>4, <1>5 DEF Alike
<1>7. \A i \in DOMAIN heardVm :
        heardVm[i].type \in Octet /\ Len(heardVm[i].payload) <= WirePayload
  <2>1. \A i \in DOMAIN heardVm : i \in DOMAIN toldVm
    BY <1>2, <1>5, LenProperties
  <2> QED
    BY <1>2, <1>6, <2>1, FrameSizes
<1>8. Framing!TypeOK
  <2>1. \A s \in {hostWire, vmWire, parsed, rxBuf} : s \in Seq(0 .. 255)
    BY <1>1, <1>2 DEF Octet
  <2>2. \A s \in {toldVm, heardVm, toldHost, heardHost} :
          \A i \in DOMAIN s : s[i].type \in Octet /\ Len(s[i].payload) <= WirePayload
    <3>1. \A s \in {toldVm, toldHost, heardHost} : s \in Seq(Sendable)
      BY <1>1, <1>2
    <3>2. \A s \in {toldVm, toldHost, heardHost} :
            \A i \in DOMAIN s : s[i].type \in Octet /\ Len(s[i].payload) <= WirePayload
      BY <3>1, FrameSizes
    <3> QED
      BY <1>7, <3>2
  <2>3. faults \in Nat
    BY <1>1
  <2> QED
    BY <1>1, <2>1, <2>2, <2>3 DEF Framing!TypeOK, Octet
<1>9. Framing!DesyncIsFatal
  <2>1. faults <= bad
    BY <1>1, FramingNumbers
  <2>2. Groups(heardHost, hs, more)
    BY <1>1, <1>3, FrameParts
  <2> DEFINE u == hs \o more
  <2>3. u \in Seq(Sendable) /\ toldHost = heardHost \o u
    BY <1>3, <2>2 DEF Groups
  <2> HIDE DEF u
  <2>4. Groups(heardHost, u, u)
    BY <1>1, <2>3, FrameParts
  <2>5. /\ Len(heardHost) <= Len(toldHost)
        /\ SubSeq(toldHost, 1, Len(heardHost)) = heardHost
    BY <2>3, <2>4 DEF Groups
  <2>6. SubSeq(heardHost, 1, Len(heardHost)) = heardHost
    BY <1>1, SubSeqFull
  <2>7. Framing!IsPrefix(heardHost, toldHost)
    BY <2>5, <2>6 DEF Framing!IsPrefix
  <2> QED
    BY <2>1, <2>7 DEF Framing!DesyncIsFatal
<1>10. Framing!VmSeesTypes
  <2>1. Framing!RxRoom > 0
    <3>1. Len(rxBuf) \in Nat /\ WirePayload \in Nat
      BY <1>2, LenProperties, FramingNumbers
    <3> QED
      BY <1>2, <3>1 DEF Framing!RxRoom, Framing!HeaderSize
  <2>2. Len(heardVm) <= Len(toldVm)
    BY <1>5
  <2> QED
    BY <1>6, <2>1, <2>2 DEF Framing!VmSeesTypes
<1> QED
  BY <1>8, <1>9, <1>10 DEF Framing!ToHostSafe, Framing!ToVmSafe

(* The composition takes steps of one part at a time.                      *)
LEMMA FramingRuns ==
  MCSpec => Framing!Init /\ [][Framing!Next]_(Framing!vars)
<1>1. MCInit => Framing!Init
  BY DEF MCInit
<1>2. [MCNext]_all => [Framing!Next]_(Framing!vars)
  BY DEF MCNext, TunnelRuns, BridgeRuns, PlayoutRuns, ToHostRuns, ToVmRuns, Runs, all,
         framingVars, Framing!vars, Framing!hostVars, Framing!Next
<1> QED
  BY <1>1, <1>2, PTL DEF MCSpec

(* For all types and sizes of frames, and wherever the stream is cut: the  *)
(* host gets the VM's frames whole and in order; a length no frame may     *)
(* have ends that for good, and nothing is made of what follows it; and    *)
(* the VM sees every frame of the host's with its type and its length, in  *)
(* a buffer that always has room for the rest of a frame.                  *)
THEOREM WireHoldsAlways == Framing!ConstantsOK => (MCSpec => WireHolds)
<1>1. CASE Framing!ConstantsOK
  <2>1. Framing!Init => HostInv /\ VmInv
    BY <1>1, FramingInit
  <2>2. (HostInv /\ VmInv) /\ [Framing!Next]_(Framing!vars) => (HostInv /\ VmInv)'
    BY <1>1, FramingNext
  <2>3. HostInv /\ VmInv => Framing!ToHostSafe /\ Framing!ToVmSafe
    BY <1>1, FramingSafe
  <2>4. Framing!Init => Framing!HostWard!Init
    BY DEF Framing!Init, Framing!HostWard!Init
  <2>5. (HostInv /\ VmInv) /\ [Framing!Next]_(Framing!vars)
          => [Framing!HostWard!Next]_(Framing!HostWard!vars)
    BY <1>1, FramingNext
  <2> QED
    BY <2>1, <2>2, <2>3, <2>4, <2>5, FramingRuns, PTL
       DEF WireHolds, Framing!FramesToHost, Framing!HostWard!Order
<1> QED
  BY <1>1

=============================================================================
