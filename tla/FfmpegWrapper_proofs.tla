----------------------- MODULE FfmpegWrapper_proofs ------------------------
(***************************************************************************)
(* What the ffmpeg wrapper promises of every command line.  The invariant  *)
(* relates what each pass has seen and written so far to the arguments     *)
(* before the position of its loop.  The lemmas about FlattenSeq and about *)
(* sequences of any length are proved by the least counterexample.         *)
(***************************************************************************)
EXTENDS FfmpegWrapper, TLAPS, WellFoundedInduction, SequenceTheorems

(* What follows option o among the first n arguments. *)
ValuesBefore(n, o) == {argv[i] : i \in {j \in 2..n : argv[j - 1] = Word(o)}}

(* What pass 1 knows after n arguments. *)
SeenBefore(n) ==
  /\ hw <=> (Word("v4l2request") \in ValuesBefore(n, "-hwaccel"))
  /\ rawvideo <=> (Word("rawvideo") \in ValuesBefore(n, "-f"))
  /\ explicit <=> (\E i \in 1..n : argv[i] \in ExplicitOptions)
  /\ vf_ok \in Nat /\ vf_bad \in Nat
  /\ (vf_ok >= 1) <=> (\E a \in ValuesBefore(n, "-vf") : Scaler(a))
  /\ (vf_bad = 0) <=> (\A a \in ValuesBefore(n, "-vf") : Scaler(a))

(* The arguments the real ffmpeg may get. *)
Passed == Argument \cup {Inserted[k] : k \in 1..6} \cup {Scaled(a) : a \in Argument}

(* The chains are Frigate's scalers, and their scaled forms. *)
AllScaled(chains, scaled) ==
  /\ \A k \in DOMAIN chains : Scaler(chains[k])
  /\ scaled = [k \in DOMAIN chains |-> Scaled(chains[k])]

(* What pass 2 has written after n arguments. *)
WrittenBefore(n) ==
  /\ out \in Seq(Passed)
  /\ (out = <<>>) <=> (n = 0)
  /\ n # 0 => ((out[Len(out)] = Word("-vf")) <=> (argv[n] = Word("-vf")))
  /\ Blanked(out) = FlattenSeq([i \in 1..n |-> Rebuilt(i)])
  /\ AllScaled(Chains(SubSeq(argv, 1, n)), Chains(out))

(* A loop has seen the first n arguments. *)
Position == Len(argv) - Len(rest)

At(n) ==
  /\ n \in 0..Len(argv)
  /\ rest = SubSeq(argv, n + 1, Len(argv))
  /\ prev = IF n = 0 THEN <<>> ELSE argv[n]

WrapperInv ==
  /\ argv \in Seq(Argument) /\ rest \in Seq(Argument) /\ enabled \in BOOLEAN
  /\ hw \in BOOLEAN /\ rawvideo \in BOOLEAN /\ explicit \in BOOLEAN
  /\ pc \in {"classify", "rebuild", "exec"}
  /\ pc = "classify" => At(Position) /\ SeenBefore(Position) /\ out = <<>>
  /\ pc = "rebuild" => /\ Rewrites /\ SeenBefore(Len(argv))
                       /\ At(Position) /\ WrittenBefore(Position)
  /\ pc = "exec" => /\ SeenBefore(Len(argv))
                    /\ IF Rewrites THEN WrittenBefore(Len(argv)) ELSE out = argv

-----------------------------------------------------------------------------
(* FlattenSeq. *)

(* Every nonempty set of natural numbers has a least one. *)
LEMMA LeastNatural ==
  ASSUME NEW D \in SUBSET Nat, D # {}
  PROVE  \E n \in D : \A k \in D : n <= k
<1>1. IsWellFoundedOn(OpToRel(<, Nat), Nat)
  BY NatLessThanWellFounded
<1>2. PICK n \in D : \A k \in D : <<k, n>> \notin OpToRel(<, Nat)
  BY <1>1, WFMin
<1>3. \A k \in D : ~(k < n)
  BY <1>2 DEF OpToRel
<1> QED
  BY <1>3

(* f is what FlattenSeq computes for the prefixes of seqs. *)
Flattens(f, seqs) ==
  f = [i \in 1..Len(seqs) |-> IF i = 1 THEN seqs[i] ELSE f[i - 1] \o seqs[i]]

LEMMA FlattenUnique ==
  ASSUME NEW T, NEW seqs \in Seq(T), NEW f, NEW g, Flattens(f, seqs), Flattens(g, seqs)
  PROVE  f = g
<1> DEFINE D == {i \in 1..Len(seqs) : f[i] # g[i]}
<1>1. /\ f = [i \in 1..Len(seqs) |-> f[i]]
      /\ g = [i \in 1..Len(seqs) |-> g[i]]
  BY DEF Flattens
<1>2. ASSUME D # {} PROVE FALSE
  <2>1. D \in SUBSET Nat
    OBVIOUS
  <2>2. PICK n \in D : \A k \in D : n <= k
    BY <1>2, <2>1, LeastNatural
  <2>3. n # 1
    BY <2>2 DEF Flattens
  <2>4. n - 1 \in 1..Len(seqs) /\ n - 1 \notin D
    BY <2>2, <2>3
  <2>5. f[n - 1] = g[n - 1]
    BY <2>4
  <2>6. f[n] = f[n - 1] \o seqs[n] /\ g[n] = g[n - 1] \o seqs[n]
    BY <2>2, <2>3 DEF Flattens
  <2> QED
    BY <2>2, <2>5, <2>6
<1>3. \A i \in 1..Len(seqs) : f[i] = g[i]
  BY <1>2
<1> QED
  BY <1>1, <1>3

LEMMA FlattenExtends ==
  ASSUME NEW T, NEW seqs \in Seq(T), NEW f, Flattens(f, seqs), NEW x
  PROVE  Flattens([i \in 1..Len(seqs) + 1 |->
                     IF i <= Len(seqs) THEN f[i]
                     ELSE IF seqs = <<>> THEN x ELSE f[Len(seqs)] \o x],
                  Append(seqs, x))
<1> DEFINE n == Len(seqs)
           t == Append(seqs, x)
           g == [i \in 1..n + 1 |-> IF i <= n THEN f[i]
                                    ELSE IF seqs = <<>> THEN x ELSE f[n] \o x]
<1>1. n \in Nat /\ Len(t) = n + 1 /\ t[n + 1] = x /\ \A i \in 1..n : t[i] = seqs[i]
  OBVIOUS
<1>2. seqs = <<>> <=> n = 0
  OBVIOUS
<1>3. ASSUME NEW i \in 1..n
      PROVE  g[i] = IF i = 1 THEN t[i] ELSE g[i - 1] \o t[i]
  <2>1. f[i] = IF i = 1 THEN seqs[i] ELSE f[i - 1] \o seqs[i]
    BY DEF Flattens
  <2>2. g[i] = f[i] /\ (i # 1 => g[i - 1] = f[i - 1])
    BY <1>1
  <2> QED
    BY <1>1, <2>1, <2>2
<1>4. g[n + 1] = IF n + 1 = 1 THEN t[n + 1] ELSE g[n] \o t[n + 1]
  <2>1. CASE n = 0
    BY <2>1, <1>1, <1>2
  <2>2. CASE n # 0
    BY <2>2, <1>1, <1>2
  <2> QED
    BY <2>1, <2>2
<1>5. g = [i \in 1..n + 1 |-> g[i]]
  OBVIOUS
<1> HIDE DEF t, g
<1>6. \A i \in 1..n + 1 : g[i] = IF i = 1 THEN t[i] ELSE g[i - 1] \o t[i]
  <2> \A i \in 1..n + 1 : i \in 1..n \/ i = n + 1
    BY <1>1
  <2> QED
    BY <1>3, <1>4
<1>7. g = [i \in 1..Len(t) |-> IF i = 1 THEN t[i] ELSE g[i - 1] \o t[i]]
  BY <1>1, <1>5, <1>6
<1>8. Flattens(g, t)
  BY <1>7 DEF Flattens
<1> QED
  BY <1>8 DEF g, t

LEMMA FlattenExists ==
  ASSUME NEW T, NEW seqs \in Seq(T)
  PROVE  \E f : Flattens(f, seqs)
<1> DEFINE Fails(n) == \E s \in Seq(T) : Len(s) = n /\ ~\E f : Flattens(f, s)
           D == {n \in Nat : Fails(n)}
<1>1. ASSUME D # {} PROVE FALSE
  <2>1. PICK n \in D : \A k \in D : n <= k
    <3> D \in SUBSET Nat
      OBVIOUS
    <3> QED
      BY <1>1, LeastNatural
  <2>2. PICK s \in Seq(T) : Len(s) = n /\ ~\E f : Flattens(f, s)
    BY <2>1
  <2>3. CASE n = 0
    <3>1. Flattens([i \in 1..Len(s) |-> s[i]], s)
      BY <2>2, <2>3 DEF Flattens
    <3> QED
      BY <2>2, <3>1
  <2>4. CASE n # 0
    <3>1. PICK front \in Seq(T), x \in T : s = Append(front, x)
      <4>1. s # <<>>
        BY <2>2, <2>4
      <4> QED
        BY <4>1, SequenceEmptyOrAppend
    <3>2. Len(front) = n - 1 /\ n \in Nat
      BY <2>1, <2>2, <3>1
    <3>3. n - 1 \in Nat /\ n - 1 \notin D
      BY <2>1, <2>4, <3>2
    <3>4. PICK f : Flattens(f, front)
      BY <3>2, <3>3
    <3>5. \E g : Flattens(g, Append(front, x))
      BY <3>4, FlattenExtends
    <3> QED
      BY <2>2, <3>1, <3>5
  <2> QED
    BY <2>3, <2>4
<1>2. Len(seqs) \in Nat /\ Len(seqs) \notin D
  BY <1>1
<1> QED
  BY <1>2

(* FlattenSeq returns the last value of its function. *)
LEMMA FlattenIs ==
  ASSUME NEW T, NEW seqs \in Seq(T), seqs # <<>>, NEW f, Flattens(f, seqs)
  PROVE  FlattenSeq(seqs) = f[Len(seqs)]
<1> DEFINE g == CHOOSE g : Flattens(g, seqs)
<1>1. Len(seqs) # 0
  OBVIOUS
<1>2. FlattenSeq(seqs) = g[Len(seqs)]
  BY <1>1 DEF FlattenSeq, Flattens
<1>3. Flattens(g, seqs)
  OBVIOUS
<1> HIDE DEF g
<1>4. f = g
  BY <1>3, FlattenUnique
<1> QED
  BY <1>2, <1>4

LEMMA FlattenEmpty == FlattenSeq(<<>>) = <<>>
BY DEF FlattenSeq

(* FlattenSeq by its last sequence. *)
LEMMA FlattenAppend ==
  ASSUME NEW T, NEW seqs \in Seq(Seq(T)), NEW x \in Seq(T)
  PROVE  FlattenSeq(Append(seqs, x)) = FlattenSeq(seqs) \o x
<1>1. PICK f : Flattens(f, seqs)
  BY FlattenExists
<1> DEFINE n == Len(seqs)
           g == [i \in 1..n + 1 |-> IF i <= n THEN f[i]
                                    ELSE IF seqs = <<>> THEN x ELSE f[n] \o x]
<1>2. Flattens(g, Append(seqs, x))
  BY <1>1, FlattenExtends
<1>3. /\ Append(seqs, x) \in Seq(Seq(T)) /\ Append(seqs, x) # <<>>
      /\ Len(Append(seqs, x)) = n + 1
  BY AppendProperties
<1>4. FlattenSeq(Append(seqs, x)) = g[n + 1]
  <2> HIDE DEF g
  <2> QED
    BY <1>2, <1>3, FlattenIs
<1>5. CASE seqs = <<>>
  <2>1. g[n + 1] = x
    BY <1>5
  <2>2. <<>> \o x = x
    OBVIOUS
  <2> QED
    BY <1>4, <1>5, <2>1, <2>2, FlattenEmpty
<1>6. CASE seqs # <<>>
  <2>1. g[n + 1] = f[n] \o x
    BY <1>6
  <2>2. FlattenSeq(seqs) = f[n]
    BY <1>1, <1>6, FlattenIs
  <2> QED
    BY <1>4, <2>1, <2>2
<1> QED
  BY <1>5, <1>6

(* ... and its type. *)
LEMMA FlattenType ==
  ASSUME NEW T, NEW seqs \in Seq(Seq(T))
  PROVE  FlattenSeq(seqs) \in Seq(T)
<1> DEFINE Fails(n) == \E s \in Seq(Seq(T)) : Len(s) = n /\ FlattenSeq(s) \notin Seq(T)
           D == {n \in Nat : Fails(n)}
<1>1. ASSUME D # {} PROVE FALSE
  <2>1. PICK n \in D : \A k \in D : n <= k
    <3> D \in SUBSET Nat
      OBVIOUS
    <3> QED
      BY <1>1, LeastNatural
  <2>2. PICK s \in Seq(Seq(T)) : Len(s) = n /\ FlattenSeq(s) \notin Seq(T)
    BY <2>1
  <2>3. s # <<>>
    BY <2>2, FlattenEmpty
  <2>4. PICK front \in Seq(Seq(T)), x \in Seq(T) : s = Append(front, x)
    BY <2>3, SequenceEmptyOrAppend
  <2>5. Len(front) \in Nat /\ Len(front) < n
    BY <2>2, <2>4
  <2>6. FlattenSeq(front) \in Seq(T)
    <3>1. Len(front) \notin D
      BY <2>1, <2>5
    <3> QED
      BY <2>5, <3>1
  <2>7. FlattenSeq(s) = FlattenSeq(front) \o x
    BY <2>4, FlattenAppend
  <2> QED
    BY <2>2, <2>6, <2>7
<1>2. Len(seqs) \in Nat /\ Len(seqs) \notin D
  BY <1>1
<1> QED
  BY <1>2

-----------------------------------------------------------------------------
(* Arguments. *)

LEMMA WordIs ==
  ASSUME NEW w
  PROVE  Len(Word(w)) = 1 /\ Word(w)[1].name = w /\ Word(w) # <<>>
BY DEF Word, Part

LEMMA InsertedWords ==
  /\ Inserted \in Seq(Passed) /\ Len(Inserted) = 6
  /\ \A k \in 1..6 : Inserted[k] # Word("-vf")
<1>1. Len(Inserted) = 6 /\ Inserted = [k \in 1..6 |-> Inserted[k]]
  BY DEF Inserted
<1>2. Inserted \in Seq(Passed)
  <2>1. \A k \in 1..6 : Inserted[k] \in Passed
    BY <1>1 DEF Passed
  <2> QED
    BY <1>1, <2>1
<1>3. ASSUME NEW k \in 1..6 PROVE Inserted[k] # Word("-vf")
  <2>1. k = 1 \/ k = 2 \/ k = 3 \/ k = 4 \/ k = 5 \/ k = 6
    OBVIOUS
  <2>2. Inserted[k][1].name # "-vf"
    BY <2>1, WordIs DEF Inserted
  <2>3. Word("-vf")[1].name = "-vf"
    BY WordIs
  <2> QED
    BY <2>2, <2>3
<1> QED
  BY <1>1, <1>2, <1>3

LEMMA InsertedAfter ==
  ASSUME NEW a \in Passed
  PROVE  /\ <<a>> \o Inserted \in Seq(Passed)
         /\ Len(<<a>> \o Inserted) = 7
         /\ (<<a>> \o Inserted)[1] = a
         /\ \A k \in 2..7 : k - 1 \in 1..6 /\ (<<a>> \o Inserted)[k] = Inserted[k - 1]
<1>1. Inserted \in Seq(Passed) /\ Len(Inserted) = 6
  BY InsertedWords
<1>2. <<a>> \in Seq(Passed) /\ Len(<<a>>) = 1 /\ <<a>>[1] = a
  OBVIOUS
<1> DEFINE h == <<a>>
<1> HIDE DEF h
<1>3. /\ h \o Inserted \in Seq(Passed) /\ Len(h \o Inserted) = Len(h) + Len(Inserted)
      /\ \A k \in 1..Len(h) + Len(Inserted) :
           (h \o Inserted)[k] = IF k <= Len(h) THEN h[k] ELSE Inserted[k - Len(h)]
  BY <1>1, <1>2, ConcatProperties DEF h
<1>4. Len(h) = 1 /\ h[1] = a
  BY <1>2 DEF h
<1>5. Len(h \o Inserted) = 7 /\ (h \o Inserted)[1] = a
  BY <1>1, <1>3, <1>4
<1>6. \A k \in 2..7 : k - 1 \in 1..6 /\ (h \o Inserted)[k] = Inserted[k - 1]
  <2> TAKE k \in 2..7
  <2>1. k \in 1..Len(h) + Len(Inserted) /\ ~(k <= Len(h)) /\ k - Len(h) = k - 1
    BY <1>1, <1>4
  <2> QED
    BY <1>3, <2>1
<1> QED
  BY <1>3, <1>5, <1>6 DEF h

LEMMA PassedArguments == Argument \subseteq Passed /\ <<>> \in Passed /\ <<>> \in Argument
BY DEF Passed, Argument

LEMMA ScalerParts ==
  ASSUME NEW a \in Argument, Scaler(a)
  PROVE  /\ Len(a) \in Nat /\ Len(a) >= 2 /\ a[1].name = "fps"
         /\ Last(a) = a[Len(a)] /\ Last(a).name = "scale"
         /\ Len(Last(a).value) = 2 => Last(a).value = <<Width(a), Height(a)>>
         /\ Range(Last(a).value) \subseteq Numbers
<1> DEFINE Parts == [name : STRING, value : Seq(STRING)]
<1>1. a \in Seq(Parts)
  BY DEF Argument
<1>2. Len(a) >= 2 /\ a[1].name = "fps" /\ Last(a).name = "scale" /\ Len(Last(a).value) \in {1, 2}
  BY DEF Scaler, Matches
<1> DEFINE v == Last(a).value
<1>3. Width(a) = v[1] /\ Height(a) = v[Len(v)]
  BY DEF Width, Height, Last
<1>4. v[1] \in Numbers /\ v[Len(v)] \in Numbers
  BY <1>3 DEF Scaler
<1>5. Last(a) = a[Len(a)]
  BY DEF Last
<1>6. Len(a) \in Nat /\ a[Len(a)] \in Parts
  <2> HIDE DEF Parts
  <2> QED
    BY <1>1, <1>2
<1>7. v \in Seq(STRING) /\ Len(v) \in {1, 2}
  BY <1>2, <1>5, <1>6
<1> HIDE DEF v, Parts
<1>8. DOMAIN v = 1..Len(v) /\ (Len(v) = 2 => v = <<v[1], v[2]>>)
  BY <1>7
<1>9. Range(v) \subseteq Numbers
  BY <1>4, <1>7, <1>8 DEF Range
<1> QED
  BY <1>2, <1>3, <1>5, <1>6, <1>8, <1>9 DEF v

LEMMA ScaledIsPassed ==
  ASSUME NEW a \in Argument, Scaler(a)
  PROVE  Scaled(a) \in Passed /\ Scaled(a) # Word("-vf") /\ a # Word("-vf")
<1>1. Scaled(a) \in Passed
  BY DEF Passed
<1>2. Len(a) >= 2 /\ Len(a) \in Nat
  BY ScalerParts
<1>3. Len(Scaled(a)) = 2
  BY DEF Scaled
<1>4. Len(Word("-vf")) = 1
  BY WordIs
<1>5. Len(a) # 1 /\ Len(Scaled(a)) # 1
  BY <1>2, <1>3
<1> QED
  BY <1>1, <1>4, <1>5

-----------------------------------------------------------------------------
(* Command lines: what one more argument adds. *)

(* The next argument is the value of -vf. *)
AwaitsFilter(c) == c # <<>> /\ c[Len(c)] = Word("-vf")

LEMMA BlankedAppend ==
  ASSUME NEW c \in Seq(Passed), NEW a \in Passed
  PROVE  /\ Blanked(c) \in Seq(Passed)
         /\ Blanked(Append(c, a)) = Append(Blanked(c), IF AwaitsFilter(c) THEN <<>> ELSE a)
<1> DEFINE d == Append(c, a)
           last == IF AwaitsFilter(c) THEN <<>> ELSE a
<1>1. <<>> \in Passed
  BY PassedArguments
<1>2. \A k \in 1..Len(c) : c[k] \in Passed
  OBVIOUS
<1>3. Blanked(c) \in Seq(Passed) /\ Len(Blanked(c)) = Len(c)
  BY <1>1, <1>2 DEF Blanked
<1>4. /\ d \in Seq(Passed) /\ Len(d) = Len(c) + 1 /\ d[Len(c) + 1] = a
      /\ \A k \in 1..Len(c) : d[k] = c[k]
  BY AppendProperties
<1>5. Blanked(d) \in Seq(Passed) /\ Len(Blanked(d)) = Len(c) + 1
  <2>1. \A k \in 1..Len(d) : d[k] \in Passed
    BY <1>4
  <2> QED
    BY <1>1, <1>4, <2>1 DEF Blanked
<1>6. \A k \in 1..Len(c) : Blanked(d)[k] = Blanked(c)[k]
  BY <1>4 DEF Blanked
<1>7. Blanked(d)[Len(c) + 1] = last
  BY <1>4 DEF Blanked, AwaitsFilter
<1> DEFINE r == Append(Blanked(c), last)
<1>8. /\ r \in Seq(Passed) /\ Len(r) = Len(c) + 1 /\ r[Len(c) + 1] = last
      /\ \A k \in 1..Len(c) : r[k] = Blanked(c)[k]
  BY <1>1, <1>3, AppendProperties
<1>9. \A k \in 1..Len(c) + 1 : Blanked(d)[k] = r[k]
  <2> HIDE DEF d, r, last
  <2>1. \A k \in 1..Len(c) + 1 : k \in 1..Len(c) \/ k = Len(c) + 1
    OBVIOUS
  <2> QED
    BY <1>6, <1>7, <1>8, <2>1
<1>10. Blanked(d) = r
  <2> HIDE DEF d, r, last
  <2> QED
    BY <1>5, <1>8, <1>9, SeqEqual
<1> QED
  BY <1>3, <1>10

LEMMA ChainsType ==
  ASSUME NEW T, NEW c \in Seq(T)
  PROVE  Chains(c) \in Seq(T)
<1> DEFINE Piece(i) == IF i > 1 /\ c[i - 1] = Word("-vf") THEN <<c[i]>> ELSE <<>>
           pieces == [i \in DOMAIN c |-> Piece(i)]
<1>1. \A i \in 1..Len(c) : Piece(i) \in Seq(T)
  OBVIOUS
<1>2. DOMAIN c = 1..Len(c) /\ Len(c) \in Nat
  OBVIOUS
<1>3. pieces \in Seq(Seq(T))
  <2> HIDE DEF Piece
  <2> QED
    BY <1>1, <1>2
<1>4. Chains(c) = FlattenSeq(pieces)
  BY DEF Chains
<1> HIDE DEF pieces
<1> QED
  BY <1>3, <1>4, FlattenType

LEMMA ChainsAppend ==
  ASSUME NEW c \in Seq(Passed), NEW a \in Passed
  PROVE  /\ Chains(c) \in Seq(Passed)
         /\ Chains(Append(c, a)) =
              IF AwaitsFilter(c) THEN Append(Chains(c), a) ELSE Chains(c)
<1> DEFINE Piece(d, i) == IF i > 1 /\ d[i - 1] = Word("-vf") THEN <<d[i]>> ELSE <<>>
           Pieces(d) == [i \in DOMAIN d |-> Piece(d, i)]
           e == Append(c, a)
           last == IF AwaitsFilter(c) THEN <<a>> ELSE <<>>
<1>1. /\ e \in Seq(Passed) /\ Len(e) = Len(c) + 1 /\ e[Len(c) + 1] = a
      /\ \A k \in 1..Len(c) : e[k] = c[k]
  BY AppendProperties
<1>2. last \in Seq(Passed)
  OBVIOUS
<1>3. \A d \in Seq(Passed) : Pieces(d) \in Seq(Seq(Passed)) /\ Len(Pieces(d)) = Len(d)
  <2> TAKE d \in Seq(Passed)
  <2>1. \A i \in 1..Len(d) : Piece(d, i) \in Seq(Passed)
    OBVIOUS
  <2>2. DOMAIN d = 1..Len(d) /\ Len(d) \in Nat
    OBVIOUS
  <2> HIDE DEF Piece
  <2> QED
    BY <2>1, <2>2
<1>4. /\ Pieces(c) \in Seq(Seq(Passed)) /\ Len(Pieces(c)) = Len(c)
      /\ Pieces(e) \in Seq(Seq(Passed)) /\ Len(Pieces(e)) = Len(c) + 1
  BY <1>1, <1>3
<1>5. \A i \in 1..Len(c) : Pieces(e)[i] = Pieces(c)[i]
  BY <1>1
<1>6. Pieces(e)[Len(c) + 1] = last
  BY <1>1 DEF AwaitsFilter
<1> HIDE DEF e, last, Pieces
<1>7. Pieces(e) = Append(Pieces(c), last)
  <2> DEFINE r == Append(Pieces(c), last)
  <2>1. /\ r \in Seq(Seq(Passed)) /\ Len(r) = Len(c) + 1 /\ r[Len(c) + 1] = last
        /\ \A k \in 1..Len(c) : r[k] = Pieces(c)[k]
    BY <1>2, <1>4, AppendProperties
  <2> HIDE DEF r
  <2>2. \A k \in 1..Len(c) + 1 : k \in 1..Len(c) \/ k = Len(c) + 1
    OBVIOUS
  <2>3. \A k \in 1..Len(c) + 1 : Pieces(e)[k] = r[k]
    BY <1>5, <1>6, <2>1, <2>2
  <2>4. Pieces(e) = r
    BY <1>4, <2>1, <2>3, SeqEqual
  <2> QED
    BY <2>4 DEF r
<1>8. Chains(c) = FlattenSeq(Pieces(c)) /\ Chains(e) = FlattenSeq(Pieces(e))
  BY DEF Chains, Pieces
<1>9. Chains(c) \in Seq(Passed)
  BY ChainsType
<1>10. Chains(e) = Chains(c) \o last
  BY <1>2, <1>4, <1>7, <1>8, FlattenAppend
<1> QED
  BY <1>9, <1>10 DEF e, last

(* A sequence by its last element, after another one. *)
LEMMA ConcatAppend ==
  ASSUME NEW s \in Seq(Passed), NEW z \in Seq(Passed), NEW a \in Passed
  PROVE  s \o Append(z, a) = Append(s \o z, a)
<1>1. Append(z, a) = z \o <<a>> /\ <<a>> \in Seq(Passed) /\ s \o z \in Seq(Passed)
  BY AppendIsConcat
<1>2. Append(s \o z, a) = (s \o z) \o <<a>>
  BY <1>1, AppendIsConcat
<1>3. s \o (z \o <<a>>) = (s \o z) \o <<a>>
  BY <1>1, ConcatAssociative
<1> QED
  BY <1>1, <1>2, <1>3

(* Arguments that are neither -vf nor its value change no chain. *)
LEMMA PlainArguments ==
  ASSUME NEW c \in Seq(Passed), ~AwaitsFilter(c),
         NEW x \in Seq(Passed), \A k \in 1..Len(x) : x[k] # Word("-vf")
  PROVE  /\ c \o x \in Seq(Passed) /\ ~AwaitsFilter(c \o x)
         /\ Blanked(c \o x) = Blanked(c) \o x
         /\ Chains(c \o x) = Chains(c)
<1> DEFINE Good(y) == /\ c \o y \in Seq(Passed) /\ ~AwaitsFilter(c \o y)
                      /\ Blanked(c \o y) = Blanked(c) \o y
                      /\ Chains(c \o y) = Chains(c)
           Plain(y) == \A k \in 1..Len(y) : y[k] # Word("-vf")
           D == {n \in Nat : \E y \in Seq(Passed) : Len(y) = n /\ Plain(y) /\ ~Good(y)}
<1>1. Blanked(c) \in Seq(Passed)
  <2> <<>> \in Passed
    BY PassedArguments
  <2> QED
    BY BlankedAppend
<1>2. ASSUME D # {} PROVE FALSE
  <2>1. PICK n \in D : \A k \in D : n <= k
    <3> D \in SUBSET Nat
      OBVIOUS
    <3> QED
      BY <1>2, LeastNatural
  <2>2. PICK y \in Seq(Passed) : Len(y) = n /\ Plain(y) /\ ~Good(y)
    BY <2>1
  <2>3. y # <<>>
    <3>1. c \o <<>> = c /\ Blanked(c) \o <<>> = Blanked(c)
      BY <1>1, ConcatEmptySeq
    <3>2. Good(<<>>)
      BY <3>1
    <3> QED
      BY <2>2, <3>2
  <2>4. PICK z \in Seq(Passed), a \in Passed : y = Append(z, a)
    BY <2>3, SequenceEmptyOrAppend
  <2>5. /\ Len(z) \in Nat /\ Len(z) < n /\ Plain(z) /\ a # Word("-vf")
    BY <2>2, <2>4
  <2>6. Good(z)
    <3>1. Len(z) \notin D
      BY <2>1, <2>5
    <3> HIDE DEF Good, Plain
    <3> QED
      BY <2>5, <3>1
  <2>7. c \o y = Append(c \o z, a) /\ Blanked(c) \o y = Append(Blanked(c) \o z, a)
    <3> HIDE DEF Good, Plain, D
    <3>1. c \o Append(z, a) = Append(c \o z, a)
      BY ConcatAppend, Zenon
    <3>2. Blanked(c) \o Append(z, a) = Append(Blanked(c) \o z, a)
      BY <1>1, ConcatAppend, Zenon
    <3> QED
      BY <2>4, <3>1, <3>2, Zenon
  <2>8. c \o z \in Seq(Passed) /\ ~AwaitsFilter(c \o z)
    BY <2>6
  <2>9. c \o y \in Seq(Passed) /\ ~AwaitsFilter(c \o y)
    <3> DEFINE w == c \o z
    <3>1. w \in Seq(Passed)
      BY <2>8
    <3> HIDE DEF w
    <3>2. /\ Append(w, a) \in Seq(Passed) /\ Len(Append(w, a)) = Len(w) + 1
          /\ Append(w, a)[Len(w) + 1] = a
      BY <3>1, AppendProperties
    <3>3. Append(w, a)[Len(Append(w, a))] = a
      BY <3>2
    <3>4. Append(w, a) \in Seq(Passed) /\ ~AwaitsFilter(Append(w, a))
      BY <2>5, <3>2, <3>3 DEF AwaitsFilter
    <3> QED
      BY <2>7, <3>4 DEF w
  <2>10. Blanked(c \o y) = Blanked(c) \o y
    BY <2>6, <2>7, <2>8, BlankedAppend
  <2>11. Chains(c \o y) = Chains(c)
    BY <2>6, <2>7, <2>8, ChainsAppend
  <2> QED
    BY <2>2, <2>9, <2>10, <2>11
<1>3. Len(x) \in Nat /\ Len(x) \notin D
  BY <1>2
<1>4. Good(x)
  <2> HIDE DEF Good
  <2> QED
    BY <1>3
<1> QED
  BY <1>4

-----------------------------------------------------------------------------
(* The loops. *)

LEMMA AtStart ==
  ASSUME argv \in Seq(Argument), rest = argv, prev = <<>>
  PROVE  At(0) /\ Position = 0
<1>1. Len(argv) \in Nat /\ SubSeq(argv, 1, Len(argv)) = argv
  BY SubSeqFull
<1> QED
  BY <1>1 DEF At, Position

LEMMA AtEnd ==
  ASSUME argv \in Seq(Argument), rest = <<>>
  PROVE  Position = Len(argv)
BY DEF Position

(* One turn of a loop. *)
LEMMA Turn ==
  ASSUME argv \in Seq(Argument), rest \in Seq(Argument), rest # <<>>, At(Position),
         rest' = Tail(rest), prev' = Head(rest), argv' = argv
  PROVE  /\ Position \in 0..Len(argv) - 1 /\ Head(rest) = argv[Position + 1]
         /\ Head(rest) \in Argument /\ rest' \in Seq(Argument)
         /\ Position' = Position + 1 /\ At(Position)'
<1>1. /\ Len(argv) \in Nat /\ Len(rest) \in Nat /\ Len(rest) > 0
      /\ Position = Len(argv) - Len(rest)
  BY DEF Position
<1>2. Position \in 0..Len(argv) /\ rest = SubSeq(argv, Position + 1, Len(argv))
  BY DEF At
<1>3. Position \in 0..Len(argv) - 1
  BY <1>1, <1>2
<1>4. Head(rest) = argv[Position + 1] /\ Head(rest) \in Argument
  BY <1>2, <1>3
<1>5. /\ Tail(rest) = SubSeq(argv, (Position + 1) + 1, Len(argv))
      /\ Tail(rest) \in Seq(Argument)
  BY <1>2, <1>3
<1>6. Len(Tail(rest)) = Len(rest) - 1
  OBVIOUS
<1>7. Position' = Position + 1
  BY <1>1, <1>6 DEF Position
<1>8. At(Position)'
  <2>1. Position' \in 0..Len(argv') /\ Position' # 0
    BY <1>1, <1>3, <1>7
  <2>2. rest' = SubSeq(argv', Position' + 1, Len(argv')) /\ prev' = argv'[Position']
    BY <1>4, <1>5, <1>7
  <2> QED
    BY <2>1, <2>2 DEF At
<1> QED
  BY <1>3, <1>4, <1>5, <1>7, <1>8

(* What follows an option, one argument further. *)
LEMMA ValuesTurn ==
  ASSUME argv \in Seq(Argument), NEW n \in 0..Len(argv) - 1, At(n), NEW o
  PROVE  ValuesBefore(n + 1, o) =
           ValuesBefore(n, o) \cup (IF prev = Word(o) THEN {argv[n + 1]} ELSE {})
<1> DEFINE Places(m) == {j \in 2..m : argv[j - 1] = Word(o)}
<1>1. n \in Nat /\ (prev = Word(o) <=> n # 0 /\ argv[n] = Word(o))
  BY WordIs DEF At
<1>2. Places(n + 1) = Places(n) \cup (IF prev = Word(o) THEN {n + 1} ELSE {})
  <2>1. \A j : j \in 2..n + 1 <=> (j \in 2..n \/ (j = n + 1 /\ n # 0))
    BY <1>1
  <2> QED
    BY <1>1, <2>1
<1> HIDE DEF Places
<1>3. \A m : ValuesBefore(m, o) = {argv[i] : i \in Places(m)}
  BY DEF ValuesBefore, Places
<1> QED
  BY <1>2, <1>3

LEMMA SeenAtStart ==
  ASSUME hw = FALSE, rawvideo = FALSE, explicit = FALSE, vf_ok = 0, vf_bad = 0
  PROVE  SeenBefore(0)
<1>1. \A o : ValuesBefore(0, o) = {}
  BY DEF ValuesBefore
<1> QED
  BY <1>1 DEF SeenBefore

(* Pass 1 keeps what it knows. *)
LEMMA SeenTurn ==
  ASSUME WrapperInv, Classify
  PROVE  SeenBefore(Position)'
<1> DEFINE n == Position
           a == argv[n + 1]
           V(o) == ValuesBefore(n, o)
           W(o) == ValuesBefore(n, o) \cup (IF prev = Word(o) THEN {a} ELSE {})
<1>1. /\ argv \in Seq(Argument) /\ rest \in Seq(Argument) /\ rest # <<>>
      /\ At(n) /\ SeenBefore(n)
      /\ rest' = Tail(rest) /\ prev' = Head(rest) /\ argv' = argv
  BY DEF WrapperInv, Classify
<1>2. n \in 0..Len(argv) - 1 /\ Head(rest) = a /\ n' = n + 1
  BY <1>1, Turn
<1>3. \A o : ValuesBefore(n, o)' = W(o)
  <2> TAKE o
  <2>1. ValuesBefore(n, o)' = ValuesBefore(n + 1, o)
    BY <1>1, <1>2 DEF ValuesBefore
  <2> QED
    BY <1>1, <1>2, <2>1, ValuesTurn
<1>4. /\ hw' = (hw \/ (prev = Word("-hwaccel") /\ a = Word("v4l2request")))
      /\ rawvideo' = (rawvideo \/ (prev = Word("-f") /\ a = Word("rawvideo")))
      /\ explicit' = (explicit \/ a \in ExplicitOptions)
      /\ vf_ok' = vf_ok + (IF prev = Word("-vf") /\ Scaler(a) THEN 1 ELSE 0)
      /\ vf_bad' = vf_bad + (IF prev = Word("-vf") /\ ~Scaler(a) THEN 1 ELSE 0)
  BY <1>2 DEF Classify
<1>5. /\ hw <=> (Word("v4l2request") \in V("-hwaccel"))
      /\ rawvideo <=> (Word("rawvideo") \in V("-f"))
      /\ explicit <=> (\E i \in 1..n : argv[i] \in ExplicitOptions)
      /\ vf_ok \in Nat /\ vf_bad \in Nat
      /\ (vf_ok >= 1) <=> (\E b \in V("-vf") : Scaler(b))
      /\ (vf_bad = 0) <=> (\A b \in V("-vf") : Scaler(b))
  BY <1>1 DEF SeenBefore
<1> HIDE DEF n, a, V
<1>6. hw' <=> (Word("v4l2request") \in W("-hwaccel"))
  BY <1>4, <1>5 DEF V
<1>7. rawvideo' <=> (Word("rawvideo") \in W("-f"))
  BY <1>4, <1>5 DEF V
<1>8. explicit' <=> (\E i \in 1..n + 1 : argv[i] \in ExplicitOptions)
  <2>1. \A i : i \in 1..n + 1 <=> (i \in 1..n \/ i = n + 1)
    BY <1>2
  <2> QED
    BY <1>4, <1>5, <2>1 DEF a
<1>9. /\ vf_ok' \in Nat /\ vf_bad' \in Nat
      /\ (vf_ok' >= 1) <=> (\E b \in W("-vf") : Scaler(b))
      /\ (vf_bad' = 0) <=> (\A b \in W("-vf") : Scaler(b))
  <2>1. CASE prev = Word("-vf") /\ Scaler(a)
    <3>1. vf_ok' = vf_ok + 1 /\ vf_bad' = vf_bad /\ W("-vf") = V("-vf") \cup {a}
      BY <1>4, <1>5, <2>1 DEF V
    <3> HIDE DEF W
    <3> QED
      BY <1>5, <2>1, <3>1
  <2>2. CASE prev = Word("-vf") /\ ~Scaler(a)
    <3>1. vf_ok' = vf_ok /\ vf_bad' = vf_bad + 1 /\ W("-vf") = V("-vf") \cup {a}
      BY <1>4, <1>5, <2>2 DEF V
    <3> HIDE DEF W
    <3> QED
      BY <1>5, <2>2, <3>1
  <2>3. CASE prev # Word("-vf")
    <3>1. vf_ok' = vf_ok /\ vf_bad' = vf_bad /\ W("-vf") = V("-vf")
      BY <1>4, <1>5, <2>3 DEF V
    <3> HIDE DEF W
    <3> QED
      BY <1>5, <3>1
  <2> QED
    BY <2>1, <2>2, <2>3
<1>10. (\E i \in 1..n + 1 : argv[i] \in ExplicitOptions)
       <=> (\E i \in 1..n' : argv'[i] \in ExplicitOptions)
  BY <1>1, <1>2
<1> HIDE DEF W
<1>11. /\ ValuesBefore(Position, "-hwaccel")' = W("-hwaccel")
       /\ ValuesBefore(Position, "-f")' = W("-f")
       /\ ValuesBefore(Position, "-vf")' = W("-vf")
  BY <1>3 DEF n
<1> QED
  BY <1>6, <1>7, <1>8, <1>9, <1>10, <1>11 DEF SeenBefore, n

LEMMA WrittenAtStart ==
  ASSUME argv \in Seq(Argument), out = <<>>
  PROVE  WrittenBefore(0)
<1>1. SubSeq(argv, 1, 0) = <<>>
  OBVIOUS
<1>2. Chains(<<>>) = <<>> /\ Blanked(<<>>) = <<>>
  BY FlattenEmpty DEF Chains, Blanked
<1>3. FlattenSeq([i \in 1..0 |-> Rebuilt(i)]) = <<>>
  <2>1. [i \in 1..0 |-> Rebuilt(i)] = <<>>
    OBVIOUS
  <2> QED
    BY <2>1, FlattenEmpty
<1>4. out \in Seq(Passed)
  OBVIOUS
<1>5. AllScaled(<<>>, <<>>)
  BY DEF AllScaled
<1>6. Blanked(out) = FlattenSeq([i \in 1..0 |-> Rebuilt(i)])
  BY <1>2, <1>3
<1>7. AllScaled(Chains(SubSeq(argv, 1, 0)), Chains(out))
  BY <1>1, <1>2, <1>5
<1> QED
  BY <1>4, <1>6, <1>7 DEF WrittenBefore

(* What the arguments before the next one become, and that one. *)
LEMMA RebuiltTurn ==
  ASSUME argv \in Seq(Argument), NEW n \in 0..Len(argv) - 1
  PROVE  /\ FlattenSeq([i \in 1..n |-> Rebuilt(i)]) \in Seq(Passed)
         /\ Rebuilt(n + 1) \in Seq(Passed)
         /\ FlattenSeq([i \in 1..n + 1 |-> Rebuilt(i)])
              = FlattenSeq([i \in 1..n |-> Rebuilt(i)]) \o Rebuilt(n + 1)
<1> DEFINE R(m) == [i \in 1..m |-> Rebuilt(i)]
<1>1. \A i \in 1..Len(argv) : Rebuilt(i) \in Seq(Passed)
  <2> TAKE i \in 1..Len(argv)
  <2>1. argv[i] \in Passed
    BY PassedArguments
  <2>2. <<argv[i]>> \in Seq(Passed) /\ <<<<>>>> \in Seq(Passed)
    BY <2>1, PassedArguments
  <2>3. <<argv[i]>> \o Inserted \in Seq(Passed)
    BY <2>2, InsertedWords
  <2> QED
    BY <2>2, <2>3 DEF Rebuilt
<1>2. n \in Nat /\ n + 1 \in 1..Len(argv) /\ \A i \in 1..n : i \in 1..Len(argv)
  OBVIOUS
<1>3. R(n) \in Seq(Seq(Passed)) /\ Len(R(n)) = n
  BY <1>1, <1>2
<1>4. R(n + 1) \in Seq(Seq(Passed)) /\ Len(R(n + 1)) = n + 1
  BY <1>1, <1>2
<1>5. R(n + 1) = Append(R(n), Rebuilt(n + 1))
  <2> DEFINE r == Append(R(n), Rebuilt(n + 1))
  <2>1. Rebuilt(n + 1) \in Seq(Passed)
    BY <1>1, <1>2
  <2>2. /\ r \in Seq(Seq(Passed)) /\ Len(r) = n + 1 /\ r[n + 1] = Rebuilt(n + 1)
        /\ \A i \in 1..n : r[i] = R(n)[i]
    <3> HIDE DEF R
    <3> QED
      BY <1>3, <2>1, AppendProperties
  <2>3. \A i \in 1..n + 1 : i \in 1..n \/ i = n + 1
    BY <1>2
  <2>4. \A i \in 1..n : R(n)[i] = Rebuilt(i)
    OBVIOUS
  <2>5. \A i \in 1..n + 1 : R(n + 1)[i] = Rebuilt(i)
    OBVIOUS
  <2> HIDE DEF R, r
  <2>6. \A i \in 1..n + 1 : R(n + 1)[i] = r[i]
    BY <2>2, <2>3, <2>4, <2>5
  <2>7. R(n + 1) = r
    BY <1>4, <2>2, <2>6, SeqEqual
  <2> QED
    BY <2>7 DEF r
<1> HIDE DEF R
<1>6. FlattenSeq(R(n)) \in Seq(Passed)
  BY <1>3, FlattenType
<1>7. FlattenSeq(R(n + 1)) = FlattenSeq(R(n)) \o Rebuilt(n + 1)
  BY <1>1, <1>2, <1>3, <1>5, FlattenAppend
<1> QED
  BY <1>1, <1>2, <1>6, <1>7 DEF R

(* The filter chains before the next argument, and that one. *)
LEMMA ChainsTurn ==
  ASSUME argv \in Seq(Argument), NEW n \in 0..Len(argv) - 1, At(n)
  PROVE  /\ Chains(SubSeq(argv, 1, n)) \in Seq(Passed)
         /\ Chains(SubSeq(argv, 1, n + 1)) =
              IF prev = Word("-vf") THEN Append(Chains(SubSeq(argv, 1, n)), argv[n + 1])
                                    ELSE Chains(SubSeq(argv, 1, n))
<1> DEFINE c == SubSeq(argv, 1, n)
<1>1. argv[n + 1] \in Passed
  BY PassedArguments
<1>2. c \in Seq(Argument) /\ SubSeq(argv, 1, n + 1) = Append(c, argv[n + 1])
  OBVIOUS
<1>3. c \in Seq(Passed)
  BY <1>2, PassedArguments, SeqMonotonic
<1>4. AwaitsFilter(c) <=> prev = Word("-vf")
  <2>1. Len(c) = n /\ (n # 0 => c # <<>> /\ c[n] = argv[n]) /\ (n = 0 => c = <<>>)
    OBVIOUS
  <2> HIDE DEF c
  <2> QED
    BY <2>1, WordIs DEF AwaitsFilter, At
<1> HIDE DEF c
<1>5. /\ Chains(c) \in Seq(Passed)
      /\ Chains(Append(c, argv[n + 1])) =
           IF AwaitsFilter(c) THEN Append(Chains(c), argv[n + 1]) ELSE Chains(c)
  BY <1>1, <1>3, ChainsAppend
<1> QED
  BY <1>2, <1>4, <1>5 DEF c

LEMMA AllScaledAppend ==
  ASSUME NEW chains \in Seq(Passed), NEW scaled, AllScaled(chains, scaled),
         NEW a \in Argument, Scaler(a)
  PROVE  AllScaled(Append(chains, a), Append(scaled, Scaled(a)))
<1> DEFINE more == Append(chains, a)
           target == [k \in 1..Len(chains) + 1 |-> Scaled(more[k])]
<1>1. a \in Passed /\ Scaled(a) \in Passed
  BY PassedArguments, ScaledIsPassed
<1>2. /\ more \in Seq(Passed) /\ Len(more) = Len(chains) + 1 /\ more[Len(chains) + 1] = a
      /\ \A k \in 1..Len(chains) : more[k] = chains[k]
  BY <1>1, AppendProperties
<1>3. \A k \in 1..Len(chains) + 1 : k \in 1..Len(chains) \/ k = Len(chains) + 1
  OBVIOUS
<1>4. DOMAIN chains = 1..Len(chains) /\ DOMAIN more = 1..Len(chains) + 1
  BY <1>2
<1> HIDE DEF more
<1>5. \A k \in DOMAIN more : Scaler(more[k])
  BY <1>2, <1>3, <1>4 DEF AllScaled
<1>6. /\ scaled = [k \in 1..Len(chains) |-> Scaled(chains[k])]
      /\ scaled = [k \in 1..Len(chains) |-> scaled[k]]
      /\ \A k \in 1..Len(chains) : scaled[k] = Scaled(chains[k])
  BY <1>4 DEF AllScaled
<1>7. Append(scaled, Scaled(a)) = target
  <2> DEFINE S == {Scaled(chains[k]) : k \in 1..Len(chains)} \cup {Scaled(a)}
             r == Append(scaled, Scaled(a))
  <2>1. scaled \in Seq(S) /\ Len(scaled) = Len(chains)
    BY <1>6
  <2>2. /\ r \in Seq(S) /\ Len(r) = Len(chains) + 1 /\ r[Len(chains) + 1] = Scaled(a)
        /\ \A k \in 1..Len(chains) : r[k] = scaled[k]
    <3> Scaled(a) \in S
      OBVIOUS
    <3> HIDE DEF S
    <3> QED
      BY <2>1, AppendProperties
  <2>3. \A k \in 1..Len(chains) + 1 : target[k] = Scaled(more[k])
    OBVIOUS
  <2> HIDE DEF r
  <2>4. \A k \in 1..Len(chains) + 1 : r[k] = target[k]
    BY <1>2, <1>3, <1>6, <2>2, <2>3
  <2>5. r = [k \in 1..Len(chains) + 1 |-> r[k]]
    BY <2>2
  <2> HIDE DEF target
  <2>6. target = [k \in 1..Len(chains) + 1 |-> target[k]]
    BY DEF target
  <2>7. r = target
    BY <2>4, <2>5, <2>6
  <2> QED
    BY <2>7 DEF r
<1> QED
  BY <1>4, <1>5, <1>7 DEF AllScaled, more

(* Pass 2 keeps what it has written. *)
LEMMA WrittenTurn ==
  ASSUME WrapperInv, Rebuild
  PROVE  WrittenBefore(Position)'
<1> DEFINE n == Position
           a == argv[n + 1]
           before == Chains(SubSeq(argv, 1, n))
           after == Chains(SubSeq(argv, 1, n + 1))
           Written(m) == FlattenSeq([i \in 1..m |-> Rebuilt(i)])
<1>1. /\ argv \in Seq(Argument) /\ rest \in Seq(Argument) /\ rest # <<>>
      /\ At(n) /\ WrittenBefore(n) /\ SeenBefore(Len(argv)) /\ Rewrites
      /\ rest' = Tail(rest) /\ prev' = Head(rest) /\ argv' = argv
  BY DEF WrapperInv, Rebuild
<1>2. /\ n \in 0..Len(argv) - 1 /\ Head(rest) = a /\ a \in Argument /\ n' = n + 1
  BY <1>1, Turn
<1>3. n \in Nat /\ Len(argv) \in Nat /\ n + 1 \in 1..Len(argv)
  BY <1>1, <1>2
<1>4. out' =
        out \o (CASE prev = Word("-hwaccel") /\ a = Word("v4l2request") -> <<a>> \o Inserted
                 [] prev = Word("-vf") -> <<Scaled(a)>>
                 [] OTHER -> <<a>>)
  BY <1>2 DEF Rebuild
<1>5. /\ out \in Seq(Passed)
      /\ Blanked(out) = Written(n)
      /\ AllScaled(before, Chains(out))
  BY <1>1 DEF WrittenBefore
<1>6. \A o : prev = Word(o) <=> (n + 1 > 1 /\ argv[(n + 1) - 1] = Word(o))
  <2>1. \A o : Word(o) # <<>>
    BY WordIs
  <2> QED
    BY <1>1, <1>3, <2>1 DEF At
<1>7. AwaitsFilter(out) <=> prev = Word("-vf")
  BY <1>1, <1>3, <1>6 DEF WrittenBefore, AwaitsFilter
<1>8. Written(n) \in Seq(Passed) /\ Written(n + 1) = Written(n) \o Rebuilt(n + 1)
  BY <1>1, <1>2, RebuiltTurn
<1>9. /\ before \in Seq(Passed)
      /\ after = IF prev = Word("-vf") THEN Append(before, a) ELSE before
  BY <1>1, <1>2, ChainsTurn
<1>10. Word("-hwaccel") # Word("-vf") /\ Word("v4l2request") # Word("-vf")
  <2>1. /\ Word("-hwaccel")[1].name = "-hwaccel" /\ Word("-vf")[1].name = "-vf"
        /\ Word("v4l2request")[1].name = "v4l2request"
    BY WordIs
  <2> QED
    BY <2>1
<1>11. a \in Passed
  BY <1>2, PassedArguments
<1> HIDE DEF n, a, before, after, Written
<1> DEFINE Goal == /\ out' \in Seq(Passed) /\ out' # <<>>
                   /\ out'[Len(out')] = Word("-vf") <=> a = Word("-vf")
                   /\ Blanked(out') = Written(n + 1)
                   /\ AllScaled(after, Chains(out'))
<1>12. ASSUME prev = Word("-hwaccel"), a = Word("v4l2request") PROVE Goal
  <2> DEFINE x == <<a>> \o Inserted
  <2>1. /\ x \in Seq(Passed) /\ x # <<>> /\ Len(x) = 7
        /\ \A k \in 1..Len(x) : x[k] # Word("-vf")
    <3>1. /\ x \in Seq(Passed) /\ Len(x) = 7 /\ x[1] = a
          /\ \A k \in 2..7 : k - 1 \in 1..6 /\ x[k] = Inserted[k - 1]
      BY <1>11, InsertedAfter
    <3>2. \A k \in 1..7 : k = 1 \/ k \in 2..7
      OBVIOUS
    <3> HIDE DEF x
    <3> QED
      BY <1>10, <1>12, <3>1, <3>2, InsertedWords
  <2>2. out' = out \o x
    BY <1>4, <1>10, <1>12
  <2>3. Rebuilt(n + 1) = x
    BY <1>6, <1>10, <1>12 DEF Rebuilt, a
  <2>4. ~AwaitsFilter(out) /\ after = before
    BY <1>7, <1>9, <1>10, <1>12
  <2> HIDE DEF x
  <2>5. /\ out' \in Seq(Passed) /\ ~AwaitsFilter(out')
        /\ Blanked(out') = Blanked(out) \o x
        /\ Chains(out') = Chains(out)
    BY <1>5, <2>1, <2>2, <2>4, PlainArguments
  <2>6. out' # <<>>
    BY <1>5, <2>1, <2>2
  <2> QED
    BY <1>5, <1>8, <1>10, <1>12, <2>3, <2>4, <2>5, <2>6 DEF AwaitsFilter
<1>13. ASSUME prev = Word("-vf") PROVE Goal
  <2>1. Scaler(a)
    <3>1. a \in ValuesBefore(Len(argv), "-vf")
      <4>1. n + 1 \in {j \in 2..Len(argv) : argv[j - 1] = Word("-vf")}
        BY <1>3, <1>6, <1>13
      <4> QED
        BY <4>1 DEF ValuesBefore, a
    <3> QED
      BY <1>1, <3>1 DEF SeenBefore, Rewrites
  <2>2. Scaled(a) \in Passed /\ Scaled(a) # Word("-vf") /\ a # Word("-vf")
    BY <1>2, <2>1, ScaledIsPassed
  <2>3. out' = Append(out, Scaled(a))
    <3>1. out' = out \o <<Scaled(a)>>
      BY <1>4, <1>10, <1>13
    <3> QED
      BY <1>5, <2>2, <3>1
  <2>4. Rebuilt(n + 1) = <<<<>>>>
    BY <1>6, <1>10, <1>13 DEF Rebuilt
  <2>5. /\ Blanked(out') = Append(Blanked(out), <<>>)
        /\ Chains(out') = Append(Chains(out), Scaled(a))
    BY <1>5, <1>7, <1>13, <2>2, <2>3, BlankedAppend, ChainsAppend
  <2>6. Blanked(out') = Written(n + 1)
    <3>1. Append(Written(n), <<>>) = Written(n) \o <<<<>>>>
      BY <1>8, PassedArguments, AppendIsConcat
    <3> QED
      BY <1>5, <1>8, <2>4, <2>5, <3>1
  <2>7. AllScaled(after, Chains(out'))
    BY <1>2, <1>5, <1>9, <1>13, <2>1, <2>5, AllScaledAppend
  <2>8. out' \in Seq(Passed) /\ out' # <<>> /\ out'[Len(out')] = Scaled(a)
    <3>1. Len(out) \in Nat
      BY <1>5
    <3> QED
      BY <1>5, <2>2, <2>3, <3>1, AppendProperties
  <2> QED
    BY <2>2, <2>6, <2>7, <2>8
<1>14. ASSUME prev # Word("-vf"), ~(prev = Word("-hwaccel") /\ a = Word("v4l2request"))
       PROVE  Goal
  <2>1. out' = Append(out, a)
    <3>1. out' = out \o <<a>>
      BY <1>4, <1>14
    <3> QED
      BY <1>5, <1>11, <3>1
  <2>2. Rebuilt(n + 1) = <<a>>
    BY <1>6, <1>14 DEF Rebuilt, a
  <2>3. Blanked(out') = Append(Blanked(out), a) /\ Chains(out') = Chains(out)
    BY <1>5, <1>7, <1>11, <1>14, <2>1, BlankedAppend, ChainsAppend
  <2>4. Blanked(out') = Written(n + 1)
    <3>1. Append(Written(n), a) = Written(n) \o <<a>>
      BY <1>8, <1>11, AppendIsConcat
    <3> QED
      BY <1>5, <1>8, <2>2, <2>3, <3>1
  <2>5. AllScaled(after, Chains(out'))
    BY <1>5, <1>9, <1>14, <2>3
  <2>6. out' \in Seq(Passed) /\ out' # <<>> /\ out'[Len(out')] = a
    <3>1. Len(out) \in Nat
      BY <1>5
    <3> QED
      BY <1>5, <1>11, <2>1, <3>1, AppendProperties
  <2> QED
    BY <2>4, <2>5, <2>6
<1>15. Goal
  <2> HIDE DEF Goal
  <2> QED
    BY <1>12, <1>13, <1>14
<1>16. /\ Written(n + 1) = FlattenSeq([i \in 1..n' |-> Rebuilt(i)'])
       /\ after = Chains(SubSeq(argv', 1, n'))
       /\ a = argv'[n'] /\ n' # 0
  BY <1>1, <1>2, <1>3 DEF Written, after, a, Rebuilt
<1> QED
  BY <1>15, <1>16 DEF WrittenBefore, n

LEMMA WrapperInvInit == WrapperInit => WrapperInv
<1> SUFFICES ASSUME WrapperInit PROVE WrapperInv
  OBVIOUS
<1>1. argv \in Seq(Argument) /\ rest = argv /\ prev = <<>>
  BY WrapperAssumption DEF WrapperInit
<1>2. At(0) /\ Position = 0
  BY <1>1, AtStart
<1>3. SeenBefore(0)
  BY SeenAtStart DEF WrapperInit
<1> QED
  BY <1>1, <1>2, <1>3 DEF WrapperInit, WrapperInv

LEMMA WrapperInvNext == WrapperInv /\ [WrapperNext]_wrapperVars => WrapperInv'
<1> SUFFICES ASSUME WrapperInv, [WrapperNext]_wrapperVars PROVE WrapperInv'
  OBVIOUS
<1> USE DEF WrapperInv
<1>1. CASE Classify
  <2>1. SeenBefore(Position)'
    BY <1>1, SeenTurn
  <2>2. At(Position)' /\ rest' \in Seq(Argument)
    BY <1>1, Turn DEF Classify
  <2>3. hw' \in BOOLEAN /\ rawvideo' \in BOOLEAN /\ explicit' \in BOOLEAN
    BY <1>1 DEF Classify
  <2> QED
    BY <1>1, <2>1, <2>2, <2>3 DEF Classify
<1>2. CASE Decide
  <2>1. SeenBefore(Len(argv))
    BY <1>2, AtEnd DEF Decide
  <2>2. SeenBefore(Len(argv))' /\ Rewrites' = Rewrites
    BY <1>2, <2>1 DEF Decide, SeenBefore, ValuesBefore, Rewrites, seen
  <2>3. CASE Rewrites
    <3>1. /\ argv' \in Seq(Argument) /\ rest' = argv' /\ prev' = <<>> /\ out' = out
          /\ pc' = "rebuild" /\ enabled' = enabled
          /\ hw' = hw /\ rawvideo' = rawvideo /\ explicit' = explicit
      BY <1>2, <2>3 DEF Decide, seen
    <3>2. Position' = 0 /\ At(Position)'
      <4>1. Len(argv') \in Nat /\ SubSeq(argv', 1, Len(argv')) = argv'
        BY <3>1, SubSeqFull
      <4>2. Position' = 0
        BY <3>1, <4>1 DEF Position
      <4>3. rest' = SubSeq(argv', Position' + 1, Len(argv'))
        BY <3>1, <4>1, <4>2
      <4> QED
        BY <3>1, <4>1, <4>2, <4>3 DEF At
    <3>3. WrittenBefore(Position)'
      <4>1. WrittenBefore(0) /\ argv' = argv
        BY <1>2, WrittenAtStart DEF Decide
      <4> QED
        BY <3>1, <3>2, <4>1 DEF WrittenBefore, Rebuilt
    <3> QED
      BY <2>2, <2>3, <3>1, <3>2, <3>3
  <2>4. CASE ~Rewrites
    <3>1. /\ argv' = argv /\ rest' = rest /\ out' = argv
          /\ pc' = "exec" /\ enabled' = enabled
          /\ hw' = hw /\ rawvideo' = rawvideo /\ explicit' = explicit
      BY <1>2, <2>4 DEF Decide, seen
    <3> QED
      BY <2>2, <2>4, <3>1
  <2> QED
    BY <2>3, <2>4
<1>3. CASE Rebuild
  <2>1. WrittenBefore(Position)'
    BY <1>3, WrittenTurn
  <2>2. At(Position)' /\ rest' \in Seq(Argument)
    BY <1>3, Turn DEF Rebuild
  <2>3. SeenBefore(Len(argv))' /\ Rewrites'
    BY <1>3 DEF Rebuild, SeenBefore, ValuesBefore, Rewrites, seen
  <2> QED
    BY <1>3, <2>1, <2>2, <2>3 DEF Rebuild, seen
<1>4. CASE Exec
  <2>1. WrittenBefore(Len(argv)) /\ Rewrites /\ SeenBefore(Len(argv))
    BY <1>4, AtEnd DEF Exec
  <2>2. WrittenBefore(Len(argv))'
    BY <1>4, <2>1 DEF Exec, WrittenBefore, Rebuilt
  <2>3. SeenBefore(Len(argv))' /\ Rewrites'
    BY <1>4, <2>1 DEF Exec, SeenBefore, ValuesBefore, Rewrites, seen
  <2> QED
    BY <1>4, <2>2, <2>3 DEF Exec, seen
<1>5. CASE UNCHANGED wrapperVars
  <2>1. UNCHANGED <<argv, enabled, pc, rest, prev,
                    hw, rawvideo, explicit, vf_ok, vf_bad, out>>
    BY <1>5 DEF wrapperVars
  <2>2. Rewrites' = Rewrites
    BY <2>1 DEF Rewrites
  <2>3. At(Position)' <=> At(Position)
    BY <2>1 DEF At, Position
  <2>4. /\ SeenBefore(Position)' <=> SeenBefore(Position)
        /\ SeenBefore(Len(argv))' <=> SeenBefore(Len(argv))
    BY <2>1 DEF SeenBefore, ValuesBefore, Position
  <2>5. /\ WrittenBefore(Position)' <=> WrittenBefore(Position)
        /\ WrittenBefore(Len(argv))' <=> WrittenBefore(Len(argv))
    BY <2>1 DEF WrittenBefore, Rebuilt, Position
  <2> QED
    BY <2>1, <2>2, <2>3, <2>4, <2>5
<1> QED
  BY <1>1, <1>2, <1>3, <1>4, <1>5 DEF WrapperNext

-----------------------------------------------------------------------------
(* What the real ffmpeg gets. *)

LEMMA InvImpliesOthersPassThrough == WrapperInv => OthersPassThrough
<1> SUFFICES ASSUME WrapperInv, pc = "exec", ~IsDetect PROVE out = argv
  BY DEF OthersPassThrough
<1>1. ASSUME Rewrites PROVE IsDetect
  <2>1. SeenBefore(Len(argv)) /\ argv \in Seq(Argument)
    BY DEF WrapperInv
  <2>2. \A o : ValuesOf(o) = ValuesBefore(Len(argv), o)
    BY DEF ValuesOf, ValuesBefore
  <2>3. /\ enabled
        /\ Word("v4l2request") \in ValuesOf("-hwaccel")
        /\ Word("rawvideo") \in ValuesOf("-f")
        /\ ValuesOf("-vf") # {}
        /\ \A a \in ValuesOf("-vf") : Scaler(a)
        /\ \A i \in 1..Len(argv) : argv[i] \notin ExplicitOptions
    BY <1>1, <2>1, <2>2 DEF Rewrites, SeenBefore
  <2>4. ValuesOf("-vf") \subseteq Argument
    BY <2>1 DEF ValuesOf
  <2>5. \A a \in ValuesOf("-vf") : /\ a[1].name = "fps" /\ Last(a).name = "scale"
                                   /\ Range(Last(a).value) \subseteq Numbers
    BY <2>3, <2>4, ScalerParts
  <2>6. ToSet(argv) \cap ExplicitOptions = {}
    BY <2>1, <2>3 DEF ToSet
  <2> QED
    BY <2>3, <2>5, <2>6 DEF IsDetect
<1> QED
  BY <1>1 DEF WrapperInv

LEMMA InvImpliesOnlyDetectIsTouched == WrapperInv => OnlyDetectIsTouched
<1> SUFFICES ASSUME WrapperInv, pc = "exec", Rewrites
             PROVE  Blanked(out) = FlattenSeq([i \in DOMAIN argv |-> Rebuilt(i)])
  BY DEF OnlyDetectIsTouched
<1>1. WrittenBefore(Len(argv)) /\ DOMAIN argv = 1..Len(argv)
  BY DEF WrapperInv
<1> QED
  BY <1>1 DEF WrittenBefore

(* The last part with one of the names, when no later part has one.        *)
LEMMA LastOfIs ==
  ASSUME NEW chain, NEW names, NEW n \in DOMAIN chain, DOMAIN chain \subseteq Nat,
         chain[n].name \in names,
         \A k \in DOMAIN chain : chain[k].name \in names => k <= n
  PROVE  LastOf(chain, names) = chain[n].value
<1> DEFINE ks == {k \in DOMAIN chain : chain[k].name \in names}
           last == CHOOSE k \in ks : \A j \in ks : j <= k
<1>1. n \in ks /\ \A j \in ks : j \in Nat /\ j <= n
  OBVIOUS
<1>2. LastOf(chain, names) = chain[last].value
  BY DEF LastOf
<1> HIDE DEF ks
<1>3. last \in ks /\ \A j \in ks : j <= last
  BY <1>1
<1> HIDE DEF last
<1>4. last = n
  BY <1>1, <1>3
<1> QED
  BY <1>2, <1>4

LEMMA ScaledKeepsSize ==
  ASSUME NEW a \in Argument, Scaler(a)
  PROVE  /\ Len(SizeOf(a)) = 2 => SizeOf(Scaled(a)) = SizeOf(a)
         /\ (\A j \in 2..Len(a) : a[j].name # "fps") => RateOf(Scaled(a)) = RateOf(a)
<1> DEFINE s == ScaleVulkan(Width(a), Height(a))
           b == Scaled(a)
           sizes == {"scale", "scale_vulkan"}
<1>1. /\ DOMAIN a = 1..Len(a) /\ Len(a) \in Nat /\ Len(a) >= 2
      /\ a[1].name = "fps" /\ a[Len(a)].name = "scale"
      /\ Len(a[Len(a)].value) = 2 => a[Len(a)].value = <<Width(a), Height(a)>>
  BY ScalerParts DEF Argument
<1>2. SizeOf(a) = a[Len(a)].value
  <2>1. Len(a) \in DOMAIN a /\ DOMAIN a \subseteq Nat /\ \A k \in DOMAIN a : k <= Len(a)
    BY <1>1
  <2>2. a[Len(a)].name \in sizes
    BY <1>1
  <2> QED
    BY <2>1, <2>2, LastOfIs DEF SizeOf
<1>3. (\A j \in 2..Len(a) : a[j].name # "fps") => RateOf(a) = a[1].value
  <2> SUFFICES ASSUME \A j \in 2..Len(a) : a[j].name # "fps" PROVE RateOf(a) = a[1].value
    OBVIOUS
  <2>1. 1 \in DOMAIN a /\ DOMAIN a \subseteq Nat
    BY <1>1
  <2>2. \A k \in DOMAIN a : a[k].name \in {"fps"} => k <= 1
    BY <1>1
  <2>3. a[1].name \in {"fps"}
    BY <1>1
  <2> QED
    BY <2>1, <2>2, <2>3, LastOfIs DEF RateOf
<1>4. s.name = "scale_vulkan" /\ s.value = <<Width(a), Height(a)>>
  BY DEF ScaleVulkan, Part
<1> HIDE DEF s
<1>5. b = <<a[1], s>>
  BY DEF Scaled, s
<1> HIDE DEF b
<1>6. DOMAIN b = {1, 2} /\ b[1] = a[1] /\ b[2] = s
  BY <1>5
<1>7. SizeOf(b) = s.value
  <2>1. /\ 2 \in DOMAIN b /\ DOMAIN b \subseteq Nat /\ b[2].name \in sizes
        /\ \A k \in DOMAIN b : k <= 2
    BY <1>4, <1>6
  <2> QED
    BY <1>6, <2>1, LastOfIs DEF SizeOf
<1>8. RateOf(b) = a[1].value
  <2>1. /\ 1 \in DOMAIN b /\ DOMAIN b \subseteq Nat /\ b[1].name \in {"fps"}
        /\ \A k \in DOMAIN b : b[k].name \in {"fps"} => k <= 1
    BY <1>1, <1>4, <1>6
  <2> QED
    BY <1>6, <2>1, LastOfIs DEF RateOf
<1> QED
  BY <1>1, <1>2, <1>3, <1>4, <1>7, <1>8 DEF b

LEMMA InvImpliesFramesKeepTheirSize == WrapperInv => FramesKeepTheirSize
<1> DEFINE from == Chains(argv)
           to == Chains(out)
           Kept(before, after) ==
             /\ Len(SizeOf(before)) = 2 => SizeOf(after) = SizeOf(before)
             /\ (\A j \in 2..Len(before) : before[j].name # "fps") => RateOf(after) = RateOf(before)
<1> SUFFICES ASSUME WrapperInv, pc = "exec", Rewrites
             PROVE  Len(to) = Len(from) /\ \A k \in DOMAIN from : Kept(from[k], to[k])
  BY DEF FramesKeepTheirSize
<1>1. /\ argv \in Seq(Argument) /\ SubSeq(argv, 1, Len(argv)) = argv
      /\ WrittenBefore(Len(argv))
  BY SubSeqFull DEF WrapperInv
<1>2. AllScaled(from, to)
  BY <1>1 DEF WrittenBefore
<1>3. from \in Seq(Argument)
  BY <1>1, ChainsType
<1> HIDE DEF from, to
<1>4. /\ DOMAIN from = 1..Len(from) /\ Len(from) \in Nat
      /\ \A k \in DOMAIN from : from[k] \in Argument /\ Scaler(from[k])
      /\ to = [k \in 1..Len(from) |-> Scaled(from[k])]
  BY <1>2, <1>3 DEF AllScaled
<1>5. Len(to) = Len(from)
  BY <1>4
<1>6. ASSUME NEW a \in Argument, Scaler(a) PROVE Kept(a, Scaled(a))
  BY <1>6, ScaledKeepsSize
<1> HIDE DEF Kept
<1>7. \A k \in DOMAIN from : Kept(from[k], to[k])
  BY <1>4, <1>6
<1> QED
  BY <1>5, <1>7

LEMMA Inductive == WrapperSpec => []WrapperInv
BY WrapperInvInit, WrapperInvNext, PTL DEF WrapperSpec

(* "Anything else ... is passed through unchanged" (bin/ffmpeg): of every   *)
(* command line, whatever is not a detect process decoding on the AVD.      *)
THEOREM OthersAreKept == WrapperSpec => []OthersPassThrough
BY Inductive, InvImpliesOthersPassThrough, PTL

(* A rewritten command, whatever its outputs and the order of its options,  *)
(* has the device options right after "-hwaccel v4l2request" and keeps      *)
(* every other argument but the values of -vf.                              *)
THEOREM DetectIsTouchedAlone == WrapperSpec => []OnlyDetectIsTouched
BY Inductive, InvImpliesOnlyDetectIsTouched, PTL

(* A rewritten command has as many filter chains as the original, and each  *)
(* gives frames of the size of the original one that has a size W:H, and at *)
(* its rate when it has one fps=.                                           *)
THEOREM FramesAreKept == WrapperSpec => []FramesKeepTheirSize
BY Inductive, InvImpliesFramesKeepTheirSize, PTL

(* The pattern fps=*,scale=*:* matches nothing but the two filters, in the  *)
(* commands the wrapper is given.                                           *)
PatternIsExact ==
  \A command \in Commands : \A i \in 1..Len(command) :
    Scaler(command[i]) => Len(command[i]) = 2

(* How far the promise about filters goes: it is broken only by a chain the *)
(* pattern matches with a third filter between or around the two            *)
(* (bin/ffmpeg, the case of pass 1 on -vf).                                 *)
THEOREM ExactPatternLosesNothing ==
  ASSUME PatternIsExact PROVE WrapperSpec => []NoFilterIsLost
<1> DEFINE Given == argv \in Commands
<1>1. WrapperInit => Given
  BY DEF WrapperInit
<1>2. Given /\ [WrapperNext]_wrapperVars => Given'
  BY DEF WrapperNext, Classify, Decide, Rebuild, Exec, wrapperVars
<1>3. WrapperInv /\ Given => NoFilterIsLost
  <2> SUFFICES ASSUME WrapperInv, Given, pc = "exec", out # argv,
                      NEW a \in ValuesOf("-vf"), NEW k \in 2..Len(a)
               PROVE  a[k].name = "scale"
    BY DEF NoFilterIsLost
  <2>1. Rewrites /\ SeenBefore(Len(argv)) /\ argv \in Seq(Argument)
    BY DEF WrapperInv
  <2>2. PICK i \in 2..Len(argv) : a = argv[i] /\ argv[i - 1] = Word("-vf")
    BY DEF ValuesOf
  <2>3. a \in ValuesBefore(Len(argv), "-vf")
    BY <2>2 DEF ValuesBefore
  <2>4. Scaler(a)
    BY <2>1, <2>3 DEF SeenBefore, Rewrites
  <2>5. i \in 1..Len(argv) /\ a \in Argument
    BY <2>1, <2>2
  <2>6. Len(a) = 2
    BY <2>2, <2>4, <2>5 DEF PatternIsExact
  <2>7. a[2].name = "scale"
    BY <2>4, <2>5, <2>6, ScalerParts
  <2>8. k = 2
    BY <2>6
  <2> QED
    BY <2>7, <2>8
<1> QED
  BY <1>1, <1>2, <1>3, Inductive, PTL DEF WrapperSpec

=============================================================================
