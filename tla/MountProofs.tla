------------------------------ MODULE MountProofs ------------------------------
(***************************************************************************)
(* Proofs about MountContext.  The relay's container is translated by the  *)
(* longest destination above a path and a devcontainer by the longest      *)
(* source above the result; the lemmas show that there and back it is one  *)
(* file, the invariants that the request puts together what belongs to one *)
(* path although the containers change while it runs.                      *)
(*                                                                         *)
(* clean is recursive: what it yields for any path is proved first.        *)
(***************************************************************************)
EXTENDS MountContext, SequenceTheorems, WellFoundedInduction, TLAPS

-------------------------------------------------------------------------------
(* clean is recursive.  The library's induction theorems take an operator   *)
(* as a parameter; its theorem that a well-founded order has minimal        *)
(* elements takes a set, and the set of the numbers for which a fact holds  *)
(* does as well.                                                            *)

(* What the loop of path.Clean does with one more segment.                  *)
cleanStep(prev, s) ==
  IF s \in {"", "."} THEN prev
  ELSE IF s # ".." THEN Append(prev, s)
  ELSE SubSeq(prev, 1, Len(prev) - 1)

(* The segments of a path as a client writes it.                            *)
RawSegments == Segments \cup {"", ".", ".."}

(* A set of numbers has a least element.                                    *)
LEMMA NatMin ==
  ASSUME NEW T, T \subseteq Nat, T # {}
  PROVE  \E x \in T : \A y \in T : x <= y
<1>1. PICK x \in T : \A y \in T : <<y, x>> \notin OpToRel(<, Nat)
  BY NatLessThanWellFounded, WFMin
<1>2. \A y \in T : y < x => <<y, x>> \in OpToRel(<, Nat)
  BY DEF OpToRel
<1>3. \A y \in T : ~(y < x)
  BY <1>1, <1>2
<1>4. \A y \in T : x <= y
  BY <1>3
<1>5. QED BY <1>4

(* So a set that holds 0 and with each number the next holds them all.      *)
LEMMA SetInduction ==
  ASSUME NEW S, 0 \in S, \A n \in Nat : n \in S => n + 1 \in S
  PROVE  Nat \subseteq S
<1> SUFFICES ASSUME Nat \ S # {} PROVE FALSE
  OBVIOUS
<1>1. PICK x \in Nat \ S : \A y \in Nat \ S : x <= y
  BY NatMin
<1>2. x - 1 \in Nat /\ x - 1 \in S
  BY <1>1
<1>3. QED BY <1>1, <1>2

(* A clean path stays one: ".." takes a segment off, and none off the root. *)
LEMMA CleanStepType ==
  ASSUME NEW prev \in Paths, NEW s \in RawSegments
  PROVE  cleanStep(prev, s) \in Paths
<1>1. SubSeq(prev, 1, Len(prev) - 1) \in Paths
  <2>1. Len(prev) \in Nat /\ \A k \in 1 .. Len(prev) - 1 : prev[k] \in Segments
    BY LenProperties, ElementOfSeq DEF Paths
  <2>2. QED BY <2>1, SubSeqProperties DEF Paths
<1>2. s \in Segments => Append(prev, s) \in Paths
  BY AppendProperties DEF Paths
<1>3. QED BY <1>1, <1>2 DEF cleanStep, RawSegments

(* The definition of clean has a solution, of which clean is the last value,*)
(* and all its values are paths.                                            *)
LEMMA CleanUnfolds ==
  ASSUME NEW p \in Seq(RawSegments)
  PROVE  \E f \in [0 .. Len(p) -> Paths] :
           /\ f[0] = <<>>
           /\ \A i \in 1 .. Len(p) : f[i] = cleanStep(f[i - 1], p[i])
           /\ clean(p) = f[Len(p)]
<1>1. Len(p) \in Nat /\ \A i \in 1 .. Len(p) : p[i] \in RawSegments
  BY LenProperties, ElementOfSeq
<1>2. <<>> \in Paths
  BY EmptySeq DEF Paths
<1> DEFINE Value(f, i) == IF i = 0 THEN <<>> ELSE cleanStep(f[i - 1], p[i])
           Solved == {n \in Nat : n <= Len(p) =>
                        \E f \in [0 .. n -> Paths] : \A i \in 0 .. n : f[i] = Value(f, i)}
<1>3. 0 \in Solved
  <2> DEFINE g == [i \in 0 .. 0 |-> <<>>]
  <2>1. g \in [0 .. 0 -> Paths]
    BY <1>2
  <2>2. \A i \in 0 .. 0 : g[i] = Value(g, i)
    OBVIOUS
  <2>3. QED BY <2>1, <2>2
<1>4. ASSUME NEW n \in Nat, n \in Solved PROVE n + 1 \in Solved
  <2> SUFFICES ASSUME n + 1 <= Len(p)
               PROVE  \E g \in [0 .. n + 1 -> Paths] : \A i \in 0 .. n + 1 : g[i] = Value(g, i)
    OBVIOUS
  <2>1. PICK f \in [0 .. n -> Paths] : \A i \in 0 .. n : f[i] = Value(f, i)
    BY <1>1, <1>4
  <2> DEFINE g == [i \in 0 .. n + 1 |-> IF i <= n THEN f[i] ELSE cleanStep(f[n], p[n + 1])]
  <2>2. cleanStep(f[n], p[n + 1]) \in Paths
    BY <1>1, CleanStepType
  <2>3. g \in [0 .. n + 1 -> Paths]
    BY <2>2
  <2>4. ASSUME NEW i \in 0 .. n + 1 PROVE g[i] = Value(g, i)
    <3>1. CASE i = 0
      BY <2>1, <3>1
    <3>2. CASE i \in 1 .. n
      <4>1. g[i] = f[i] /\ g[i - 1] = f[i - 1] /\ i # 0
        BY <3>2
      <4>2. f[i] = Value(f, i)
        BY <2>1, <3>2
      <4>3. QED BY <4>1, <4>2
    <3>3. CASE i = n + 1
      <4>1. g[i] = cleanStep(f[n], p[n + 1]) /\ g[i - 1] = f[n] /\ i # 0
        BY <3>3
      <4>2. QED BY <3>3, <4>1
    <3>4. QED BY <3>1, <3>2, <3>3
  <2>5. QED BY <2>3, <2>4
<1>5. Len(p) \in Solved
  <2> HIDE DEF Solved
  <2>1. QED BY <1>1, <1>3, <1>4, SetInduction
<1>6. PICK f \in [0 .. Len(p) -> Paths] : \A i \in 0 .. Len(p) : f[i] = Value(f, i)
  BY <1>1, <1>5
<1>7. f = [i \in 0 .. Len(p) |-> Value(f, i)]
  BY <1>6
<1> DEFINE h == CHOOSE h : h = [i \in 0 .. Len(p) |-> Value(h, i)]
<1>8. h = [i \in 0 .. Len(p) |-> Value(h, i)]
  BY <1>7
<1>9. clean(p) = h[Len(p)]
  BY DEF clean, cleanStep
<1> HIDE DEF h
<1>10. \A i \in 0 .. Len(p) : h[i] = Value(h, i)
  BY <1>8
<1> DEFINE Good == {n \in Nat : n <= Len(p) => h[n] \in Paths}
<1>11. 0 \in Good
  BY <1>1, <1>2, <1>10
<1>12. ASSUME NEW n \in Nat, n \in Good PROVE n + 1 \in Good
  <2> SUFFICES ASSUME n + 1 <= Len(p) PROVE h[n + 1] \in Paths
    OBVIOUS
  <2>1. h[n] \in Paths
    BY <1>1, <1>12
  <2>2. h[n + 1] = cleanStep(h[n], p[n + 1])
    BY <1>1, <1>10
  <2>3. QED BY <1>1, <2>1, <2>2, CleanStepType
<1>13. \A n \in 0 .. Len(p) : h[n] \in Paths
  <2>1. Nat \subseteq Good
    <3> HIDE DEF Good
    <3>1. QED BY <1>11, <1>12, SetInduction
  <2>2. QED BY <1>1, <2>1
<1>14. h \in [0 .. Len(p) -> Paths]
  BY <1>8, <1>13
<1>15. h[0] = <<>> /\ \A i \in 1 .. Len(p) : h[i] = cleanStep(h[i - 1], p[i])
  BY <1>1, <1>10
<1>16. QED BY <1>9, <1>14, <1>15

(* Whatever a client asks for, clean makes a path of it, without an empty   *)
(* segment, a "." or a ".." (module/mounts.go, safeMountPath).              *)
THEOREM CleanIsPath ==
  ASSUME NEW p \in Seq(RawSegments)
  PROVE  clean(p) \in Paths
<1>1. Len(p) \in Nat
  BY LenProperties
<1>2. QED BY <1>1, CleanUnfolds

(* The root is clean.                                                       *)
LEMMA CleanOfNothing == clean(<<>>) = <<>>
<1>1. <<>> \in Seq(RawSegments) /\ Len(<<>>) = 0
  BY EmptySeq
<1>2. QED BY <1>1, CleanUnfolds

(* Segment by segment: what clean makes of a longer path depends on the     *)
(* shorter one only through its clean form.                                 *)
LEMMA CleanOfAppend ==
  ASSUME NEW p \in Seq(RawSegments), NEW s \in RawSegments
  PROVE  clean(Append(p, s)) = cleanStep(clean(p), s)
<1> DEFINE q == Append(p, s)
<1>1. /\ q \in Seq(RawSegments) /\ Len(p) \in Nat /\ Len(q) = Len(p) + 1
      /\ \A i \in 1 .. Len(p) : q[i] = p[i]
      /\ q[Len(p) + 1] = s
  BY LenProperties, AppendProperties
<1> HIDE DEF q
<1>2. PICK f : /\ f[0] = <<>>
               /\ \A i \in 1 .. Len(p) : f[i] = cleanStep(f[i - 1], p[i])
               /\ clean(p) = f[Len(p)]
  BY CleanUnfolds
<1>3. PICK g : /\ g[0] = <<>>
               /\ \A i \in 1 .. Len(q) : g[i] = cleanStep(g[i - 1], q[i])
               /\ clean(q) = g[Len(q)]
  BY <1>1, CleanUnfolds
<1> DEFINE Same == {n \in Nat : n <= Len(p) => g[n] = f[n]}
<1>4. 0 \in Same
  BY <1>2, <1>3
<1>5. ASSUME NEW n \in Nat, n \in Same PROVE n + 1 \in Same
  <2> SUFFICES ASSUME n + 1 <= Len(p) PROVE g[n + 1] = f[n + 1]
    OBVIOUS
  <2>1. g[n] = f[n] /\ n + 1 \in 1 .. Len(p) /\ n + 1 \in 1 .. Len(q)
    BY <1>1, <1>5
  <2>2. f[n + 1] = cleanStep(f[n], p[n + 1]) /\ g[n + 1] = cleanStep(g[n], q[n + 1])
    BY <1>2, <1>3, <2>1
  <2>3. QED BY <1>1, <2>1, <2>2
<1>6. g[Len(p)] = f[Len(p)]
  <2>1. Nat \subseteq Same
    <3> HIDE DEF Same
    <3>1. QED BY <1>4, <1>5, SetInduction
  <2>2. QED BY <1>1, <2>1
<1>7. g[Len(p) + 1] = cleanStep(g[Len(p)], s)
  BY <1>1, <1>3
<1>8. QED BY <1>1, <1>2, <1>3, <1>6, <1>7 DEF q

(* A path that is clean already is left as it is: that each helper of the   *)
(* translation calls path.Clean on its arguments again changes nothing, and *)
(* so is not part of the model (module/mounts.go:499, cleanContainerPath).  *)
THEOREM CleanFixesPaths ==
  ASSUME NEW p \in Paths
  PROVE  clean(p) = p
<1>1. /\ p \in Seq(RawSegments) /\ Len(p) \in Nat
      /\ \A i \in 1 .. Len(p) : p[i] \in Segments
  <2>1. p \in Seq(Segments) /\ Len(p) \in Nat
    BY LenProperties DEF Paths
  <2>2. p \in [1 .. Len(p) -> Segments]
    BY <2>1, LenProperties, ElementOfSeq
  <2>3. p \in [1 .. Len(p) -> RawSegments]
    BY <2>2 DEF RawSegments
  <2>4. p \in Seq(RawSegments)
    BY <2>1, <2>3, SeqDef
  <2>5. QED BY <2>1, <2>2, <2>4
<1>2. PICK f \in [0 .. Len(p) -> Paths] :
        /\ f[0] = <<>>
        /\ \A i \in 1 .. Len(p) : f[i] = cleanStep(f[i - 1], p[i])
        /\ clean(p) = f[Len(p)]
  BY <1>1, CleanUnfolds
<1> DEFINE Prefix == {n \in Nat : n <= Len(p) =>
                        Len(f[n]) = n /\ \A k \in 1 .. n : f[n][k] = p[k]}
<1>3. 0 \in Prefix
  BY <1>2
<1>4. ASSUME NEW n \in Nat, n \in Prefix PROVE n + 1 \in Prefix
  <2> SUFFICES ASSUME n + 1 <= Len(p)
               PROVE  Len(f[n + 1]) = n + 1 /\ \A k \in 1 .. n + 1 : f[n + 1][k] = p[k]
    OBVIOUS
  <2>1. Len(f[n]) = n /\ \A k \in 1 .. n : f[n][k] = p[k]
    BY <1>1, <1>4
  <2>2. f[n + 1] = Append(f[n], p[n + 1])
    <3>1. n + 1 \in 1 .. Len(p)
      BY <1>1
    <3>2. f[n + 1] = cleanStep(f[n], p[n + 1]) /\ p[n + 1] \in Segments
      BY <1>1, <1>2, <3>1
    <3>3. QED BY <3>2, PathsAssumption DEF cleanStep
  <2>3. f[n] \in Seq(Segments) /\ p[n + 1] \in Segments
    <3>1. n \in 0 .. Len(p) /\ n + 1 \in 1 .. Len(p)
      BY <1>1
    <3>2. f[n] \in Paths
      BY <1>2, <3>1
    <3>3. QED BY <1>1, <3>1, <3>2 DEF Paths
  <2>4. /\ Len(f[n + 1]) = n + 1
        /\ \A k \in 1 .. n : f[n + 1][k] = f[n][k]
        /\ f[n + 1][n + 1] = p[n + 1]
    BY <2>1, <2>2, <2>3, AppendProperties
  <2>5. QED BY <2>1, <2>4
<1>5. Len(f[Len(p)]) = Len(p) /\ \A k \in 1 .. Len(p) : f[Len(p)][k] = p[k]
  <2>1. Nat \subseteq Prefix
    <3> HIDE DEF Prefix
    <3>1. QED BY <1>3, <1>4, SetInduction
  <2>2. QED BY <1>1, <2>1
<1>6. f[Len(p)] \in Seq(Segments)
  BY <1>1, <1>2 DEF Paths
<1>7. QED BY <1>2, <1>5, <1>6, SeqEqual DEF Paths
-------------------------------------------------------------------------------
(* Mount tables and the translation of paths.                               *)
Table == {ms \in Seq(Mount) :
            \A j, k \in DOMAIN ms : ms[j].destination = ms[k].destination => j = k}

(* The rows of a mount table and their fields.                              *)
LEMMA TableFacts ==
  ASSUME NEW ms \in Table
  PROVE  /\ DOMAIN ms \subseteq Nat
         /\ \A k \in DOMAIN ms : /\ ms[k].source \in Paths \cup {NoSource}
                                 /\ ms[k].destination \in Paths
                                 /\ ms[k].rw \in BOOLEAN
<1>1. DOMAIN ms = 1 .. Len(ms) /\ Len(ms) \in Nat /\ \A k \in 1 .. Len(ms) : ms[k] \in Mount
  BY LenProperties, ElementOfSeq DEF Table
<1> QED
  BY <1>1 DEF Mount

(* Two mount points above one path lie one below the other. *)
LEMMA PrefixesNest ==
  ASSUME NEW p \in Paths, NEW a \in Paths, NEW b \in Paths,
         pathHasPrefix(p, a), pathHasPrefix(p, b), Len(a) <= Len(b)
  PROVE  pathHasPrefix(b, a) /\ (Len(a) = Len(b) => a = b)
<1>1. /\ Len(a) \in Nat /\ Len(b) \in Nat
      /\ DOMAIN a = 1 .. Len(a) /\ DOMAIN b = 1 .. Len(b)
  BY LenProperties DEF Paths
<1>2. \A k \in 1 .. Len(a) : b[k] = a[k]
  BY <1>1 DEF pathHasPrefix
<1>3. pathHasPrefix(b, a)
  BY <1>1, <1>2 DEF pathHasPrefix
<1>4. ASSUME Len(a) = Len(b) PROVE a = b
  BY <1>1, <1>2, <1>4, SeqEqual DEF Paths
<1> QED
  BY <1>3, <1>4

(* A path is the prefix it lies below and what is below it.                 *)
LEMMA Rejoin ==
  ASSUME NEW a \in Paths, NEW b \in Paths, pathHasPrefix(b, a)
  PROVE  Below(a, b) \in Paths /\ a \o Below(a, b) = b
<1>1. /\ Len(a) \in Nat /\ Len(b) \in Nat /\ Len(a) <= Len(b)
      /\ DOMAIN a = 1 .. Len(a)
      /\ \A k \in 1 .. Len(a) : b[k] = a[k]
  BY LenProperties DEF Paths, pathHasPrefix
<1>2. \A k \in Len(a) + 1 .. Len(b) : b[k] \in Segments
  BY <1>1, ElementOfSeq DEF Paths
<1> DEFINE rest == Below(a, b)
<1>3. /\ rest \in Seq(Segments)
      /\ Len(rest) = Len(b) - Len(a)
      /\ \A k \in 1 .. Len(b) - Len(a) : rest[k] = b[Len(a) + k]
  <2>1. /\ rest \in Seq(Segments)
        /\ Len(rest) = IF Len(a) + 1 <= Len(b) THEN Len(b) - (Len(a) + 1) + 1 ELSE 0
        /\ \A k \in 1 .. Len(b) - (Len(a) + 1) + 1 : rest[k] = b[Len(a) + 1 + k - 1]
    BY <1>1, <1>2, SubSeqProperties DEF Below
  <2> QED
    BY <1>1, <2>1
<1> HIDE DEF rest
<1>4. /\ a \o rest \in Seq(Segments)
      /\ Len(a \o rest) = Len(a) + Len(rest)
      /\ \A k \in 1 .. Len(a) + Len(rest) :
           (a \o rest)[k] = IF k <= Len(a) THEN a[k] ELSE rest[k - Len(a)]
  BY <1>3, ConcatProperties DEF Paths
<1>5. Len(a \o rest) = Len(b) /\ \A k \in 1 .. Len(b) : (a \o rest)[k] = b[k]
  <2>1. Len(a \o rest) = Len(b)
    BY <1>1, <1>3, <1>4
  <2>2. ASSUME NEW k \in 1 .. Len(b) PROVE (a \o rest)[k] = b[k]
    <3>0. k <= Len(a) \/ k > Len(a)
      BY <1>1
    <3>1. CASE k <= Len(a)
      BY <1>1, <1>3, <1>4, <3>1
    <3>2. CASE k > Len(a)
      <4>1. k - Len(a) \in 1 .. Len(b) - Len(a) /\ Len(a) + (k - Len(a)) = k
        BY <1>1, <3>2
      <4>2. (a \o rest)[k] = rest[k - Len(a)]
        BY <1>1, <1>3, <1>4, <3>2
      <4>3. rest[k - Len(a)] = b[Len(a) + (k - Len(a))]
        BY <1>3, <4>1
      <4> QED
        BY <4>1, <4>2, <4>3
    <3> QED
      BY <3>0, <3>1, <3>2
  <2> QED
    BY <2>1, <2>2
<1>6. a \o rest = b
  BY <1>1, <1>4, <1>5, SeqEqual DEF Paths
<1> QED
  BY <1>3, <1>6 DEF rest, Paths

(* A path put below another lies below it, and taking it off again gives it *)
(* back.                                                                    *)
LEMMA Unjoin ==
  ASSUME NEW a \in Paths, NEW x \in Paths
  PROVE  /\ a \o x \in Paths
         /\ pathHasPrefix(a \o x, a)
         /\ Below(a, a \o x) = x
<1>1. /\ Len(a) \in Nat /\ Len(x) \in Nat /\ DOMAIN a = 1 .. Len(a)
      /\ a \o x \in Seq(Segments)
      /\ Len(a \o x) = Len(a) + Len(x)
      /\ \A k \in 1 .. Len(a) + Len(x) :
           (a \o x)[k] = IF k <= Len(a) THEN a[k] ELSE x[k - Len(a)]
  BY LenProperties, ConcatProperties DEF Paths
<1>2. pathHasPrefix(a \o x, a)
  BY <1>1 DEF pathHasPrefix
<1>3. Below(a, a \o x) \in Paths /\ a \o Below(a, a \o x) = a \o x
  BY <1>1, <1>2, Rejoin DEF Paths
<1>4. Below(a, a \o x) = x
  BY <1>3, ConcatSimplifications DEF Paths
<1> QED
  BY <1>1, <1>2, <1>4 DEF Paths

(* The mount chosen for a path is one, by destination and by source.        *)
LEMMA BestIsOne ==
  ASSUME NEW ms \in Table, NEW p \in Paths
  PROVE  /\ \A j, k \in bestMountByDestination(ms, p) : j = k
         /\ \A j, k \in bestMountBySource(ms, p) : j = k
<1>1. ASSUME NEW points \in [DOMAIN ms -> Paths \cup {NoSource}],
             NEW j \in BestPoint(points, p), NEW k \in BestPoint(points, p)
      PROVE  j = k
  <2>1. /\ j \in DOMAIN ms /\ k \in DOMAIN ms
        /\ points[j] \in Paths /\ points[k] \in Paths
        /\ Len(points[j]) > Len(points[k]) \/ (Len(points[j]) = Len(points[k]) /\ j <= k)
        /\ Len(points[k]) > Len(points[j]) \/ (Len(points[k]) = Len(points[j]) /\ k <= j)
    BY DEF BestPoint
  <2>2. Len(points[j]) \in Nat /\ Len(points[k]) \in Nat /\ j \in Nat /\ k \in Nat
    BY <2>1, TableFacts, LenProperties DEF Paths
  <2> QED
    BY <2>1, <2>2
<1>2. /\ [k \in DOMAIN ms |-> ms[k].destination] \in [DOMAIN ms -> Paths \cup {NoSource}]
      /\ [k \in DOMAIN ms |-> ms[k].source] \in [DOMAIN ms -> Paths \cup {NoSource}]
  BY TableFacts
<1> QED
  BY <1>1, <1>2 DEF bestMountByDestination, bestMountBySource

(* Docker shows the longest destination above a path. *)
LEMMA LongestIsDeepest ==
  ASSUME NEW ms \in Table, NEW p \in Paths, NEW k \in bestMountByDestination(ms, p)
  PROVE  k \in Deepest(ms, p)
<1> DEFINE points == [j \in DOMAIN ms |-> ms[j].destination]
<1>1. /\ k \in DOMAIN ms /\ pathHasPrefix(p, points[k])
      /\ \A j \in DOMAIN ms : points[j] # NoSource /\ pathHasPrefix(p, points[j])
           => \/ Len(points[k]) > Len(points[j])
              \/ Len(points[k]) = Len(points[j]) /\ k <= j
  BY DEF bestMountByDestination, BestPoint
<1>2. \A j \in DOMAIN ms : /\ points[j] = ms[j].destination /\ points[j] \in Paths
                           /\ points[j] # NoSource /\ Len(points[j]) \in Nat
  BY TableFacts, LenProperties, PathsAssumption DEF Paths
<1> HIDE DEF points
<1>3. ASSUME NEW j \in DOMAIN ms \ {k}, pathHasPrefix(p, ms[j].destination),
             pathHasPrefix(ms[j].destination, ms[k].destination)
      PROVE  FALSE
  <2>1. Len(points[k]) <= Len(points[j])
    BY <1>1, <1>2, <1>3 DEF pathHasPrefix
  <2>2. Len(points[k]) = Len(points[j])
    BY <1>1, <1>2, <1>3, <2>1
  <2>3. points[k] = points[j]
    BY <1>1, <1>2, <1>3, <2>2, PrefixesNest
  <2> QED
    BY <1>1, <1>2, <1>3, <2>3 DEF Table
<1> QED
  BY <1>1, <1>2, <1>3 DEF Deepest

(* So is the deepest mount over a path.                                     *)
LEMMA DeepestIsOne ==
  ASSUME NEW ms \in Table, NEW p \in Paths,
         NEW j \in Deepest(ms, p), NEW k \in Deepest(ms, p)
  PROVE  j = k
<1>1. /\ j \in DOMAIN ms /\ k \in DOMAIN ms
      /\ pathHasPrefix(p, ms[j].destination) /\ pathHasPrefix(p, ms[k].destination)
      /\ j # k => /\ ~pathHasPrefix(ms[j].destination, ms[k].destination)
                  /\ ~pathHasPrefix(ms[k].destination, ms[j].destination)
  BY DEF Deepest
<1>2. /\ ms[j].destination \in Paths /\ ms[k].destination \in Paths
      /\ Len(ms[j].destination) \in Nat /\ Len(ms[k].destination) \in Nat
  BY <1>1, TableFacts, LenProperties DEF Paths
<1> QED
  BY <1>1, <1>2, PrefixesNest

(* What is seen at a path is what its deepest mount shows there. *)
LEMMA SeenAt ==
  ASSUME NEW ms \in Table, NEW p \in Paths, NEW k \in Deepest(ms, p), ms[k].source # NoSource
  PROVE  Seen(ms, p) =
           {[file |-> ms[k].source \o Below(ms[k].destination, p), writable |-> ms[k].rw]}
<1>1. {j \in Deepest(ms, p) : ms[j].source # NoSource} = {k}
  BY DeepestIsOne
<1> QED
  BY <1>1 DEF Seen

(* The file on the host is the one the relay's container sees. *)
LEMMA SourceIsSeen ==
  ASSUME NEW ms \in Table, NEW p \in Paths, NEW s \in mountedSourcePath(ms, p)
  PROVE  s \in Paths /\ {v.file : v \in Seen(ms, p)} = {s} /\ mountedSourcePath(ms, p) = {s}
<1>1. PICK k \in bestMountByDestination(ms, p) :
        ms[k].source # NoSource /\ s = ms[k].source \o Below(ms[k].destination, p)
  BY DEF mountedSourcePath
<1>2. k \in Deepest(ms, p)
  BY LongestIsDeepest
<1>3. /\ k \in DOMAIN ms /\ pathHasPrefix(p, ms[k].destination)
      /\ ms[k].source \in Paths /\ ms[k].destination \in Paths
  BY <1>1, <1>2, TableFacts DEF Deepest
<1>4. s \in Paths
  BY <1>1, <1>3, Rejoin, Unjoin
<1>5. {v.file : v \in Seen(ms, p)} = {s}
  <2>1. Seen(ms, p) = {[file |-> s, writable |-> ms[k].rw]}
    BY <1>1, <1>2, SeenAt
  <2> QED
    BY <2>1
<1>6. {j \in bestMountByDestination(ms, p) : ms[j].source # NoSource} = {k}
  BY <1>1, BestIsOne
<1>7. mountedSourcePath(ms, p) = {s}
  BY <1>1, <1>6 DEF mountedSourcePath
<1> QED
  BY <1>4, <1>5, <1>7

(* And the one a devcontainer sees at the path that is answered, unless     *)
(* something is mounted over it.                                            *)
LEMMA TargetIsSeen ==
  ASSUME NEW ms \in Table, NEW s \in Paths, NEW m \in containerPathForMountedSource(ms, s)
  PROVE  /\ m.path \in Paths /\ m.writable \in BOOLEAN
         /\ containerPathForMountedSource(ms, s) = {m}
         /\ (\A k \in bestMountBySource(ms, s) : k \in Deepest(ms, m.path))
            => /\ {v.file : v \in Seen(ms, m.path)} = {s}
               /\ {v.writable : v \in Seen(ms, m.path)} = {m.writable}
<1>1. PICK k \in bestMountBySource(ms, s) :
        m = [path |-> ms[k].destination \o Below(ms[k].source, s), writable |-> ms[k].rw]
  BY DEF containerPathForMountedSource
<1>2. k \in DOMAIN ms /\ ms[k].source # NoSource /\ pathHasPrefix(s, ms[k].source)
  BY <1>1 DEF bestMountBySource, BestPoint
<1>3. ms[k].source \in Paths /\ ms[k].destination \in Paths /\ ms[k].rw \in BOOLEAN
  BY <1>2, TableFacts
<1> DEFINE rest == Below(ms[k].source, s)
<1>4. rest \in Paths /\ ms[k].source \o rest = s
  BY <1>2, <1>3, Rejoin
<1>5. m.path = ms[k].destination \o rest /\ m.writable = ms[k].rw
  BY <1>1
<1> HIDE DEF rest
<1>6. m.path \in Paths /\ Below(ms[k].destination, m.path) = rest
  BY <1>3, <1>4, <1>5, Unjoin
<1>7. containerPathForMountedSource(ms, s) = {m}
  <2>1. bestMountBySource(ms, s) = {k}
    BY <1>1, BestIsOne
  <2> QED
    BY <1>1, <2>1 DEF containerPathForMountedSource
<1>8. ASSUME k \in Deepest(ms, m.path)
      PROVE  /\ {v.file : v \in Seen(ms, m.path)} = {s}
             /\ {v.writable : v \in Seen(ms, m.path)} = {m.writable}
  <2>1. Seen(ms, m.path) = {[file |-> s, writable |-> m.writable]}
    BY <1>2, <1>4, <1>5, <1>6, <1>8, SeenAt
  <2> QED
    BY <2>1
<1> QED
  BY <1>1, <1>3, <1>5, <1>6, <1>7, <1>8
-------------------------------------------------------------------------------
TablesInv == mounts \in [Containers -> Table]

Translated(m) ==
  \E s \in sources :
    [path |-> m.path, writable |-> m.writable]
      \in containerPathForMountedSource(mounts[m.container], s)

(* The answer belongs to the path and the container of the request.         *)
MatchInv ==
  /\ step \in {"found", "rows"} \/ matches # {} => from \in Containers
  /\ matches # {} => step \in {"rows", "done"}
  /\ \A m \in matches : m.container \in Devcontainers /\ Translated(m)

(* A request looks elsewhere only for one of these two reasons.             *)
FoundInv ==
  /\ step \in {"list", "scan"} => Relay \in missed \/ ~Covers(Relay)
  /\ RelayIsFound

(* Each container is visited once, those running all the time among them.   *)
AnswerInv ==
  /\ \A c \in steady : status[c] # "stopped"
  /\ \A m, n \in matches : m.container = n.container => m = n
  /\ step = "rows" => \A m \in matches : m.container \notin pending
  /\ step \in {"rows", "done"} =>
       \A c \in steady \ missed, s \in sources :
         \/ c \in pending
         \/ containerPathForMountedSource(mounts[c], s) = {}
         \/ \E m \in matches : m.container = c
  /\ step = "done" => pending = {} \/ sources = {}

RequestInv ==
  /\ MountTypeOK /\ TablesInv /\ MatchInv
  /\ step = "rows" => pending \subseteq Devcontainers
-------------------------------------------------------------------------------
(* The invariants hold before the first request.                            *)
LEMMA InitRequest ==
  MountInit => RequestInv /\ FoundInv /\ AnswerInv
<1> SUFFICES ASSUME MountInit PROVE RequestInv /\ FoundInv /\ AnswerInv
  OBVIOUS
<1> USE DEF MountInit
<1>1. MountTypeOK
  <2>1. <<>> \in Paths
    BY EmptySeq DEF Paths
  <2> QED
    BY <2>1, MountContextAssumption DEF MountTypeOK, Steps, Containers
<1>2. TablesInv
  <2>1. mounts \in [Containers -> UNION {Tables(c) : c \in Containers}]
        /\ \A c \in Containers : mounts[c] \in Tables(c)
    OBVIOUS
  <2>2. \A c \in Containers : Tables(c) \subseteq Table
    BY MountContextAssumption DEF Table
  <2> QED
    BY <2>1, <2>2 DEF TablesInv
<1>3. MatchInv /\ FoundInv /\ AnswerInv
  BY DEF MatchInv, FoundInv, RelayIsFound, AnswerInv
<1> QED
  BY <1>1, <1>2, <1>3 DEF RequestInv

(* What a container contributes to the answer is well formed. *)
LEMMA VisitMatches ==
  ASSUME RequestInv, step = "rows", NEW c \in pending, NEW s \in sources,
         NEW m \in containerPathForMountedSource(mounts[c], s)
  PROVE  /\ c \in Devcontainers
         /\ sources = {s} /\ containerPathForMountedSource(mounts[c], s) = {m}
         /\ m.path \in Paths /\ m.writable \in BOOLEAN
         /\ m = [path |-> m.path, writable |-> m.writable]
<1>1. /\ c \in Devcontainers /\ c \in Containers /\ from \in Containers
      /\ mounts[c] \in Table /\ mounts[from] \in Table /\ path \in Paths
  BY DEF RequestInv, MatchInv, TablesInv, MountTypeOK, Containers
<1>2. s \in Paths /\ sources = {s}
  BY <1>1, SourceIsSeen DEF sources
<1>3. m = [path |-> m.path, writable |-> m.writable]
  <2>1. PICK k \in bestMountBySource(mounts[c], s) :
          m = [path |-> mounts[c][k].destination \o Below(mounts[c][k].source, s),
               writable |-> mounts[c][k].rw]
    BY DEF containerPathForMountedSource
  <2> QED
    BY <2>1
<1> QED
  BY <1>1, <1>2, <1>3, TargetIsSeen

(* A step of the request or of Docker keeps the types.                      *)
LEMMA TypeStep ==
  ASSUME RequestInv, [MountNext]_contextVars
  PROVE  MountTypeOK' /\ TablesInv' /\ (step = "rows" => pending \subseteq Devcontainers)'
<1>1. MountTypeOK /\ TablesInv /\ MatchInv /\ (step = "rows" => pending \subseteq Devcontainers)
  BY DEF RequestInv
<1>a. TablesInv'
  BY <1>1 DEF TablesInv, MountNext, World, Handler, contextVars, worldVars, Stop, StartAgain,
       Discover, Ask, InspectSelf, LookElsewhere, ListContainers, Scan, NotFound, ListRows,
       Visit, Answer, Forget
<1>2. CASE World \/ UNCHANGED contextVars
  <2>1. UNCHANGED <<mounts, named, step, path, from, pending, matches, missed, errors>>
    BY <1>2 DEF World, Stop, StartAgain, Discover, contextVars, worldVars
  <2>2. alive' \subseteq Containers /\ steady' \subseteq Devcontainers
        /\ status' \in [Devcontainers -> {"running", "stopped"}]
    BY <1>1, <1>2 DEF World, Stop, StartAgain, Discover, contextVars, worldVars, MountTypeOK,
         Containers
  <2> QED
    BY <1>1, <1>a, <2>1, <2>2 DEF MountTypeOK
<1>3. ASSUME NEW wish \in Wishes, Ask(wish)
      PROVE  MountTypeOK' /\ step' # "rows"
  <2>1. clean(wish) \in Paths /\ MountsRoot \in Paths
    BY MountContextAssumption, WishesAssumption, CleanIsPath DEF RawSegments
  <2>2. MountsRoot \o clean(wish) \in Paths
    BY <2>1, Unjoin
  <2>3. path' \in Paths /\ step' \in {"invalid", "self"}
    BY <1>1, <1>3, <2>2 DEF Ask, MountTypeOK
  <2>4. UNCHANGED <<named, alive, status, from, pending, matches, missed, errors>>
        /\ steady' \subseteq Devcontainers
    BY <1>3 DEF Ask, worldVars
  <2> QED
    BY <1>1, <2>3, <2>4 DEF MountTypeOK, Steps
<1>4. ASSUME NEW c \in Containers, Visit(c)
      PROVE  MountTypeOK' /\ pending' \subseteq Devcontainers
  <2>1. /\ UNCHANGED <<named, alive, status, step, path, from, steady>>
        /\ c \in pending /\ step = "rows" /\ pending' \subseteq pending
        /\ missed' \subseteq missed \cup {c}
        /\ errors' \in {errors, errors + 1} /\ (errors' # errors => errors < MaxErrors)
    BY <1>4 DEF Visit, worldVars, GoOn, InspectFails, DaemonFails
  <2>2. errors' \in 0 .. MaxErrors
    BY <1>1, <2>1, MountContextAssumption DEF MountTypeOK
  <2>3. \A m \in matches' :
          m.container \in Devcontainers /\ m.path \in Paths /\ m.writable \in BOOLEAN
    <3>1. CASE matches' = matches
      BY <1>1, <3>1 DEF MountTypeOK
    <3>2. CASE matches' = matches \cup {[container |-> c, path |-> m.path, writable |-> m.writable] :
                 m \in UNION {containerPathForMountedSource(mounts[c], s) : s \in sources}}
      BY <1>1, <2>1, <3>2, VisitMatches DEF MountTypeOK
    <3> QED
      BY <1>4, <3>1, <3>2 DEF Visit
  <2> QED
    BY <1>1, <2>1, <2>2, <2>3 DEF MountTypeOK
<1>5. ASSUME Handler, ~\E c \in Containers : Visit(c)
      PROVE  MountTypeOK' /\ (step' = "rows" => pending' \subseteq Devcontainers)
  <2> USE DEF worldVars
  <2>1. UNCHANGED <<named, alive, status>> /\ matches' \subseteq matches /\ steady' \subseteq steady
    BY <1>5 DEF Handler, InspectSelf, LookElsewhere, ListContainers, Scan, NotFound, ListRows,
         Answer, Forget
  <2>2. step' \in Steps /\ path' \in Paths
    <3>1. <<>> \in Paths
      BY EmptySeq DEF Paths
    <3> QED
      BY <1>1, <1>5, <3>1 DEF Handler, InspectSelf, LookElsewhere, ListContainers, Scan, NotFound,
           ListRows, Answer, Forget, MountTypeOK, Steps
  <2>3. from' \in Containers \cup {Nowhere}
    BY <1>1, <1>5 DEF Handler, InspectSelf, LookElsewhere, ListContainers, Scan, NotFound,
         ListRows, Answer, Forget, MountTypeOK, Containers
  <2>4. missed' \subseteq Containers
    BY <1>1, <1>5 DEF Handler, InspectSelf, LookElsewhere, ListContainers, Scan, NotFound,
         ListRows, Answer, Forget, MountTypeOK, Containers, InspectFails
  <2>5. pending' \subseteq Containers /\ (step' = "rows" => pending' \subseteq Devcontainers)
    BY <1>1, <1>5 DEF Handler, InspectSelf, LookElsewhere, ListContainers, Scan, NotFound,
         ListRows, Answer, Forget, MountTypeOK, Containers
  <2>6. errors' \in {errors, errors + 1} /\ (errors' # errors => errors < MaxErrors)
    BY <1>5 DEF Handler, InspectSelf, LookElsewhere, ListContainers, Scan, NotFound,
         ListRows, Answer, Forget, InspectFails, DaemonFails
  <2>7. errors' \in 0 .. MaxErrors
    BY <1>1, <2>6, MountContextAssumption DEF MountTypeOK
  <2> QED
    BY <1>1, <2>1, <2>2, <2>3, <2>4, <2>5, <2>7 DEF MountTypeOK
<1> QED
  BY <1>a, <1>2, <1>3, <1>4, <1>5 DEF MountNext, Handler

(* It keeps what has been gathered translated from one path of one          *)
(* container.                                                               *)
LEMMA MatchStep ==
  ASSUME RequestInv, [MountNext]_contextVars
  PROVE  MatchInv'
<1> USE DEF worldVars
<1>1. MatchInv
  BY DEF RequestInv
<1>2. ASSUME UNCHANGED <<mounts, path, from>>, NEW m, Translated(m) PROVE Translated(m)'
  BY <1>2 DEF Translated, sources
<1>3. CASE World \/ Answer \/ UNCHANGED contextVars
  <2>1. /\ UNCHANGED <<mounts, path, from, matches>>
        /\ step' = step \/ (step = "rows" /\ step' = "done")
    BY <1>3 DEF World, Stop, StartAgain, Discover, Answer, contextVars
  <2> QED
    BY <1>1, <1>2, <2>1 DEF MatchInv
<1>4. ASSUME NEW c \in Containers, Visit(c) PROVE MatchInv'
  <2>1. UNCHANGED <<mounts, step, path, from>> /\ step = "rows" /\ c \in pending
    BY <1>4 DEF Visit
  <2>2. ASSUME NEW m \in matches' PROVE m.container \in Devcontainers /\ Translated(m)'
    <3>1. CASE m \in matches
      BY <1>1, <1>2, <2>1, <3>1 DEF MatchInv
    <3>2. CASE m \notin matches
      <4>1. m \in {[container |-> c, path |-> n.path, writable |-> n.writable] :
                     n \in UNION {containerPathForMountedSource(mounts[c], s) : s \in sources}}
        BY <1>4, <3>2 DEF Visit
      <4>2. PICK s \in sources : \E n \in containerPathForMountedSource(mounts[c], s) :
              m = [container |-> c, path |-> n.path, writable |-> n.writable]
        BY <4>1
      <4>3. PICK n \in containerPathForMountedSource(mounts[c], s) :
              m = [container |-> c, path |-> n.path, writable |-> n.writable]
        BY <4>2
      <4>4. c \in Devcontainers /\ n = [path |-> n.path, writable |-> n.writable]
        BY <2>1, VisitMatches
      <4>5. m.container = c /\ m.path = n.path /\ m.writable = n.writable
        BY <4>3
      <4>6. Translated(m)
        BY <4>4, <4>5 DEF Translated
      <4> QED
        BY <1>2, <2>1, <4>4, <4>5, <4>6
    <3> QED
      BY <3>1, <3>2
  <2> QED
    BY <1>1, <2>1, <2>2 DEF MatchInv
<1>5. CASE Forget
  BY <1>5 DEF Forget, MatchInv
<1>6. CASE \/ InspectSelf \/ LookElsewhere \/ ListContainers \/ NotFound \/ ListRows
           \/ (\E c \in Containers : Scan(c)) \/ \E wish \in Wishes : Ask(wish)
  <2>1. matches' = matches /\ step \notin {"rows", "done"}
    BY <1>6 DEF InspectSelf, LookElsewhere, ListContainers, NotFound, ListRows, Scan, Ask
  <2>2. matches' = {}
    BY <1>1, <2>1 DEF MatchInv
  <2>3. step' \in {"found", "rows"} => from' \in Containers
    BY <1>1, <1>6 DEF InspectSelf, LookElsewhere, ListContainers, NotFound, ListRows, Scan, Ask,
         MatchInv, Containers
  <2> QED
    BY <2>2, <2>3 DEF MatchInv
<1> QED
  BY <1>3, <1>4, <1>5, <1>6 DEF MountNext, Handler

(* It keeps the reason for which a request looks elsewhere.                 *)
LEMMA FoundStep ==
  ASSUME RequestInv, FoundInv, [MountNext]_contextVars
  PROVE  FoundInv'
<1> USE DEF worldVars
<1>1. (step \in {"list", "scan"} => Relay \in missed \/ ~Covers(Relay)) /\ RelayIsFound
  BY DEF FoundInv
<1>2. ASSUME UNCHANGED <<mounts, path>> PROVE Covers(Relay)' = Covers(Relay)
  BY <1>2 DEF Covers
<1>3. CASE World \/ UNCHANGED contextVars
  <2>1. UNCHANGED <<mounts, step, path, from, missed>>
    BY <1>3 DEF World, Stop, StartAgain, Discover, contextVars
  <2> QED
    BY <1>1, <1>2, <2>1 DEF FoundInv, RelayIsFound
<1>4. CASE Forget \/ \E wish \in Wishes : Ask(wish)
  <2>1. step' \in {"idle", "invalid", "self"}
    BY <1>4 DEF Forget, Ask
  <2> QED
    BY <2>1 DEF FoundInv, RelayIsFound
<1>5. CASE InspectSelf
  BY <1>5 DEF InspectSelf, FoundInv, RelayIsFound
<1>6. CASE LookElsewhere
  <2>1. UNCHANGED <<mounts, path>> /\ step' = "list"
        /\ (Relay \in missed' \/ ~Covers(Relay))
    BY <1>6 DEF LookElsewhere, InspectFails, NotItsMount
  <2> QED
    BY <1>2, <2>1 DEF FoundInv, RelayIsFound
<1>7. ASSUME NEW c \in Containers, Scan(c) PROVE FoundInv'
  <2>1. UNCHANGED <<mounts, path>> /\ step = "scan" /\ missed \subseteq missed'
        /\ step' \in {"scan", "found"}
    BY <1>7 DEF Scan, InspectFails
  <2> QED
    BY <1>1, <1>2, <2>1 DEF FoundInv, RelayIsFound
<1>8. CASE ListContainers \/ NotFound \/ ListRows \/ Answer \/ \E c \in Containers : Visit(c)
  <2>1. UNCHANGED <<mounts, path, from>> /\ missed \subseteq missed'
    BY <1>8 DEF ListContainers, NotFound, ListRows, Answer, Visit, InspectFails
  <2>2. \/ step = "list" /\ step' \in {"scan", "failed"}
        \/ step = "scan" /\ step' = "failed"
        \/ step \in {"found", "rows"} /\ step' \in {"rows", "done"}
    BY <1>8 DEF ListContainers, NotFound, ListRows, Answer, Visit
  <2> QED
    BY <1>1, <1>2, <2>1, <2>2 DEF FoundInv, RelayIsFound
<1> QED
  BY <1>3, <1>4, <1>5, <1>6, <1>7, <1>8 DEF MountNext, Handler

(* It keeps every container visited, answered or accounted for.             *)
LEMMA AnswerStep ==
  ASSUME RequestInv, AnswerInv, [MountNext]_contextVars
  PROVE  AnswerInv'
<1> USE DEF worldVars
<1>1. /\ MatchInv /\ steady \subseteq Devcontainers /\ pending \subseteq Containers
      /\ step = "rows" => pending \subseteq Devcontainers
  BY DEF RequestInv, MountTypeOK
<1>2. CASE World \/ UNCHANGED contextVars
  <2>1. /\ UNCHANGED <<mounts, step, path, from, pending, matches, missed>>
        /\ steady' \subseteq steady
    BY <1>2 DEF World, Stop, StartAgain, Discover, contextVars
  <2>2. \A c \in steady' : status'[c] # "stopped"
    BY <1>2 DEF World, Stop, StartAgain, Discover, contextVars, AnswerInv
  <2> QED
    BY <2>1, <2>2 DEF AnswerInv, sources
<1>3. CASE Forget
  BY <1>3 DEF Forget, AnswerInv
<1>4. CASE \/ InspectSelf \/ LookElsewhere \/ ListContainers \/ NotFound
           \/ (\E c \in Containers : Scan(c)) \/ \E wish \in Wishes : Ask(wish)
  <2>1. UNCHANGED <<status, matches>> /\ step' \notin {"rows", "done"}
    BY <1>4 DEF InspectSelf, LookElsewhere, ListContainers, NotFound, Scan, Ask
  <2>2. \A c \in steady' : status'[c] # "stopped"
    BY <1>4 DEF InspectSelf, LookElsewhere, ListContainers, NotFound, Scan, Ask, AnswerInv
  <2> QED
    BY <2>1, <2>2 DEF AnswerInv
<1>5. CASE ListRows
  <2>1. UNCHANGED <<mounts, status, path, from, matches, missed, steady>> /\ matches = {}
    BY <1>1, <1>5 DEF ListRows, MatchInv
  <2>2. steady \subseteq pending'
    BY <1>1, <1>5 DEF ListRows, AnswerInv
  <2>3. step' = "done" => sources' = {}
    BY <1>5, <2>1 DEF ListRows, sources
  <2> QED
    BY <2>1, <2>2, <2>3 DEF AnswerInv
<1>6. CASE Answer
  <2>1. UNCHANGED <<mounts, status, path, from, pending, matches, missed, steady>>
        /\ step = "rows" /\ pending = {} /\ step' = "done"
    BY <1>6 DEF Answer
  <2> QED
    BY <2>1 DEF AnswerInv, sources
<1>7. ASSUME NEW c \in Containers, Visit(c) PROVE AnswerInv'
  <2>1. /\ UNCHANGED <<mounts, status, step, path, from, steady>> /\ sources' = sources
        /\ step = "rows" /\ c \in pending /\ pending' = pending \ {c}
    BY <1>7 DEF Visit, GoOn, sources
  <2> DEFINE target(s) == containerPathForMountedSource(mounts[c], s)
             new == {[container |-> c, path |-> m.path, writable |-> m.writable] :
                       m \in UNION {target(s) : s \in sources}}
  <2>2. CASE InspectFails(c) /\ matches' = matches
    <3>1. missed' = missed \cup {c}
      BY <2>2 DEF InspectFails
    <3> QED
      BY <2>1, <2>2, <3>1 DEF AnswerInv
  <2>3. CASE matches' = matches \cup new /\ missed' = missed
    <3>1. \A m, n \in new : m = n /\ m.container = c
      <4>1. ASSUME NEW m \in new, NEW n \in new PROVE m = n /\ m.container = c
        <5>1. PICK s \in sources : \E x \in target(s) :
                m = [container |-> c, path |-> x.path, writable |-> x.writable]
          OBVIOUS
        <5>2. PICK x \in target(s) :
                m = [container |-> c, path |-> x.path, writable |-> x.writable]
          BY <5>1
        <5>3. PICK r \in sources : \E y \in target(r) :
                n = [container |-> c, path |-> y.path, writable |-> y.writable]
          OBVIOUS
        <5>4. PICK y \in target(r) :
                n = [container |-> c, path |-> y.path, writable |-> y.writable]
          BY <5>3
        <5>5. sources = {s} /\ target(s) = {x}
          BY <2>1, VisitMatches
        <5>6. r = s /\ y = x
          BY <5>5
        <5> QED
          BY <5>2, <5>4, <5>6
      <4> QED
        BY <4>1
    <3>2. \A m \in matches : m.container # c
      BY <2>1 DEF AnswerInv
    <3>3. \A s \in sources : target(s) # {} => \E m \in new : m.container = c
      <4>1. ASSUME NEW s \in sources, target(s) # {} PROVE \E m \in new : m.container = c
        <5>1. PICK x \in target(s) : TRUE
          BY <4>1
        <5>2. [container |-> c, path |-> x.path, writable |-> x.writable] \in new
          OBVIOUS
        <5> QED
          BY <5>2
      <4> QED
        BY <4>1
    <3> HIDE DEF new
    <3>4. \A m, n \in matches' : m.container = n.container => m = n
      BY <2>3, <3>1, <3>2 DEF AnswerInv
    <3>5. \A m \in matches' : m.container \notin pending'
      BY <2>1, <2>3, <3>1 DEF AnswerInv
    <3>6. ASSUME NEW d \in steady \ missed, NEW s \in sources
          PROVE  \/ d \in pending'
                 \/ containerPathForMountedSource(mounts[d], s) = {}
                 \/ \E m \in matches' : m.container = d
      <4>1. CASE d = c
        BY <2>3, <3>3, <4>1
      <4>2. CASE d # c
        BY <2>1, <2>3, <4>2 DEF AnswerInv
      <4> QED
        BY <4>1, <4>2
    <3>7. \A d \in steady : status[d] # "stopped"
      BY DEF AnswerInv
    <3> HIDE DEF target
    <3> QED
      BY <2>1, <2>3, <3>4, <3>5, <3>6, <3>7 DEF AnswerInv
  <2> QED
    BY <1>7, <2>2, <2>3 DEF Visit
<1> QED
  BY <1>2, <1>3, <1>4, <1>5, <1>6, <1>7 DEF MountNext, Handler
-------------------------------------------------------------------------------
(* What the invariants say of an answer. *)
LEMMA RequestShowsFile ==
  ASSUME RequestInv PROVE MatchesShowFile
<1> SUFFICES ASSUME NEW m \in matches, ~Overlaid(m)
             PROVE  /\ {v.file : v \in Seen(mounts[m.container], m.path)}
                          = {v.file : v \in Seen(mounts[from], path)}
                    /\ {v.writable : v \in Seen(mounts[m.container], m.path)} = {m.writable}
  BY DEF MatchesShowFile
<1>1. /\ from \in Containers /\ m.container \in Containers /\ path \in Paths
      /\ mounts[from] \in Table /\ mounts[m.container] \in Table
  BY DEF RequestInv, MatchInv, MountTypeOK, TablesInv, Containers
<1> DEFINE n == [path |-> m.path, writable |-> m.writable]
<1>2. PICK s \in sources : n \in containerPathForMountedSource(mounts[m.container], s)
  BY DEF RequestInv, MatchInv, Translated
<1>3. s \in Paths /\ {v.file : v \in Seen(mounts[from], path)} = {s}
  BY <1>1, <1>2, SourceIsSeen DEF sources
<1>4. \A k \in bestMountBySource(mounts[m.container], s) : k \in Deepest(mounts[m.container], m.path)
  BY <1>2 DEF Overlaid
<1>5. n.path = m.path /\ n.writable = m.writable
  OBVIOUS
<1> HIDE DEF n
<1>6. /\ {v.file : v \in Seen(mounts[m.container], n.path)} = {s}
      /\ {v.writable : v \in Seen(mounts[m.container], n.path)} = {n.writable}
  <2>1. ASSUME NEW ms \in Table, n \in containerPathForMountedSource(ms, s),
               \A k \in bestMountBySource(ms, s) : k \in Deepest(ms, n.path)
        PROVE  /\ {v.file : v \in Seen(ms, n.path)} = {s}
               /\ {v.writable : v \in Seen(ms, n.path)} = {n.writable}
    BY <1>3, <2>1, TargetIsSeen
  <2>2. \A k \in bestMountBySource(mounts[m.container], s) :
          k \in Deepest(mounts[m.container], n.path)
    BY <1>4, <1>5
  <2> QED
    BY <1>1, <1>2, <2>1, <2>2
<1> QED
  BY <1>3, <1>5, <1>6

(* When nothing is pending the answer is complete.                          *)
LEMMA AnswerSaysAll ==
  ASSUME AnswerInv PROVE AnswerIsComplete
<1> SUFFICES ASSUME step = "done", NEW c \in steady \ missed, NEW s \in sources,
                    containerPathForMountedSource(mounts[c], s) # {}
             PROVE  \E m \in matches : m.container = c /\ \A n \in matches : n.container = c => n = m
  BY DEF AnswerIsComplete
<1>1. pending = {}
  BY DEF AnswerInv
<1>2. PICK m \in matches : m.container = c
  BY <1>1 DEF AnswerInv
<1> QED
  BY <1>2 DEF AnswerInv

(* The invariant of a request holds in every reachable state.               *)
LEMMA RequestAlways == MountSpec => []RequestInv
<1>1. MountInit => RequestInv
  BY InitRequest
<1>2. RequestInv /\ [MountNext]_contextVars => RequestInv'
  BY TypeStep, MatchStep DEF RequestInv
<1> QED
  BY <1>1, <1>2, PTL DEF MountSpec

(* The variables of a request keep their types: the resolved paths are      *)
(* paths, the answer names devcontainers (module/mounts.go).                *)
THEOREM MountTypeCorrect == MountSpec => []MountTypeOK
<1>1. RequestInv => MountTypeOK
  BY DEF RequestInv
<1> QED
  BY <1>1, RequestAlways, PTL

(* Whatever is mounted, each path of the answer shows in its devcontainer   *)
(* the file that was asked for, with the access that is stated, unless      *)
(* another mount lies over it (resolveMountPathContext).                    *)
THEOREM MatchesAlwaysShowFile == MountSpec => []MatchesShowFile
<1>1. RequestInv => MatchesShowFile
  BY RequestShowsFile
<1> QED
  BY <1>1, RequestAlways, PTL

(* Whatever other containers mount at the same path, the file is read off   *)
(* the relay's own mounts, unless Docker did not answer for it              *)
(* (inspectRelayContainer).                                                 *)
THEOREM RelayIsAlwaysFound == MountSpec => []RelayIsFound
<1>1. MountInit => FoundInv
  BY InitRequest
<1>2. RequestInv /\ FoundInv /\ [MountNext]_contextVars => FoundInv'
  BY FoundStep
<1>3. FoundInv => RelayIsFound
  BY DEF FoundInv
<1> QED
  BY <1>1, <1>2, <1>3, RequestAlways, PTL DEF MountSpec

(* However containers stop, start and are rediscovered meanwhile, those     *)
(* that were there all the time and could be inspected are all in the       *)
(* answer, each once (resolveMountPathContext).                             *)
THEOREM AnswersAreComplete == MountSpec => []AnswerIsComplete
<1>1. MountInit => AnswerInv
  BY InitRequest
<1>2. RequestInv /\ AnswerInv /\ [MountNext]_contextVars => AnswerInv'
  BY AnswerStep
<1>3. AnswerInv => AnswerIsComplete
  BY AnswerSaysAll
<1> QED
  BY <1>1, <1>2, <1>3, RequestAlways, PTL DEF MountSpec
===============================================================================
